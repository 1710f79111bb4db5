------------------------------- MODULE Portals -------------------------------
(***************************************************************************)
(* Portal servers (handlers/portal.go).  A portal is a stack of address,   *)
(* networkd file, dnsmasq and captive rules on one interface.  A handler   *)
(* changes the stack first, saves the entry to portals.conf afterwards and *)
(* mirrors it in the database; a listing, and every start of the API,      *)
(* repairs the stack of every enabled entry.                               *)
(***************************************************************************)
EXTENDS NetState

\* applyCaptiveRules with "add": a TTL that is not asked for is left alone.
Captured(s, anti) == [s EXCEPT !.captive = TRUE, !.ttl = @ \/ anti]
\* ... and with "del": an anti-hotspot portal has its TTL applied once more.
Released(s, anti) == [s EXCEPT !.captive = FALSE, !.ttl = anti]
\* startPortalDHCP, and what it leaves when the unit does not start.
Leasing(s, c, starts) == [s EXCEPT !.conf = c, !.run = starts]

\* provisionPortal once the address is set.
Provisioned(s, e) ==
    Captured(Leasing([s EXCEPT !.ip = e.cidr, !.file = e.cidr], e.cidr, TRUE), e.anti)
\* One of its later steps fails and is logged.
HalfProvisioned(s, e) ==
    {[Provisioned(s, e) EXCEPT !.file = s.file], [Provisioned(s, e) EXCEPT !.run = FALSE],
     [Provisioned(s, e) EXCEPT !.captive = s.captive, !.ttl = s.ttl]}
\* Mutant: the networkd file stays.
TornDownButFile(s, e) ==
    [Released(s, e.anti) EXCEPT !.ip = None, !.conf = None, !.run = FALSE]
\* teardownPortal
TornDown(s, e) ==
    [Released(s, e.anti) EXCEPT !.ip = None, !.file = None, !.conf = None, !.run = FALSE]
\* Mutant: a networkd file that is missing is not written.
HealedButFile(s, e) == Captured(Leasing([s EXCEPT !.ip = e.cidr], e.cidr, TRUE), e.anti)
\* healPortal: the networkd file is written only if there is none.
Healed(s, e) ==
    Captured(Leasing([s EXCEPT !.ip = e.cidr, !.file = IF @ = None THEN e.cidr ELSE @],
                     e.cidr, TRUE), e.anti)
\* One of its steps fails and is logged; a networkd file or a running dnsmasq that
\* is right is not touched.
HalfHealed(s, e) ==
    {[Healed(s, e) EXCEPT !.ip = IF s.ip = e.cidr THEN @ ELSE None],
     [Healed(s, e) EXCEPT !.file = s.file],
     [Healed(s, e) EXCEPT !.run = s.conf = e.cidr /\ s.run],
     [Healed(s, e) EXCEPT !.captive = s.captive, !.ttl = s.ttl]}

Enabled(P) == {i \in DOMAIN P : P[i].on}

-----------------------------------------------------------------------------
PortalCreate(w, i, c, anti) ==
    /\ i \in kernel /\ master[i] = None
    /\ Begin(w, [Idle EXCEPT !.op = "create", !.pc = "provision", !.i = i,
                    !.want = [cidr |-> c, on |-> TRUE, anti |-> anti]])
    /\ UNCHANGED <<portalConf, promised>>

PortalEnable(w, i) ==
    /\ i \in DOMAIN portals
    /\ Begin(w, [Idle EXCEPT !.op = "enable", !.pc = "provision", !.i = i,
                    !.want = [portals[i] EXCEPT !.on = TRUE]])
    /\ UNCHANGED <<portalConf, promised>>

PortalDisable(w, i) ==
    /\ i \in DOMAIN portals
    /\ Begin(w, [Idle EXCEPT !.op = "disable", !.pc = "teardown", !.i = i,
                    !.old = portals[i], !.want = [portals[i] EXCEPT !.on = FALSE]])
    /\ UNCHANGED <<portalConf, promised>>

\* Without an entry in the file only a row left in the mirror is deleted.
PortalDelete(w, i) ==
    \/ /\ i \in DOMAIN portals
       /\ Begin(w, [Idle EXCEPT !.op = "delete", !.pc = "teardown", !.i = i,
                       !.old = portals[i]])
       /\ promised' = Without(promised, i)
       /\ UNCHANGED portalConf
    \/ /\ MayServe(w)
       /\ i \in mirror \ DOMAIN portals
       /\ mirror' = mirror \ {i}
       /\ UNCHANGED <<hostVars, linkConf, portals, job, lifeVars, used, faults, touched,
                      promised>>

PortalUpdate(w, i, c, anti) ==
    /\ i \in DOMAIN portals
    /\ portals[i].cidr # c \/ portals[i].anti # anti
    /\ Begin(w, [Idle EXCEPT !.op = "update", !.pc = "teardown", !.i = i, !.old = portals[i],
                    !.want = [cidr |-> c, on |-> portals[i].on, anti |-> anti]])
    /\ UNCHANGED <<portalConf, promised>>

-----------------------------------------------------------------------------
Teardown(w) ==
    /\ At(w, {"disable", "delete", "update"}, "teardown")
    /\ LET j == job[w]
       IN /\ stack' = [stack EXCEPT ![j.i] = TornDown(@, j.old)]
          /\ Goto(w, IF j.want.on THEN "provision" ELSE "read")
    /\ UNCHANGED <<kernel, master, linkConf, portalConf, lifeVars, used, faults, touched,
                   promised>>

Provision(w) ==
    /\ At(w, {"create", "enable", "update"}, "provision")
    /\ LET j == job[w]
       IN /\ j.i \in kernel
          /\ \/ stack' = [stack EXCEPT ![j.i] = Provisioned(@, j.want)] /\ NoFault
             \/ /\ \E s \in HalfProvisioned(stack[j.i], j.want) : stack' = [stack EXCEPT ![j.i] = s]
                /\ Fault({j.i})
          /\ Goto(w, "read")
    /\ UNCHANGED <<kernel, master, linkConf, portalConf, lifeVars, used, promised>>

\* Mutant: the error is answered without the revert.
ProvisionFailsForGood(w) ==
    /\ At(w, {"create", "enable", "update"}, "provision")
    /\ LET j == job[w]
       IN /\ IF j.i \in kernel THEN Fault({}) ELSE NoFault
          /\ stack' = [stack EXCEPT ![j.i].ip = None]
    /\ Answer(w)
    /\ UNCHANGED <<kernel, master, linkConf, portalConf, lifeVars, used, promised>>

\* The address was flushed and cannot be set: an error is answered and nothing is
\* saved; an update provisions the old entry again.
ProvisionFails(w) ==
    /\ At(w, {"create", "enable", "update"}, "provision")
    /\ LET j == job[w]
       IN /\ IF j.i \in kernel THEN Fault(IF j.op = "update" THEN {} ELSE {j.i}) ELSE NoFault
          /\ stack' = [stack EXCEPT ![j.i] =
                          IF j.op = "update" /\ j.i \in kernel THEN Provisioned(@, j.old)
                          ELSE [@ EXCEPT !.ip = None]]
    /\ Answer(w)
    /\ UNCHANGED <<kernel, master, linkConf, portalConf, lifeVars, used, promised>>

\* Mutant: the filter drops all other entries as well.
EntriesEmptied(P, j) == IF j.op = "delete" THEN <<>> ELSE With(P, j.i, j.want)

\* writePortalConfigEntry, removePortalConfigEntry: the file is read ...
Entries(P, j) == IF j.op = "delete" THEN Without(P, j.i) ELSE With(P, j.i, j.want)
PortalRead(w) ==
    /\ At(w, {"create", "enable", "disable", "delete", "update"}, "read")
    /\ job' = [job EXCEPT ![w].pc = "write", ![w].snap = Entries(portals, job[w])]
    /\ UNCHANGED <<hostVars, linkConf, portalConf, lifeVars, used, faults, touched, promised>>

\* ... and rewritten.
PortalWrite(w) ==
    /\ At(w, {"create", "enable", "disable", "delete", "update"}, "write")
    /\ portals' = job[w].snap
    /\ job' = [job EXCEPT ![w].pc = "mirror", ![w].snap = <<>>]
    /\ UNCHANGED <<hostVars, linkConf, mirror, lifeVars, used, faults, touched, promised>>

\* upsertPortalDB, deletePortalDB: a failure is a warning; then the answer.
PortalMirror(w) ==
    /\ At(w, {"create", "enable", "disable", "delete", "update"}, "mirror")
    /\ LET j == job[w]
       IN /\ \/ mirror' = (IF j.op = "delete" THEN mirror \ {j.i} ELSE mirror \cup {j.i})
                /\ NoFault
             \/ UNCHANGED mirror /\ Fault({j.i})
          /\ promised' = IF j.op = "delete" THEN promised ELSE With(promised, j.i, j.want)
    /\ Answer(w)
    /\ UNCHANGED <<hostVars, linkConf, portals, lifeVars, used>>

-----------------------------------------------------------------------------
\* PortalList heals every enabled portal whose interface exists, and goes on to the
\* next one when a step fails.
ToHeal(P) == Enabled(P) \cap kernel
HealAll(P) == [i \in Iface |-> IF i \in ToHeal(P) THEN Healed(stack[i], P[i]) ELSE stack[i]]
PortalList(w) ==
    /\ MayServe(w)
    /\ \/ stack' = HealAll(portals) /\ NoFault
       \/ \E i \in ToHeal(portals) : \E s \in HalfHealed(stack[i], portals[i]) :
            stack' = [HealAll(portals) EXCEPT ![i] = s] /\ Fault({i})
    /\ stack' # stack
    /\ UNCHANGED <<kernel, master, linkConf, portalConf, job, lifeVars, used, promised>>

\* MigrateLegacyPortalConfig: a VLAN line with an address becomes an entry, unless
\* there is one.
Migrated(P, L) ==
    [i \in DOMAIN P \cup L |->
        IF i \in DOMAIN P THEN P[i] ELSE [cidr |-> vlans[i], on |-> TRUE, anti |-> FALSE]]
=============================================================================
