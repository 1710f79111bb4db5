------------------------------- MODULE Network -------------------------------
(***************************************************************************)
(* VLANs, bridges and portals of one device, the script aircoins-vlan-     *)
(* apply that rebuilds them after a power cut, and the start of the API,   *)
(* which is ordered neither before nor after that script.                  *)
(***************************************************************************)
EXTENDS Links, Portals

-----------------------------------------------------------------------------
\* Boot

\* Phase 1 and 1b: saved VLANs (unless their parent is not up in time), saved
\* bridges with the members that have no master; members keep no address.
ScriptLinks(V) == kernel \cup V \cup DOMAIN bridges
ScriptMembers == UNION {bridges[b] : b \in DOMAIN bridges}
ScriptMaster(V) ==
    [i \in Iface |->
        LET by == {b \in DOMAIN bridges : i \in bridges[b]}
        IN IF i \in ScriptLinks(V) \ Bridge /\ master[i] = None /\ by # {}
           THEN CHOOSE b \in by : TRUE ELSE master[i]]
\* Phase 2: the enabled entries or, in a file without any entry, the VLAN lines of
\* the old format, whose dnsmasq file has to be there.
ScriptPortal(s, c, known) ==
    LET conf == IF s.conf = None /\ known THEN c ELSE s.conf
    IN [s EXCEPT !.ip = c, !.file = IF @ = None THEN c ELSE @, !.conf = conf,
                 !.run = @ \/ conf # None, !.captive = TRUE]
ScriptStack(V) ==
    [i \in Iface |->
        LET s == IF i \in (ScriptLinks(V) \ kernel) THEN [stack[i] EXCEPT !.ip = stack[i].file]
                 ELSE stack[i]
            t == IF i \in ScriptMembers THEN [s EXCEPT !.file = None] ELSE s
        IN IF i \in ScriptLinks(V) /\ i \in Enabled(portals) THEN ScriptPortal(t, portals[i].cidr, TRUE)
           ELSE IF i \in ScriptLinks(V) /\ DOMAIN portals = {} /\ i \in Legacy(vlans)
                THEN ScriptPortal(t, vlans[i], FALSE)
           ELSE t]
BootScript ==
    /\ script
    /\ \E V \in SUBSET DOMAIN vlans :
         /\ IF V = DOMAIN vlans THEN NoFault ELSE Fault(DOMAIN vlans \ V)
         /\ kernel' = ScriptLinks(V)
         /\ master' = ScriptMaster(V)
         /\ stack' = ScriptStack(V)
    /\ script' = FALSE
    /\ UNCHANGED <<linkConf, portalConf, job, api, cuts, used, promised>>

\* main: the lines of the old format become entries, TTLs are applied, also to
\* disabled portals, and the enabled ones are healed.
ApiBoot ==
    /\ api # "up"
    /\ LET P == Migrated(portals, Legacy(vlans))
           WithTtl(S) == [i \in Iface |-> [S[i] EXCEPT
                                             !.ttl = @ \/ (i \in DOMAIN P /\ P[i].anti)]]
       IN /\ portals' = P
          /\ mirror' = mirror \cup (DOMAIN P \ DOMAIN portals)
          /\ \/ stack' = WithTtl(HealAll(P)) /\ NoFault
             \/ \E i \in ToHeal(P) : \E s \in HalfHealed(stack[i], P[i]) :
                  stack' = WithTtl([HealAll(P) EXCEPT ![i] = s]) /\ Fault({i})
    /\ vlans' = Rewritten(vlans)
    /\ api' = "up"
    /\ UNCHANGED <<kernel, master, bridges, rows, job, script, cuts, used, promised>>

\* What was in flight is lost; what was promised of it may or may not hold.
Interrupted == UNION {Concerns(w) : w \in Worker}
Cut ==
    /\ cuts < MaxCuts /\ cuts' = cuts + 1
    /\ job' = [w \in Worker |-> Idle]
    /\ touched' = touched \cup Interrupted
    /\ promised' = Restrict(promised, DOMAIN promised \ Interrupted)
    /\ UNCHANGED <<linkConf, portalConf, used, faults>>

ApiCrash ==
    /\ api = "up"
    /\ Cut
    /\ api' = "boot"
    /\ UNCHANGED <<hostVars, script>>

\* Links that are not hardware, memberships and rules are gone; networkd sets the
\* addresses of the files that are there.
PowerCut ==
    /\ Cut
    /\ api' = "boot" /\ script' = TRUE
    /\ kernel' = kernel \cap Nic
    /\ master' = [i \in Iface |-> None]
    /\ stack' = [i \in Iface |->
                    [Bare EXCEPT !.file = stack[i].file, !.conf = stack[i].conf,
                                 !.ip = IF i \in kernel \cap Nic THEN stack[i].file ELSE None]]

\* A USB adapter is pulled, and plugged in again.
Unplug(n) ==
    /\ n \in kernel
    /\ Fault({n})
    /\ Vanish(n)
    /\ UNCHANGED <<linkConf, portalConf, job, lifeVars, used, promised>>
Plug(n) ==
    /\ n \notin kernel
    /\ kernel' = kernel \cup {n}
    /\ stack' = Appeared({n})
    /\ UNCHANGED <<master, linkConf, portalConf, job, lifeVars, used, faults, touched, promised>>

-----------------------------------------------------------------------------
\* A new device, one whose VLANs and bridges were set up before, or one that is
\* upgraded from the old format with a portal.
Init ==
    /\ \E old \in [Vlan -> Cidr \cup {Plain, None}], B \in SUBSET Bridge :
         LET V == {v \in Vlan : old[v] # None}
             L == {v \in V : old[v] # Plain}
         IN /\ vlans = Restrict(old, V)
            /\ bridges = [b \in B |-> {}] /\ rows = bridges
            /\ kernel = Nic \cup V \cup B
            /\ stack = [i \in Iface |->
                          IF i \in L THEN [Bare EXCEPT !.ip = old[i], !.conf = old[i],
                                                       !.run = TRUE, !.captive = TRUE]
                          ELSE Bare]
            /\ promised = [v \in L |-> [cidr |-> old[v], on |-> TRUE, anti |-> FALSE]]
    /\ master = [i \in Iface |-> None]
    /\ portals = <<>> /\ mirror = {}
    /\ job = [w \in Worker |-> Idle]
    /\ api = "boot" /\ script = FALSE
    /\ used = 0 /\ faults = 0 /\ cuts = 0 /\ touched = {}

LinkRequest(w) ==
    \/ \E v \in Vlan : VLANDelete(w, v) \/ \E t \in Cidr \cup {Plain} : VLANCreate(w, v, t)
    \/ \E b \in Bridge :
         \/ BridgeCreate(w, b) \/ BridgeDelete(w, b)
         \/ \E m \in Iface : BridgeAddMember(w, b, m) \/ BridgeRemoveMember(w, b, m)
    \/ VLANList(w) \/ BridgeList(w)
LinkStep(w) ==
    \/ VLANLink(w) \/ VLANUnlink(w) \/ VLANRead(w) \/ VLANWrite(w)
    \/ BridgeLink(w) \/ BridgeUnlink(w) \/ BridgeEnslave(w) \/ BridgeRelease(w)
    \/ BridgeRow(w) \/ BridgeRead(w) \/ BridgeWrite(w)
PortalRequest(w) ==
    \/ \E i \in Iface :
         \/ PortalEnable(w, i) \/ PortalDisable(w, i) \/ PortalDelete(w, i)
         \/ \E c \in Cidr, anti \in BOOLEAN : PortalCreate(w, i, c, anti) \/ PortalUpdate(w, i, c, anti)
    \/ PortalList(w)
PortalStep(w) ==
    \/ Teardown(w) \/ Provision(w) \/ ProvisionFails(w)
    \/ PortalRead(w) \/ PortalWrite(w) \/ PortalMirror(w)

Next ==
    \/ \E w \in Worker : LinkRequest(w) \/ LinkStep(w) \/ PortalRequest(w) \/ PortalStep(w)
    \/ BootScript \/ ApiBoot \/ ApiCrash \/ PowerCut
    \/ \E n \in Nic : Unplug(n) \/ Plug(n)

Spec == Init /\ [][Next]_vars

-----------------------------------------------------------------------------
TypeOK ==
    /\ kernel \subseteq Iface
    /\ master \in [Iface -> Bridge \cup {None}]
    /\ stack \in [Iface -> Stack]
    /\ DOMAIN vlans \subseteq Vlan /\ \A v \in DOMAIN vlans : vlans[v] \in Cidr \cup {Plain}
    /\ \A f \in {bridges, rows} :
         DOMAIN f \subseteq Bridge /\ \A b \in DOMAIN f : f[b] \subseteq Iface
    /\ \A f \in {portals, promised} :
         DOMAIN f \subseteq Iface /\ \A i \in DOMAIN f : f[i] \in Entry
    /\ mirror \subseteq Iface /\ touched \subseteq Iface
    /\ api \in {"boot", "up"} /\ script \in BOOLEAN
    /\ used \in 0 .. MaxRequests /\ faults \in 0 .. MaxFaults /\ cuts \in 0 .. MaxCuts

\* Nothing is under way: the API is up, the script has run, every request is answered.
Settled == api = "up" /\ ~script /\ Quiet

\* What the last answer confirmed of a portal is what portals.conf says of it,
\* whatever was asked of other interfaces, through restarts and failures; also the
\* portal of a device that was upgraded from the old format.
SettingsKept == Settled => \A i \in DOMAIN promised : i \in DOMAIN portals /\ portals[i] = promised[i]

\* Where nothing went wrong, a portal that is enabled is served as it was saved
\* after every request and every boot, whether script or API came first: its
\* VLAN or bridge is there, with address, networkd file, DHCP, rules and TTL.
Serving(i, e) ==
    /\ i \in kernel
    /\ LET s == stack[i]
       IN s.ip = e.cidr /\ s.file = e.cidr /\ s.conf = e.cidr /\ s.run /\ s.captive /\ (e.anti => s.ttl)
ServedAsSaved == Settled => \A i \in Enabled(portals) \ touched : Serving(i, portals[i])

\* ... and where no portal is enabled nothing of one is left, but for the TTL.
PlainElsewhere ==
    Settled => \A i \in Iface \ (Enabled(portals) \cup touched) : [stack[i] EXCEPT !.ttl = FALSE] = Bare

\* No interface with a portal is a member of a bridge, where its clients would be
\* bridged past the portal.
PortalNotEnslaved == \A i \in DOMAIN portals \ touched : master[i] = None

\* Kernel, file and database agree on the members of a bridge, so that a bridge
\* that is emptied can be deleted and one that is rebuilt is complete.
BridgesAgree ==
    Settled => \A b \in (kernel \cap Bridge) \ touched :
        /\ b \in DOMAIN bridges /\ b \in DOMAIN rows
        /\ bridges[b] \ touched = Members(b) \ touched
        /\ rows[b] \ touched = Members(b) \ touched
=============================================================================
