-------------------------------- MODULE Qdisc --------------------------------
(***************************************************************************)
(* Traffic shaping of one portal interface (handlers/qdisc.go).  The tree  *)
(* of the kernel is built by the requests that apply the saved rule, by    *)
(* the re-apply at boot with its retry, and by the hooks of the sessions,  *)
(* one tc command after the other.  Only the requests share a mutex.       *)
(*                                                                         *)
(* Class identifiers are the devices themselves: the hash of a MAC address *)
(* is taken to be free of collisions.                                      *)
(***************************************************************************)
EXTENDS Naturals, FiniteSets, Functions

CONSTANTS Device,           \* client devices, also their class identifiers
          Rate,             \* rates of a device, as a rule or an override
          Request,          \* apply requests the API may serve at the same time
          Boot, Default, None,
          Careful,          \* does the operator wait, and shape running sessions only?
          MaxSave, MaxApply, MaxSwitch, MaxFault, MaxBoot   \* bounds

Global == Rate \cup {"cake", "global"}
Stream == Request \cup {Boot}
Hook == Device \X {"add", "remove"}
Proc == Stream \cup Hook

ASSUME QdiscAssumption ==
    /\ Boot \notin Request /\ Stream \cap Hook = {} /\ Careful \in BOOLEAN /\ IsFiniteSet(Device)
    /\ None \notin Global \cup Device \cup Request /\ Default \notin Device
    /\ Rate \cap {"cake", "global"} = {}
    /\ {MaxSave, MaxApply, MaxSwitch, MaxFault, MaxBoot} \subseteq Nat

VARIABLES rule,      \* the saved rule
          session,   \* session[m]: "none", "active" or "paused"
          override,  \* override[m]: shaped_mbps of the session; once cleared, the
                     \* class keeps its rate until it is added again
          root,      \* root qdisc of the interface: "none", "cake" or "htb"
          class,     \* HTB classes: identifier -> rate
          leaf,      \* classes with an fq_codel leaf
          filter,    \* devices with a download filter to their class
          police,    \* upload policing: pairs of device and rate
          link,      \* is the interface there?
          job,       \* job[p]: what process p is doing
          mu,        \* the request that holds the mutex
          applied,   \* history: rule confirmed for the tree since the last save
          reported,  \* history: devices the last apply reported
          asked,     \* history: is the saved rule being or been applied?
          touched,   \* history: devices a command failed for
          saves, applies, switches, faults, boots

tree == <<root, class, leaf, filter, police>>
device == <<session, override>>
told == <<applied, reported, asked>>
counts == <<saves, applies, switches, boots>>
fault == <<faults, touched>>
vars == <<rule, device, tree, link, job, mu, told, counts, fault>>

Idle == [pc |-> "idle", rule |-> None, dev |-> None, todo |-> {},
         again |-> FALSE]
Job == [pc: {"idle", "boot", "wipe", "root", "class", "leaf", "snapshot", "next", "filter",
             "verify", "retry", "read", "unfilter", "unclass"},
        rule: Global \cup {None}, dev: Device \cup {Default, None}, todo: SUBSET Device,
        again: BOOLEAN]   \* may the boot try once more?

Set(p, pc) == job' = [job EXCEPT ![p].pc = pc]
Free(p) == job' = [job EXCEPT ![p] = Idle]
Applying == \E s \in Stream : job[s].pc \notin {"idle", "retry"}
Busy(m) == \E h \in Hook : h[1] = m /\ job[h] # Idle
Quiet == \A p \in Proc : job[p] = Idle
NoFault == UNCHANGED fault
Fault(S) == faults < MaxFault /\ faults' = faults + 1 /\ touched' = touched \cup S

-----------------------------------------------------------------------------
\* The operator

SaveQdisc(r) ==
    /\ Careful => ~Applying /\ job[Boot] = Idle
    /\ saves < MaxSave /\ saves' = saves + 1
    /\ rule' = r
    /\ applied' = None /\ reported' = {} /\ asked' = FALSE
    /\ UNCHANGED <<device, tree, link, job, mu, applies, switches, boots, fault>>

\* ApplyQdisc, once it holds the mutex.
ApplyQdisc(s) ==
    /\ job[s] = Idle /\ mu = None
    /\ applies < MaxApply /\ applies' = applies + 1
    /\ rule # None /\ link
    /\ mu' = s
    /\ job' = [job EXCEPT ![s].pc = "wipe", ![s].rule = rule]
    /\ applied' = None /\ reported' = {} /\ asked' = TRUE
    /\ UNCHANGED <<rule, device, tree, link, saves, switches, boots, fault>>

\* tc class add
ClassWith(id, r) == [c \in DOMAIN class \cup {id} |-> IF c = id THEN r ELSE class[c]]

\* ChangeClientClassRate: a class that is missing is added, without a filter.
ChangeClientClassRate(m, r) ==
    IF m \in DOMAIN class THEN class' = [class EXCEPT ![m] = r]
    ELSE IF root = "htb" THEN class' = ClassWith(m, r)
    ELSE UNCHANGED class

\* Shape; the row of a paused session is still active.
Shape(m, r) ==
    /\ session[m] # "none"
    /\ Careful => session[m] = "active" /\ ~Busy(m) /\ ~Applying
    /\ switches < MaxSwitch /\ switches' = switches + 1
    /\ override' = [override EXCEPT ![m] = IF r = None THEN "cleared" ELSE r]
    /\ IF rule \in Rate /\ r # None THEN ChangeClientClassRate(m, r) ELSE UNCHANGED class
    /\ UNCHANGED <<rule, session, root, leaf, filter, police, link, job, mu, told, saves,
                   applies, boots, fault>>

-----------------------------------------------------------------------------
\* applyQdiscRule, one command at a time

\* Mutant: the qdiscs of an earlier rule are left in place.
WipeNothing(s) ==
    /\ job[s].pc = "wipe"
    /\ Set(s, "root")
    /\ UNCHANGED <<rule, device, tree, link, mu, told, counts, fault>>

\* wipeQdisc: classes and filters go with the root, upload policing stays.  That the
\* command fails is not noticed.
Wipe(s) ==
    /\ job[s].pc = "wipe"
    /\ \/ root' = "none" /\ class' = <<>> /\ leaf' = {} /\ filter' = {} /\ NoFault
       \/ UNCHANGED <<root, class, leaf, filter>> /\ Fault(Device)
    /\ Set(s, "root")
    /\ UNCHANGED <<rule, device, police, link, mu, told, counts>>

\* The request is answered, or the stream of the boot ends.
Unlock(s) == mu' = IF mu = s THEN None ELSE mu
Done(s) ==
    /\ Free(s) /\ Unlock(s)
    /\ applied' = job[s].rule
    /\ UNCHANGED <<reported, asked>>
\* An error: the boot tries again 30 seconds later, once.
Failed(s) ==
    /\ IF job[s].again THEN Set(s, "retry") ELSE Free(s)
    /\ Unlock(s)
    /\ UNCHANGED told

\* applyCAKE, and the first command of the two fq_codel recipes.
Root(s) ==
    /\ job[s].pc = "root"
    /\ \/ /\ root = "none" /\ NoFault
          /\ root' = IF job[s].rule = "cake" THEN "cake" ELSE "htb"
          /\ IF job[s].rule = "cake" THEN Set(s, "verify")
             ELSE job' = [job EXCEPT ![s].pc = "class", ![s].dev = Default]
          /\ UNCHANGED <<mu, told>>
       \/ /\ (root # "none" /\ NoFault) \/ Fault(Device)
          /\ Failed(s) /\ UNCHANGED root
    /\ UNCHANGED <<rule, device, class, leaf, filter, police, link, counts>>

\* The default class has the rate of the whole interface.
RateOf(j) == IF j.dev = Default THEN "global" ELSE j.rule
\* One of the commands of addClientClass, or of the default class, fails: the rest
\* of that class is left out, and the default class ends the recipe.
Skip(p) ==
    CASE p \in Stream /\ job[p].dev = Default -> Failed(p)
      [] p \in Stream /\ job[p].dev # Default ->
            /\ Set(p, "next") /\ reported' = reported \cup {job[p].dev}
            /\ UNCHANGED <<mu, applied, asked>>
      [] p \in Hook -> Free(p) /\ UNCHANGED <<mu, told>>
Refused(p, allowed) ==
    /\ \/ ~allowed /\ NoFault
       \/ Fault(IF job[p].dev = Default THEN Device ELSE {job[p].dev})
    /\ Skip(p)
    /\ UNCHANGED <<rule, device, tree, link, counts>>

ClassAdd(p) ==
    /\ job[p].pc = "class"
    /\ LET id == job[p].dev
           allowed == root = "htb" /\ id \notin DOMAIN class
       IN \/ /\ allowed /\ class' = ClassWith(id, RateOf(job[p]))
             /\ Set(p, "leaf")
             /\ UNCHANGED <<rule, device, root, leaf, filter, police, link, mu, told, counts, fault>>
          \/ Refused(p, allowed)
LeafAdd(p) ==
    /\ job[p].pc = "leaf"
    /\ LET id == job[p].dev
           allowed == id \in DOMAIN class \ leaf
       IN \/ /\ allowed /\ leaf' = leaf \cup {id}
             /\ Set(p, IF id # Default THEN "filter"
                       ELSE IF job[p].rule = "global" THEN "verify" ELSE "snapshot")
             /\ UNCHANGED <<rule, device, root, class, filter, police, link, mu, told, counts, fault>>
          \/ Refused(p, allowed)
\* ... and the upload is policed, once more when it was before.
FilterAdd(p) ==
    /\ job[p].pc = "filter"
    /\ LET m == job[p].dev
           allowed == root = "htb"
       IN \/ /\ allowed /\ filter' = filter \cup {m}
             /\ police' = police \cup {<<m, job[p].rule>>}
             /\ IF p \in Stream THEN Set(p, "next") ELSE Free(p)
             /\ UNCHANGED <<rule, device, root, class, leaf, link, mu, told, counts, fault>>
          \/ Refused(p, allowed)

\* activeSessionMACs; a paused session counts until its old expiry.
Snapshot(s) ==
    /\ job[s].pc = "snapshot"
    /\ \E P \in SUBSET {m \in Device : session[m] = "paused"} :
         job' = [job EXCEPT ![s].pc = "next",
                            ![s].todo = P \cup {m \in Device : session[m] = "active"}]
    /\ UNCHANGED <<rule, device, tree, link, mu, told, counts, fault>>
NextDevice(s) ==
    /\ job[s].pc = "next"
    /\ \/ job[s].todo = {} /\ Set(s, "verify")
       \/ \E m \in job[s].todo : job' = [job EXCEPT ![s].pc = "class", ![s].dev = m,
                                                   ![s].todo = job[s].todo \ {m}]
    /\ UNCHANGED <<rule, device, tree, link, mu, told, counts, fault>>
\* The last command of every recipe, verifyQdisc, only reads.
Verify(s) ==
    /\ job[s].pc = "verify"
    /\ (Done(s) /\ NoFault) \/ (Failed(s) /\ Fault({}))
    /\ UNCHANGED <<rule, device, tree, link, counts>>

-----------------------------------------------------------------------------
\* Sessions and their hooks (EnsurePerDeviceClass)

HookAfter(m, act) ==
    /\ IF Careful THEN ~Busy(m) ELSE job[<<m, act>>] = Idle
    /\ switches < MaxSwitch /\ switches' = switches + 1
    /\ job' = [job EXCEPT ![<<m, act>>].pc = "read"]
    /\ UNCHANGED <<rule, tree, link, mu, told, saves, applies, boots, fault>>

\* Start, AdminCreate, RedeemVoucher and Resume; a top-up calls the hook as well.
SessionStarts(m) ==
    /\ HookAfter(m, "add")
    /\ session' = [session EXCEPT ![m] = "active"]
    /\ UNCHANGED override
\* End, Delete, the expiry; Pause.
SessionStops(m, to) ==
    /\ session[m] # "none" /\ session[m] # to
    /\ HookAfter(m, "remove")
    /\ session' = [session EXCEPT ![m] = to]
    /\ override' = [override EXCEPT ![m] = IF to = "none" THEN None ELSE @]

\* Mutant: a hook leaves the device to an apply that is running.
HookReadYields(h) ==
    /\ job[h].pc = "read"
    /\ IF rule \in Rate /\ ~Applying
       THEN job' = [job EXCEPT ![h].pc = IF h[2] = "add" THEN "class" ELSE "unfilter",
                               ![h].rule = rule, ![h].dev = h[1]]
       ELSE Free(h)
    /\ UNCHANGED <<rule, device, tree, link, mu, told, counts, fault>>
\* Without a rule per device there is nothing to do.
HookRead(h) ==
    /\ job[h].pc = "read"
    /\ IF rule \in Rate
       THEN job' = [job EXCEPT ![h].pc = IF h[2] = "add" THEN "class" ELSE "unfilter",
                               ![h].rule = rule, ![h].dev = h[1]]
       ELSE Free(h)
    /\ UNCHANGED <<rule, device, tree, link, mu, told, counts, fault>>

\* delClientClass: first the filters ...
Unfilter(h) ==
    /\ job[h].pc = "unfilter"
    /\ \/ filter' = filter \ {h[1]} /\ police' = {x \in police : x[1] # h[1]} /\ NoFault
       \/ /\ UNCHANGED filter \/ filter' = filter \ {h[1]}
          /\ UNCHANGED police \/ police' = {x \in police : x[1] # h[1]}
          /\ Fault({h[1]})
    /\ Set(h, "unclass")
    /\ UNCHANGED <<rule, device, root, class, leaf, link, mu, told, counts>>
\* ... then leaf and class; the kernel keeps a class that a filter points to.
Unclass(h) ==
    /\ job[h].pc = "unclass"
    /\ \/ /\ leaf' = leaf \ {h[1]} /\ NoFault
          /\ class' = IF h[1] \in filter THEN class ELSE Restrict(class, DOMAIN class \ {h[1]})
       \/ leaf' \in {leaf, leaf \ {h[1]}} /\ UNCHANGED class /\ Fault({h[1]})
    /\ Free(h)
    /\ UNCHANGED <<rule, device, root, filter, police, link, mu, told, counts>>

-----------------------------------------------------------------------------
\* Boot

\* ApplyQdiscOnBoot takes no mutex.  The retry applies the rule once more.
BootApply ==
    /\ job[Boot].pc \in {"boot", "retry"}
    /\ LET first == job[Boot].pc = "boot"
       IN IF rule = None THEN Free(Boot) /\ UNCHANGED told
          ELSE IF ~link
          THEN /\ IF first THEN Set(Boot, "retry") ELSE Free(Boot)
               /\ UNCHANGED told
          ELSE /\ job' = [job EXCEPT ![Boot] = [Idle EXCEPT !.pc = "wipe", !.rule = rule,
                                                           !.again = first]]
               /\ applied' = None /\ reported' = {} /\ asked' = TRUE
    /\ UNCHANGED <<rule, device, tree, link, mu, counts, fault>>

Stopped ==
    /\ boots < MaxBoot /\ boots' = boots + 1
    /\ job' = [p \in Proc |-> IF p = Boot THEN [Idle EXCEPT !.pc = "boot"] ELSE Idle]
    /\ mu' = None
    /\ applied' = None /\ reported' = {} /\ asked' = FALSE
    /\ UNCHANGED <<rule, device, saves, applies, switches, fault>>
ApiRestart == Stopped /\ UNCHANGED <<tree, link>>
\* The tree is gone, and a VLAN may come up late.
PowerCut ==
    /\ Stopped
    /\ root' = "none" /\ class' = <<>> /\ leaf' = {} /\ filter' = {} /\ police' = {}
    /\ link' \in BOOLEAN
LinkUp ==
    /\ ~link
    /\ link' = TRUE
    /\ UNCHANGED <<rule, device, tree, job, mu, told, counts, fault>>

Init ==
    /\ rule = None /\ session = [m \in Device |-> "none"] /\ override = [m \in Device |-> None]
    /\ root = "none" /\ class = <<>> /\ leaf = {} /\ filter = {} /\ police = {}
    /\ link = TRUE
    /\ job = [p \in Proc |-> Idle] /\ mu = None
    /\ applied = None /\ reported = {} /\ asked = FALSE /\ touched = {}
    /\ saves = 0 /\ applies = 0 /\ switches = 0 /\ faults = 0 /\ boots = 0

Next ==
    \/ \E r \in Global : SaveQdisc(r)
    \/ \E s \in Request : ApplyQdisc(s)
    \/ \E m \in Device, r \in Rate \cup {None} : Shape(m, r)
    \/ \E s \in Stream : Wipe(s) \/ Root(s) \/ Snapshot(s) \/ NextDevice(s) \/ Verify(s)
    \/ \E p \in Proc : ClassAdd(p) \/ LeafAdd(p) \/ FilterAdd(p)
    \/ \E m \in Device : SessionStarts(m) \/ \E to \in {"none", "paused"} : SessionStops(m, to)
    \/ \E h \in Hook : HookRead(h) \/ Unfilter(h) \/ Unclass(h)
    \/ BootApply \/ ApiRestart \/ PowerCut \/ LinkUp

Spec == Init /\ [][Next]_vars

-----------------------------------------------------------------------------
TypeOK ==
    /\ rule \in Global \cup {None} /\ session \in [Device -> {"none", "active", "paused"}]
    /\ override \in [Device -> Rate \cup {None, "cleared"}]
    /\ root \in {"none", "cake", "htb"} /\ link \in BOOLEAN
    /\ DOMAIN class \subseteq Device \cup {Default}
    /\ \A c \in DOMAIN class : class[c] \in IF c = Default THEN {"global"} ELSE Rate
    /\ leaf \subseteq DOMAIN class /\ filter \subseteq Device
    /\ police \subseteq Device \X Rate
    /\ job \in [Proc -> Job] /\ mu \in Request \cup {None}
    /\ applied \in Global \cup {None} /\ reported \subseteq Device /\ touched \subseteq Device

\* Two requests, the boot and the hooks may interleave their commands in any order:
\* an apply that meets no failing command still ends with the saved rule applied by
\* one of them, also after a restart and on an interface that comes up before the retry.
AppliedWhenAsked == Quiet /\ asked /\ faults = 0 => applied = rule

\* Under an applied rule per device every device with a session has its class and a
\* filter that leads to it, and is policed on upload, whatever started, stopped, paused
\* or resumed meanwhile; the class has the rate of the rule or of the session's
\* override, unless the apply reported the device.
EveryDeviceCapped ==
    Quiet /\ applied \in Rate =>
        \A m \in Device \ touched : session[m] = "active" =>
            /\ m \in DOMAIN class \cap filter /\ m \in {x[1] : x \in police}
            /\ class[m] \in {applied, override[m]} \/ m \in reported \/ override[m] = "cleared"
=============================================================================
