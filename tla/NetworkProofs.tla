---------------------------- MODULE NetworkProofs ----------------------------
(***************************************************************************)
(* Proofs about Network, for any number of adapters, VLANs, bridges,       *)
(* addresses, requests, faults and cuts: what the handlers keep when the   *)
(* operator lets one request end before the next one starts (Careful).     *)
(***************************************************************************)
EXTENDS Network, TLAPS

-----------------------------------------------------------------------------
\* Types

\* The functions from part of D to R: a file, or a table, with an entry per name.
Conf(D, R) == UNION {[S -> R] : S \in SUBSET D}
VlanConf == Conf(Vlan, Cidr \cup {Plain})
BridgeConf == Conf(Bridge, SUBSET Iface)
PortalConf == Conf(Iface, Entry)

VlanOps == {"vlan+", "vlan-"}
BridgeOps == {"bridge+", "bridge-", "member+", "member-"}
PortalOps == {"create", "enable", "disable", "delete", "update"}
Pcs == {"idle", "link", "unlink", "row", "read", "write", "teardown", "provision", "mirror"}
Job == [op: {"none"} \cup VlanOps \cup BridgeOps \cup PortalOps, pc: Pcs,
        i: Iface \cup {None}, arg: Iface \cup Cidr \cup {Plain, None},
        want: Entry \cup {NoEntry}, old: Entry \cup {NoEntry},
        snap: VlanConf \cup BridgeConf \cup PortalConf]
\* What a request works on, and what it is about to write.
JobOK(j) ==
    /\ j.op = "none" => j = Idle
    /\ j.op \in VlanOps =>
         j.i \in Vlan /\ j.pc \in {"link", "unlink", "read", "write"} /\ (j.op = "vlan+" => j.arg \in Cidr \cup {Plain})
    /\ j.op \in BridgeOps =>
         j.i \in Bridge /\ j.pc \in {"link", "unlink", "row", "read", "write"}
         /\ (j.op \in {"member+", "member-"} => j.arg \in Iface)
    /\ j.op \in PortalOps =>
         /\ j.i \in Iface /\ j.pc \in {"teardown", "provision", "read", "write", "mirror"}
         /\ j.op = "delete" => ~j.want.on
         /\ j.op # "delete" => j.want \in Entry
         /\ j.op \in {"disable", "delete", "update"} => j.old \in Entry
    /\ j.pc = "write" => /\ j.op \in VlanOps => j.snap \in VlanConf
                         /\ j.op \in BridgeOps => j.snap \in BridgeConf
                         /\ j.op \in PortalOps => j.snap \in PortalConf

HostOK ==
    /\ kernel \subseteq Iface /\ master \in [Iface -> Bridge \cup {None}] /\ stack \in [Iface -> Stack]
    /\ \A i \in Iface : master[i] # None => master[i] \in kernel /\ i \in kernel \ Bridge
FilesOK ==
    /\ vlans \in VlanConf /\ bridges \in BridgeConf /\ rows \in BridgeConf
    /\ portals \in PortalConf /\ promised \in PortalConf
    /\ mirror \subseteq Iface /\ touched \subseteq Iface
JobsOK == job \in [Worker -> Job] /\ \A w \in Worker : JobOK(job[w])
LifeOK ==
    /\ api \in {"boot", "up"} /\ script \in BOOLEAN
    /\ used \in 0 .. MaxRequests /\ faults \in 0 .. MaxFaults /\ cuts \in 0 .. MaxCuts
TypeInv == HostOK /\ FilesOK /\ JobsOK /\ LifeOK

-----------------------------------------------------------------------------
\* One request at a time

OneRequest ==
    /\ \A v, w \in Worker : job[v] # Idle /\ job[w] # Idle => v = w
    /\ (\E w \in Worker : job[w] # Idle) => api = "up" /\ ~script

-----------------------------------------------------------------------------
\* Settings

LegacyEntry(v) == [cidr |-> vlans[v], on |-> TRUE, anti |-> FALSE]
\* portals.conf holds what was promised of i, or the old format has it until the
\* first start of the API.
Kept(i) ==
    \/ i \in DOMAIN portals /\ portals[i] = promised[i]
    \/ i \in Legacy(vlans) \ DOMAIN portals /\ promised[i] = LegacyEntry(i) /\ api = "boot"
\* What the request has written, or is about to.
SettingsJob(w) ==
    LET j == job[w]
    IN j.op \in PortalOps =>
         /\ j.op = "delete" => j.i \notin DOMAIN promised
         /\ j.pc = "write" => j.snap = Entries(portals, j)
         /\ j.pc = "mirror" => IF j.op = "delete" THEN j.i \notin DOMAIN portals
                              ELSE j.i \in DOMAIN portals /\ portals[j.i] = j.want
SettingsInv ==
    /\ \A i \in DOMAIN promised :
         Kept(i) \/ \E w \in Worker : job[w].op \in PortalOps /\ job[w].pc = "mirror" /\ job[w].i = i
    /\ \A w \in Worker : SettingsJob(w)

-----------------------------------------------------------------------------
\* VLANs, bridges and their members

\* The saved members, and the rows, of a bridge.
Saved(b) == IF b \in DOMAIN bridges THEN bridges[b] ELSE {}
Rowed(b) == IF b \in DOMAIN rows THEN rows[b] ELSE {}
\* A membership, or an interface, whose request is between kernel and files.
MemberJob(i, b) ==
    \E w \in Worker : /\ job[w].op \in {"member+", "member-"} /\ job[w].pc \in {"row", "read", "write"}
                      /\ job[w].i = b /\ job[w].arg = i
VlanJob(v) == \E w \in Worker : job[w].op \in VlanOps /\ job[w].pc \in {"read", "write"} /\ job[w].i = v
BridgeJob(b) ==
    \E w \in Worker : /\ job[w].op \in {"bridge+", "bridge-"} /\ job[w].pc \in {"row", "read", "write"}
                      /\ job[w].i = b
\* Kernel, file and database agree on VLANs, bridges and members nothing went wrong on.
VlanAgrees(v) == v \in DOMAIN vlans <=> v \in kernel
BridgeAgrees(b) ==
    /\ b \in DOMAIN bridges <=> b \in DOMAIN rows
    /\ ~script => (b \in DOMAIN bridges <=> b \in kernel)
MemberAgrees(i, b) == i \in Saved(b) <=> master[i] = b
RowAgrees(i, b) == i \in Rowed(b) <=> i \in Saved(b)
NicsInv == Nic \subseteq kernel \cup touched
BareInv == script => kernel \subseteq Nic /\ \A i \in Iface : master[i] = None
VlansInv == ~script => \A v \in Vlan \ touched : VlanAgrees(v) \/ VlanJob(v)
BridgesInv == \A b \in Bridge \ touched : BridgeAgrees(b) \/ BridgeJob(b)
MastersInv == ~script => \A i \in Iface \ touched, b \in Bridge : MemberAgrees(i, b) \/ MemberJob(i, b)
RowsInv == \A i \in Iface \ touched, b \in Bridge \ touched : RowAgrees(i, b) \/ MemberJob(i, b)
\* Members that are saved can be enslaved again, and by one bridge only.
OwnersInv ==
    \A i \in Iface \ touched, b \in Bridge :
      i \in Saved(b) => i \in Nic \cup DOMAIN vlans /\ \A c \in Bridge : i \in Saved(c) => c = b
\* An interface with a portal is no member.
FreeInv ==
    \A i \in (DOMAIN portals \cup Legacy(vlans)) \ touched :
      master[i] = None /\ \A b \in Bridge : i \notin Saved(b)
\* The old format is gone once the API has started.
LegacyInv == Legacy(vlans) # {} => api = "boot" /\ DOMAIN portals = {}
\* What a request w on interface i, with argument m, has done by now and will write.
VlanMade(w, i, m) ==
    /\ m = Plain
    /\ job[w].pc \in {"read", "write"} /\ i \notin touched => i \in kernel
    /\ job[w].pc = "write" => Legacy(job[w].snap) = {} /\ DOMAIN job[w].snap = DOMAIN vlans \cup {i}
VlanGone(w, i) ==
    /\ i \notin touched => i \notin DOMAIN portals /\ \A b \in Bridge : i \notin Saved(b)
    /\ job[w].pc \in {"read", "write"} /\ i \notin touched => i \notin kernel
    /\ job[w].pc = "write" => Legacy(job[w].snap) = {} /\ DOMAIN job[w].snap = DOMAIN vlans \ {i}
BridgeMade(w, i) ==
    /\ Members(i) = {}
    /\ job[w].pc \in {"row", "read", "write"} /\ i \notin touched => i \in kernel /\ i \notin DOMAIN bridges
    /\ job[w].pc \in {"read", "write"} /\ i \notin touched => i \in DOMAIN rows
    /\ job[w].pc = "write" => job[w].snap = With(bridges, i, {})
BridgeGone(w, i) ==
    /\ Members(i) = {} /\ i \notin DOMAIN portals
    /\ job[w].pc \in {"row", "read", "write"} /\ i \notin touched => i \notin kernel
    /\ job[w].pc = "row" => i \notin DOMAIN bridges
    /\ job[w].pc = "write" => job[w].snap = Without(bridges, i)
MemberMoved(w, i, m) ==
    /\ i \notin touched => i \in kernel
    /\ m \notin touched /\ job[w].op = "member+" => m \notin DOMAIN portals
    /\ m \notin touched => master[m] \in {i, None}
    /\ job[w].pc \in {"row", "read", "write"} /\ m \notin touched =>
         master[m] = IF job[w].op = "member+" THEN i ELSE None
    /\ job[w].pc \in {"read", "write"} /\ i \notin touched /\ m \notin touched =>
         (m \in Rowed(i) <=> job[w].op = "member+")
    /\ job[w].pc = "write" =>
         /\ job[w].snap = With(bridges, i, job[w].snap[i]) /\ job[w].snap[i] \subseteq Iface
         /\ \A k \in Iface \ touched : k \in job[w].snap[i] <=> master[k] = i
PortalAlone(i) == i \notin touched => master[i] = None /\ \A b \in Bridge : i \notin Saved(b)
LinksJob(w) ==
    \A i \in {job[w].i}, m \in {job[w].arg} :
      /\ job[w].op = "vlan+" => VlanMade(w, i, m)
      /\ job[w].op = "vlan-" => VlanGone(w, i)
      /\ job[w].op = "bridge+" => BridgeMade(w, i)
      /\ job[w].op = "bridge-" => BridgeGone(w, i)
      /\ job[w].op \in {"member+", "member-"} => MemberMoved(w, i, m)
      /\ job[w].op \in PortalOps /\ job[w].op # "delete" => PortalAlone(i)
LinkJobsInv == \A w \in Worker : LinksJob(w)
NetInv ==
    /\ NicsInv /\ BareInv /\ VlansInv /\ BridgesInv /\ MastersInv /\ RowsInv
    /\ OwnersInv /\ FreeInv /\ LegacyInv /\ LinkJobsInv

-----------------------------------------------------------------------------
\* The stack of a portal

\* The entries there are, or will be once the API has started.
Final == Migrated(portals, Legacy(vlans))
\* Nothing of a portal is on the stack, but for the TTL, or all of it.
Blank(s) == s.ip = None /\ s.file = None /\ s.conf = None /\ ~s.run /\ ~s.captive
Whole(s, e) == s.ip = e.cidr /\ s.file = e.cidr /\ s.conf = e.cidr /\ s.run /\ s.captive /\ (e.anti => s.ttl)
Plainly(i) == Blank(stack[i])
\* What is kept of an enabled portal while the device is down, so that script and API
\* serve it again in whatever order they run.
Ready(i, e) ==
    /\ stack[i].file \in {None, e.cidr} /\ stack[i].conf = e.cidr
    /\ i \in kernel \/ (script /\ i \in DOMAIN vlans \cup DOMAIN bridges)
    /\ api = "up" /\ e.anti => stack[i].ttl
    /\ api = "up" /\ i \in kernel => Serving(i, e)
Fits(i) == IF i \in Enabled(Final) THEN Ready(i, Final[i]) ELSE Plainly(i)
\* ... and while the API is up and the script has run, all of it.
Served(i) == IF i \in Enabled(portals) THEN Serving(i, portals[i]) ELSE Plainly(i)
PortalJob(i) ==
    \E w \in Worker : /\ job[w].op \in PortalOps /\ job[w].i = i
                      /\ job[w].pc \in {"provision", "read", "write", "mirror"}
\* What request w has done by now to the stack of i, where it wants e instead of old.
PortalStage(w, i, e, old) ==
    /\ job[w].op = "disable" => ~e.on
    /\ job[w].op = "update" /\ job[w].pc \in {"teardown", "provision"} =>
         i \in DOMAIN portals /\ portals[i] = old /\ e.on = old.on
    /\ job[w].pc = "provision" => e.on /\ IF job[w].op = "update" THEN Plainly(i) /\ i \in kernel ELSE Served(i)
    /\ job[w].pc \in {"read", "write", "mirror"} => IF e.on THEN Serving(i, e) ELSE Plainly(i)
StackJob(w) ==
    \A i \in {job[w].i}, e \in {job[w].want}, old \in {job[w].old} :
      job[w].op \in PortalOps /\ i \notin touched => PortalStage(w, i, e, old)
StackInv ==
    /\ \A i \in Iface \ touched : Fits(i) \/ PortalJob(i)
    /\ \A w \in Worker : StackJob(w)

-----------------------------------------------------------------------------
\* Files and tables

\* What reading and changing one entry of a file does.
LEMMA ConfIs ==
    ASSUME NEW D, NEW R, NEW f \in Conf(D, R)
    PROVE  /\ DOMAIN f \in SUBSET D /\ f \in [DOMAIN f -> R]
           /\ \A x \in DOMAIN f : f[x] \in R
<1>1. PICK S \in SUBSET D : f \in [S -> R]
    BY DEF Conf
<1>2. DOMAIN f = S
    BY <1>1
<1>3. QED
    BY <1>1, <1>2

\* A function from part of D to R is a file.
LEMMA ToConf ==
    ASSUME NEW D, NEW R, NEW S \in SUBSET D, NEW f \in [S -> R]
    PROVE  f \in Conf(D, R)
    BY DEF Conf

\* The empty file.
LEMMA EmptyConf ==
    ASSUME NEW D, NEW R
    PROVE  <<>> \in Conf(D, R)
<1>1. <<>> \in [{} -> R]
    OBVIOUS
<1>2. QED
    BY <1>1, ToConf

\* A line is written, and the others stay.
LEMMA WithIs ==
    ASSUME NEW f, NEW x, NEW y
    PROVE  /\ \A z : z \in DOMAIN With(f, x, y) <=> z \in DOMAIN f \/ z = x
           /\ With(f, x, y)[x] = y
           /\ \A z \in DOMAIN f : z # x => With(f, x, y)[z] = f[z]
    BY DEF With

\* A file stays a file when a line is written.
LEMMA WithConf ==
    ASSUME NEW D, NEW R, NEW f \in Conf(D, R), NEW x \in D, NEW y \in R
    PROVE  With(f, x, y) \in Conf(D, R)
<1>1. DOMAIN f \in SUBSET D /\ \A z \in DOMAIN f : f[z] \in R
    BY ConfIs
<1>2. With(f, x, y) \in [DOMAIN f \cup {x} -> R]
    BY <1>1 DEF With
<1>3. DOMAIN f \cup {x} \in SUBSET D
    BY <1>1
<1>4. QED
    BY <1>2, <1>3, ToConf

\* A file stays a file when lines are dropped, and keeps the others.
LEMMA RestrictConf ==
    ASSUME NEW D, NEW R, NEW f \in Conf(D, R), NEW S \in SUBSET DOMAIN f
    PROVE  /\ Restrict(f, S) \in Conf(D, R) /\ DOMAIN Restrict(f, S) = S
           /\ \A z \in S : Restrict(f, S)[z] = f[z]
<1>1. DOMAIN f \in SUBSET D /\ \A z \in DOMAIN f : f[z] \in R
    BY ConfIs
<1>2. Restrict(f, S) \in [S -> R]
    BY <1>1 DEF Restrict
<1>3. S \in SUBSET D
    BY <1>1
<1>4. QED
    BY <1>2, <1>3, ToConf DEF Restrict

\* A file stays a file when one line is dropped, and keeps the others.
LEMMA WithoutConf ==
    ASSUME NEW D, NEW R, NEW f \in Conf(D, R), NEW x
    PROVE  /\ Without(f, x) \in Conf(D, R) /\ DOMAIN Without(f, x) = DOMAIN f \ {x}
           /\ \A z \in DOMAIN f : z # x => Without(f, x)[z] = f[z]
<1>1. DOMAIN f \ {x} \in SUBSET DOMAIN f
    OBVIOUS
<1>2. QED
    BY <1>1, RestrictConf DEF Without

\* The old format is gone from a file that has been rewritten.
LEMMA RewrittenConf ==
    ASSUME NEW f \in VlanConf
    PROVE  Rewritten(f) \in VlanConf /\ DOMAIN Rewritten(f) = DOMAIN f /\ Legacy(Rewritten(f)) = {}
<1>1. DOMAIN f \in SUBSET Vlan /\ \A z \in DOMAIN f : f[z] \in Cidr \cup {Plain}
    BY ConfIs DEF VlanConf
<1>2. Rewritten(f) \in [DOMAIN f -> Cidr \cup {Plain}] /\ DOMAIN Rewritten(f) = DOMAIN f
    BY <1>1 DEF Rewritten
<1>3. \A z \in DOMAIN f : Rewritten(f)[z] = Plain
    BY <1>1 DEF Rewritten, Legacy
<1>4. QED
    BY <1>1, <1>2, <1>3, ToConf, NetAssumption DEF VlanConf, Legacy

\* The old format becomes entries, and entries stay.
LEMMA MigratedConf ==
    ASSUME FilesOK
    PROVE  /\ Final \in PortalConf /\ DOMAIN Final = DOMAIN portals \cup Legacy(vlans)
           /\ \A i \in DOMAIN portals : Final[i] = portals[i]
           /\ \A i \in Legacy(vlans) \ DOMAIN portals : Final[i] = LegacyEntry(i)
           /\ Legacy(vlans) \subseteq Vlan
<1> DEFINE L == Legacy(vlans)
<1>1. DOMAIN portals \in SUBSET Iface /\ \A z \in DOMAIN portals : portals[z] \in Entry
    BY ConfIs DEF FilesOK, PortalConf
<1>2. L \subseteq Vlan /\ \A v \in L : vlans[v] \in Cidr
    BY ConfIs DEF FilesOK, VlanConf, Legacy
<1>3. \A v \in L : LegacyEntry(v) \in Entry
    BY <1>2 DEF LegacyEntry, Entry
<1> HIDE DEF L
<1>4. Final = [i \in DOMAIN portals \cup L |-> IF i \in DOMAIN portals THEN portals[i] ELSE LegacyEntry(i)]
    BY DEF Final, Migrated, LegacyEntry, L
<1>5. Final \in [DOMAIN portals \cup L -> Entry]
    BY <1>1, <1>3, <1>4
<1>6. DOMAIN portals \cup L \in SUBSET Iface
    BY <1>1, <1>2 DEF Iface
<1>7. Final \in PortalConf
    BY <1>5, <1>6, ToConf DEF PortalConf
<1>8. QED
    BY <1>2, <1>4, <1>7 DEF L

-----------------------------------------------------------------------------
\* Types: the host

\* What the sets of interfaces have in common.
LEMMA Sets ==
    /\ Nic \subseteq Iface /\ Vlan \subseteq Iface /\ Bridge \subseteq Iface /\ Iface = Nic \cup Vlan \cup Bridge
    /\ None \notin Iface /\ None \notin Cidr /\ Plain \notin Cidr
    /\ Nic \cap Vlan = {} /\ Nic \cap Bridge = {} /\ Vlan \cap Bridge = {}
    BY NetAssumption DEF Iface

\* Every step of the portal handlers leaves a stack.
LEMMA Stacks ==
    ASSUME NEW s \in Stack, NEW e \in Entry
    PROVE  /\ Provisioned(s, e) \in Stack /\ HalfProvisioned(s, e) \subseteq Stack
           /\ TornDown(s, e) \in Stack
           /\ Healed(s, e) \in Stack /\ HalfHealed(s, e) \subseteq Stack
<1> USE DEF Stack, Entry, Captured, Released, Leasing
<1>1. Provisioned(s, e) \in Stack
    BY DEF Provisioned
<1>2. TornDown(s, e) \in Stack
    BY DEF TornDown
<1>3. Healed(s, e) \in Stack
    BY DEF Healed
<1>4. HalfProvisioned(s, e) \subseteq Stack
    BY <1>1 DEF HalfProvisioned
<1>5. HalfHealed(s, e) \subseteq Stack
    BY <1>3 DEF HalfHealed
<1>6. QED
    BY <1>1, <1>2, <1>3, <1>4, <1>5

\* Interfaces that appear get the address of their file; the others keep theirs.
LEMMA AppearedIs ==
    ASSUME HostOK, NEW S
    PROVE  /\ Appeared(S) \in [Iface -> Stack]
           /\ \A i \in Iface : Appeared(S)[i] = IF i \in S THEN [stack[i] EXCEPT !.ip = stack[i].file] ELSE stack[i]
    BY DEF HostOK, Appeared, Stack

\* An interface that goes takes its address and its memberships with it.
LEMMA VanishIs ==
    ASSUME HostOK, NEW i \in Iface, Vanish(i)
    PROVE  /\ HostOK' /\ kernel' = kernel \ {i}
           /\ \A j \in Iface : master'[j] = IF j = i \/ master[j] = i THEN None ELSE master[j]
           /\ \A j \in Iface \ {i} : stack'[j] = stack[j]
           /\ stack'[i] = [stack[i] EXCEPT !.ip = None]
<1>1. stack' = [stack EXCEPT ![i].ip = None] /\ stack[i] \in Stack
    BY DEF Vanish, HostOK
<1>2. [stack[i] EXCEPT !.ip = None] \in Stack
    BY <1>1 DEF Stack
<1>3. /\ stack' \in [Iface -> Stack] /\ stack'[i] = [stack[i] EXCEPT !.ip = None]
      /\ \A j \in Iface \ {i} : stack'[j] = stack[j]
    BY <1>1, <1>2 DEF HostOK
<1>4. \A j \in Iface : master'[j] = IF j = i \/ master[j] = i THEN None ELSE master[j]
    BY DEF Vanish
<1>5. master' \in [Iface -> Bridge \cup {None}]
    BY DEF Vanish, HostOK
<1>6. kernel' = kernel \ {i} /\ kernel' \subseteq Iface
    BY DEF Vanish, HostOK
<1>7. \A j \in Iface : master'[j] # None => master'[j] \in kernel' /\ j \in kernel' \ Bridge
    BY <1>4, <1>6 DEF HostOK
<1>8. QED
    BY <1>3, <1>4, <1>5, <1>6, <1>7 DEF HostOK

\* A step that leaves the host alone keeps its types.
LEMMA SameHost ==
    ASSUME HostOK, UNCHANGED hostVars
    PROVE  HostOK'
    BY DEF HostOK, hostVars

\* Interfaces appear.
LEMMA MoreHost ==
    ASSUME HostOK, NEW S \in SUBSET Iface, NEW U, kernel' = kernel \cup S, stack' = Appeared(U), master' = master
    PROVE  HostOK'
    BY AppearedIs DEF HostOK

\* The stack of one interface changes.
LEMMA OneStack ==
    ASSUME HostOK, NEW i \in Iface, NEW s \in Stack, stack' = [stack EXCEPT ![i] = s],
           kernel' = kernel, master' = master
    PROVE  /\ HostOK' /\ stack'[i] = s /\ \A j \in Iface \ {i} : stack'[j] = stack[j]
    BY DEF HostOK

\* A healing listing heals the enabled portals whose interface exists.
LEMMA HealAllIs ==
    ASSUME HostOK, NEW P \in PortalConf
    PROVE  /\ HealAll(P) \in [Iface -> Stack] /\ ToHeal(P) \subseteq Iface
           /\ \A i \in ToHeal(P) : HealAll(P)[i] = Healed(stack[i], P[i]) /\ P[i] \in Entry
           /\ \A i \in Iface \ ToHeal(P) : HealAll(P)[i] = stack[i]
<1>1. DOMAIN P \subseteq Iface /\ \A i \in DOMAIN P : P[i] \in Entry
    BY ConfIs DEF PortalConf
<1>2. ToHeal(P) \subseteq Iface /\ \A i \in ToHeal(P) : P[i] \in Entry
    BY <1>1 DEF ToHeal, Enabled
<1>3. \A i \in ToHeal(P) : Healed(stack[i], P[i]) \in Stack
    BY <1>2, Stacks DEF HostOK
<1>4. QED
    BY <1>2, <1>3 DEF HealAll, HostOK

\* A listing of the bridges: what is taken back, and what is added.
Taken(back, stay) ==
    [i \in Iface |-> IF i \in kernel \ (Bridge \cup stay) /\ Reclaims(back, i) # {}
                     THEN CHOOSE b \in Reclaims(back, i) : TRUE ELSE master[i]]
Added(back, stay) ==
    IF Br0 \in kernel \cup back THEN {n \in Nic \ stay : Free(n, Taken(back, stay))} ELSE {}

\* What a listing of bridges does to kernel and stacks.
LEMMA ListedKernel ==
    ASSUME NEW back, NEW stay, Listed(back, stay)
    PROVE  kernel' = kernel \cup back /\ stack' = Appeared(back)
    BY DEF Listed

\* Free adapters are added to Br0: existing ones without master and portal.
LEMMA AddedIs ==
    ASSUME NEW back, NEW stay
    PROVE  /\ Added(back, stay) \subseteq Nic \cap kernel
           /\ Added(back, stay) # {} => Br0 \in kernel \cup back
           /\ \A i \in Added(back, stay) :
                Taken(back, stay)[i] = None /\ i \notin DOMAIN portals
    BY DEF Added, Free, PortalAttached

\* A member is enslaved again by a bridge that is back and lists it, or stays.
LEMMA TakenIs ==
    ASSUME NEW back \in SUBSET Bridge, NEW stay, NEW i \in Iface
    PROVE  \/ Taken(back, stay)[i] = master[i]
           \/ /\ i \in kernel \ (Bridge \cup stay)
              /\ Taken(back, stay)[i] \in back /\ i \in bridges[Taken(back, stay)[i]]
<1>1. CASE i \in kernel \ (Bridge \cup stay) /\ Reclaims(back, i) # {}
    <2>1. Taken(back, stay)[i] = CHOOSE b \in Reclaims(back, i) : TRUE
        BY <1>1 DEF Taken
    <2>2. Taken(back, stay)[i] \in Reclaims(back, i)
        BY <1>1, <2>1
    <2>3. QED
        BY <1>1, <2>2 DEF Reclaims
<1>2. CASE ~(i \in kernel \ (Bridge \cup stay) /\ Reclaims(back, i) # {})
    BY <1>2 DEF Taken
<1>3. QED
    BY <1>1, <1>2

\* The masters after a listing of bridges.
LEMMA ListedMaster ==
    ASSUME NEW back, NEW stay, Listed(back, stay)
    PROVE  master' = [i \in Iface |-> IF i \in Added(back, stay) THEN Br0 ELSE Taken(back, stay)[i]]
    BY DEF Listed, Taken, Added

\* Rows and file after a listing of bridges.
LEMMA ListedFiles ==
    ASSUME NEW back, NEW stay, Listed(back, stay)
    PROVE  /\ rows' = IF Br0 \in DOMAIN rows THEN [rows EXCEPT ![Br0] = @ \cup Added(back, stay)] ELSE rows
           /\ bridges' = IF Added(back, stay) = {} THEN bridges
                         ELSE With(bridges, Br0, {i \in Iface : master'[i] = Br0})
    BY DEF Listed, Taken, Added

\* A listing of bridges keeps the types of the host.
LEMMA ListedHost ==
    ASSUME HostOK, NEW back \in SUBSET Bridge, NEW stay, Listed(back, stay)
    PROVE  HostOK'
<1>1. kernel' = kernel \cup back /\ stack' = Appeared(back)
    BY ListedKernel
<1>2. stack' \in [Iface -> Stack] /\ kernel' \subseteq Iface
    BY <1>1, AppearedIs, Sets DEF HostOK
<1>3. \A i \in Iface : master'[i] = IF i \in Added(back, stay) THEN Br0 ELSE Taken(back, stay)[i]
    BY ListedMaster
<1>4. ASSUME NEW i \in Iface, master'[i] # None
      PROVE  master'[i] \in kernel' /\ i \in kernel' \ Bridge /\ master'[i] \in Bridge
    <2>1. CASE i \in Added(back, stay)
        <3>1. i \in Nic \cap kernel /\ Br0 \in kernel \cup back /\ master'[i] = Br0
            BY <2>1, <1>3, AddedIs
        <3>2. QED
            BY <1>1, <3>1, NetAssumption
    <2>2. CASE i \notin Added(back, stay)
        <3>1. \/ master'[i] = master[i]
              \/ i \in kernel \ Bridge /\ master'[i] \in back
            BY <1>3, <2>2, TakenIs
        <3>2. QED
            BY <1>1, <1>4, <3>1 DEF HostOK
    <2>3. QED
        BY <2>1, <2>2
<1>5. master' \in [Iface -> Bridge \cup {None}]
    BY <1>4, ListedMaster
<1>6. QED
    BY <1>2, <1>4, <1>5 DEF HostOK

\* The script: whom it enslaves, and what it does to a stack.
LEMMA ScriptMasterIs ==
    ASSUME HostOK, FilesOK, NEW V \in SUBSET DOMAIN vlans
    PROVE  /\ ScriptMaster(V) \in [Iface -> Bridge \cup {None}]
           /\ ScriptLinks(V) = kernel \cup V \cup DOMAIN bridges /\ ScriptLinks(V) \subseteq Iface
           /\ \A i \in Iface :
                IF i \in ScriptLinks(V) \ Bridge /\ master[i] = None /\ \E b \in DOMAIN bridges : i \in bridges[b]
                THEN ScriptMaster(V)[i] \in DOMAIN bridges /\ i \in bridges[ScriptMaster(V)[i]]
                ELSE ScriptMaster(V)[i] = master[i]
<1>1. DOMAIN bridges \subseteq Bridge /\ DOMAIN vlans \subseteq Vlan
    BY ConfIs DEF FilesOK, BridgeConf, VlanConf
<1> DEFINE by(i) == {b \in DOMAIN bridges : i \in bridges[b]}
<1>2. ASSUME NEW i \in Iface
      PROVE  /\ IF i \in ScriptLinks(V) \ Bridge /\ master[i] = None /\ by(i) # {}
                THEN ScriptMaster(V)[i] \in by(i) ELSE ScriptMaster(V)[i] = master[i]
             /\ ScriptMaster(V)[i] \in Bridge \cup {None}
    <2>1. ScriptMaster(V)[i] = IF i \in ScriptLinks(V) \ Bridge /\ master[i] = None /\ by(i) # {}
                              THEN CHOOSE b \in by(i) : TRUE ELSE master[i]
        BY DEF ScriptMaster
    <2>2. by(i) # {} => (CHOOSE b \in by(i) : TRUE) \in by(i)
        OBVIOUS
    <2>3. by(i) \subseteq Bridge /\ master[i] \in Bridge \cup {None}
        BY <1>1 DEF HostOK
    <2> HIDE DEF by
    <2>4. QED
        BY <2>1, <2>2, <2>3
<1>3. ScriptMaster(V) = [i \in Iface |-> ScriptMaster(V)[i]]
    BY DEF ScriptMaster
<1>4. ScriptLinks(V) \subseteq Iface /\ ScriptLinks(V) = kernel \cup V \cup DOMAIN bridges
    BY <1>1, Sets DEF ScriptLinks, HostOK
<1>5. \A i \in Iface : by(i) # {} <=> \E b \in DOMAIN bridges : i \in bridges[b]
    OBVIOUS
<1>6. \A i \in Iface : ScriptMaster(V)[i] \in by(i) =>
          ScriptMaster(V)[i] \in DOMAIN bridges /\ i \in bridges[ScriptMaster(V)[i]]
    OBVIOUS
<1> HIDE DEF by
<1>7. QED
    BY <1>2, <1>3, <1>4, <1>5, <1>6

\* The stack of an interface before the script serves portals.
ScriptBare(V, i) ==
    LET s == IF i \in (ScriptLinks(V) \ kernel) THEN [stack[i] EXCEPT !.ip = stack[i].file] ELSE stack[i]
    IN IF i \in ScriptMembers THEN [s EXCEPT !.file = None] ELSE s

\* The script leaves a stack.
LEMMA ScriptPortalType ==
    ASSUME NEW s \in Stack, NEW c \in Cidr, NEW known \in BOOLEAN
    PROVE  ScriptPortal(s, c, known) \in Stack
    BY DEF ScriptPortal, Stack

\* The stacks after the script: portals are served, the rest is bare of them.
LEMMA ScriptStackIs ==
    ASSUME HostOK, FilesOK, NEW V \in SUBSET DOMAIN vlans
    PROVE  /\ ScriptStack(V) \in [Iface -> Stack]
           /\ \A i \in Iface :
                /\ ScriptBare(V, i) \in Stack
                /\ i \in ScriptLinks(V) /\ i \in Enabled(portals) =>
                     ScriptStack(V)[i] = ScriptPortal(ScriptBare(V, i), portals[i].cidr, TRUE)
                /\ i \in ScriptLinks(V) /\ DOMAIN portals = {} /\ i \in Legacy(vlans) =>
                     ScriptStack(V)[i] = ScriptPortal(ScriptBare(V, i), vlans[i], FALSE)
                /\ i \notin Enabled(portals) /\ ~(DOMAIN portals = {} /\ i \in Legacy(vlans)) =>
                     ScriptStack(V)[i] = ScriptBare(V, i)
<1>0. \A i \in DOMAIN portals : portals[i] \in Entry
    BY ConfIs DEF FilesOK, PortalConf
<1>1. \A i \in Enabled(portals) : portals[i].cidr \in Cidr /\ i \in DOMAIN portals
    BY <1>0 DEF Enabled, Entry
<1>2. \A i \in Legacy(vlans) : vlans[i] \in Cidr
    BY DEF Legacy
<1>3. ASSUME NEW i \in Iface
      PROVE  ScriptBare(V, i) \in Stack
    <2>1. stack[i] \in Stack
        BY DEF HostOK
    <2>2. QED
        BY <2>1 DEF ScriptBare, Stack
<1>4. \A i \in Iface : ScriptStack(V)[i] =
          IF i \in ScriptLinks(V) /\ i \in Enabled(portals)
          THEN ScriptPortal(ScriptBare(V, i), portals[i].cidr, TRUE)
          ELSE IF i \in ScriptLinks(V) /\ DOMAIN portals = {} /\ i \in Legacy(vlans)
          THEN ScriptPortal(ScriptBare(V, i), vlans[i], FALSE)
          ELSE ScriptBare(V, i)
    BY DEF ScriptStack, ScriptBare
<1>5. \A i \in Iface : ScriptStack(V)[i] \in Stack
    BY <1>1, <1>2, <1>3, <1>4, ScriptPortalType
<1>6. ScriptStack(V) = [i \in Iface |-> ScriptStack(V)[i]]
    BY DEF ScriptStack
<1>7. ScriptStack(V) \in [Iface -> Stack]
    BY <1>5, <1>6
<1>8. \A i \in Enabled(portals) : DOMAIN portals # {}
    BY <1>1
<1>9. QED
    BY <1>3, <1>4, <1>7, <1>8

\* A TTL that is applied leaves a stack.
LEMMA WithTtlIs ==
    ASSUME NEW S \in [Iface -> Stack], NEW P \in PortalConf
    PROVE  [i \in Iface |-> [S[i] EXCEPT !.ttl = @ \/ (i \in DOMAIN P /\ P[i].anti)]] \in [Iface -> Stack]
<1>0. \A i \in DOMAIN P : P[i] \in Entry
    BY ConfIs DEF PortalConf
<1>1. \A i \in DOMAIN P : P[i].anti \in BOOLEAN
    BY <1>0 DEF Entry
<1>2. ASSUME NEW i \in Iface
      PROVE  [S[i] EXCEPT !.ttl = @ \/ (i \in DOMAIN P /\ P[i].anti)] \in Stack
    <2>1. S[i] \in Stack
        OBVIOUS
    <2>2. QED
        BY <1>1, <2>1 DEF Stack
<1>3. QED
    BY <1>2

\* What a request of each kind works on.
LEMMA JobIs ==
    ASSUME JobsOK, NEW w \in Worker
    PROVE  /\ job[w].op \in VlanOps => job[w].i \in Vlan
           /\ job[w].op \in BridgeOps => job[w].i \in Bridge
           /\ job[w].op \in {"member+", "member-"} => job[w].arg \in Iface
           /\ job[w].op \in PortalOps => job[w].i \in Iface
           /\ job[w].op \in {"create", "enable", "disable", "update"} => job[w].want \in Entry
           /\ job[w].op \in {"disable", "delete", "update"} => job[w].old \in Entry
           /\ job[w].op = "delete" => ~job[w].want.on
           /\ job[w].pc = "write" => /\ job[w].op \in VlanOps => job[w].snap \in VlanConf
                                     /\ job[w].op \in BridgeOps => job[w].snap \in BridgeConf
                                     /\ job[w].op \in PortalOps => job[w].snap \in PortalConf
           /\ job[w] \in Job
    BY DEF JobsOK, JobOK, VlanOps, BridgeOps, PortalOps

\* Every step keeps the types of the host.
LEMMA HostKept ==
    ASSUME HostOK, FilesOK, JobsOK, [Next]_vars
    PROVE  HostOK'
<1> USE DEF VlanOps, BridgeOps, PortalOps
<1>1. ASSUME NEW w \in Worker,
             \/ \E v \in Vlan, t \in Cidr \cup {Plain} : VLANCreate(w, v, t)
             \/ \E v \in Vlan : VLANDelete(w, v)
             \/ \E b \in Bridge : BridgeCreate(w, b)
             \/ \E b \in Bridge : BridgeDelete(w, b)
             \/ \E b \in Bridge, m \in Iface : BridgeAddMember(w, b, m)
             \/ \E b \in Bridge, m \in Iface : BridgeRemoveMember(w, b, m)
             \/ \E i \in Iface, c \in Cidr, anti \in BOOLEAN : PortalCreate(w, i, c, anti)
             \/ \E i \in Iface, c \in Cidr, anti \in BOOLEAN : PortalUpdate(w, i, c, anti)
             \/ \E i \in Iface : PortalEnable(w, i)
             \/ \E i \in Iface : PortalDisable(w, i)
             \/ \E i \in Iface : PortalDelete(w, i)
      PROVE  HostOK'
    <2>1. UNCHANGED hostVars
        BY <1>1 DEF Begin, VLANCreate, VLANDelete, BridgeCreate, BridgeDelete, BridgeAddMember, BridgeRemoveMember, PortalCreate, PortalUpdate, PortalEnable, PortalDisable, PortalDelete
    <2>2. QED
        BY <2>1, SameHost
<1>2. ASSUME NEW w \in Worker,
             \/ VLANRead(w) \/ VLANWrite(w) \/ BridgeRow(w) \/ BridgeRead(w)
             \/ BridgeWrite(w) \/ PortalRead(w) \/ PortalWrite(w) \/ PortalMirror(w)
      PROVE  HostOK'
    <2>1. UNCHANGED hostVars
        BY <1>2 DEF Begin, VLANRead, VLANWrite, BridgeRow, BridgeRead, BridgeWrite, PortalRead, PortalWrite, PortalMirror
    <2>2. QED
        BY <2>1, SameHost
<1>3. CASE ApiCrash
    BY <1>3, SameHost DEF ApiCrash
<1>4. CASE UNCHANGED vars
    BY <1>4, SameHost DEF vars
<1>5. ASSUME NEW w \in Worker,
             VLANLink(w)
      PROVE  HostOK'
    <2> DEFINE v == job[w].i
    <2>1. v \in Vlan /\ v \in Iface
        BY <1>5, JobIs, Sets DEF VLANLink, At
    <2>2. CASE kernel' = kernel \cup {v} /\ stack' = Appeared({v} \ kernel) /\ master' = master
        BY <2>1, <2>2, MoreHost
    <2>3. CASE UNCHANGED hostVars
        BY <2>3, SameHost
    <2>4. CASE Vanish(v)
        BY <2>1, <2>4, VanishIs
    <2>5. QED
        BY <1>5, <2>2, <2>3, <2>4 DEF VLANLink
<1>6. ASSUME NEW w \in Worker,
             VLANUnlink(w)
      PROVE  HostOK'
    <2> DEFINE x == job[w].i
    <2>1. x \in Iface
        BY <1>6, JobIs, Sets DEF VLANUnlink, At
    <2>2. CASE UNCHANGED hostVars
        BY <2>2, SameHost
    <2>3. CASE Vanish(x)
        BY <2>1, <2>3, VanishIs
    <2>4. QED
        BY <1>6, <2>2, <2>3 DEF VLANUnlink
<1>7. ASSUME NEW w \in Worker,
             BridgeUnlink(w)
      PROVE  HostOK'
    <2> DEFINE x == job[w].i
    <2>1. x \in Iface
        BY <1>7, JobIs, Sets DEF BridgeUnlink, At
    <2>2. CASE UNCHANGED hostVars
        BY <2>2, SameHost
    <2>3. CASE Vanish(x)
        BY <2>1, <2>3, VanishIs
    <2>4. QED
        BY <1>7, <2>2, <2>3 DEF BridgeUnlink
<1>8. ASSUME NEW w \in Worker,
             VLANList(w)
      PROVE  HostOK'
    <2>1. PICK back \in SUBSET (DOMAIN vlans \ kernel) :
              kernel' = kernel \cup back /\ stack' = Appeared(back) /\ master' = master
        BY <1>8 DEF VLANList
    <2>2. back \in SUBSET Iface
        BY <2>1, ConfIs, Sets DEF FilesOK, VlanConf
    <2>3. QED
        BY <2>1, <2>2, MoreHost
<1>9. ASSUME NEW w \in Worker,
             BridgeLink(w)
      PROVE  HostOK'
    <2> DEFINE b == job[w].i
    <2>1. b \in Bridge /\ b \in Iface
        BY <1>9, JobIs, Sets DEF BridgeLink, At
    <2>2. CASE kernel' = kernel \cup {b} /\ stack' = Appeared({b}) /\ master' = master
        BY <2>1, <2>2, MoreHost
    <2>3. CASE UNCHANGED hostVars
        BY <2>3, SameHost
    <2>4. QED
        BY <1>9, <2>2, <2>3 DEF BridgeLink
<1>10. ASSUME NEW w \in Worker,
              BridgeEnslave(w)
       PROVE  HostOK'
    <2> DEFINE b == job[w].i  m == job[w].arg
    <2>1. b \in Bridge /\ m \in Iface
        BY <1>10, JobIs DEF BridgeEnslave, At
    <2>2. kernel' = kernel /\ stack' = stack
        BY <1>10 DEF BridgeEnslave
    <2>3. CASE b \in kernel /\ m \in kernel \ Bridge /\ master' = [master EXCEPT ![m] = b]
        BY <2>1, <2>2, <2>3 DEF HostOK
    <2>4. CASE master' = master
        BY <2>2, <2>4, SameHost DEF hostVars
    <2>5. QED
        BY <1>10, <2>3, <2>4 DEF BridgeEnslave
<1>11. ASSUME NEW w \in Worker,
              BridgeRelease(w)
       PROVE  HostOK'
    <2> DEFINE b == job[w].i  m == job[w].arg
    <2>2. kernel' = kernel /\ stack' = stack
        BY <1>11 DEF BridgeRelease
    <2>3. CASE master' = [master EXCEPT ![m] = None]
        BY <2>2, <2>3 DEF HostOK
    <2>4. CASE master' = master
        BY <2>2, <2>4, SameHost DEF hostVars
    <2>5. QED
        BY <1>11, <2>3, <2>4 DEF BridgeRelease
<1>12. ASSUME NEW w \in Worker,
              BridgeList(w)
       PROVE  HostOK'
    <2>1. DOMAIN bridges \ kernel \in SUBSET Bridge
        BY ConfIs DEF FilesOK, BridgeConf
    <2>2. \E back \in SUBSET Bridge : \E stay \in {{}} \cup {{i} : i \in Iface} : Listed(back, stay)
        <3>1. CASE Listed(DOMAIN bridges \ kernel, {})
            BY <2>1, <3>1
        <3>2. CASE \E b \in DOMAIN bridges \ kernel : Listed((DOMAIN bridges \ kernel) \ {b}, {})
            <4>1. PICK b \in DOMAIN bridges \ kernel : Listed((DOMAIN bridges \ kernel) \ {b}, {})
                BY <3>2
            <4>2. (DOMAIN bridges \ kernel) \ {b} \in SUBSET Bridge
                BY <2>1
            <4>3. QED
                BY <4>1, <4>2
        <3>3. CASE \E i \in kernel \ Bridge : Listed(DOMAIN bridges \ kernel, {i})
            BY <2>1, <3>3 DEF HostOK
        <3>4. QED
            BY <1>12, <3>1, <3>2, <3>3 DEF BridgeList
    <2>3. QED
        BY <2>2, ListedHost
<1>13. ASSUME NEW w \in Worker,
              PortalList(w)
       PROVE  HostOK'
    <2>1. portals \in PortalConf
        BY DEF FilesOK
    <2>2. HealAll(portals) \in [Iface -> Stack]
        BY <2>1, HealAllIs
    <2>3. \A i \in ToHeal(portals) : i \in Iface /\ portals[i] \in Entry /\ stack[i] \in Stack
        BY <2>1, HealAllIs DEF HostOK
    <2>4. \A i \in ToHeal(portals) : HalfHealed(stack[i], portals[i]) \subseteq Stack
        BY <2>3, Stacks
    <2>5. stack' \in [Iface -> Stack] /\ kernel' = kernel /\ master' = master
        <3>1. CASE stack' = HealAll(portals)
            BY <1>13, <2>2, <3>1 DEF PortalList
        <3>2. CASE \E i \in ToHeal(portals) : \E s \in HalfHealed(stack[i], portals[i]) :
                     stack' = [HealAll(portals) EXCEPT ![i] = s]
            <4>1. PICK i \in ToHeal(portals) : \E s \in HalfHealed(stack[i], portals[i]) :
                      stack' = [HealAll(portals) EXCEPT ![i] = s]
                BY <3>2
            <4>2. PICK s \in HalfHealed(stack[i], portals[i]) : stack' = [HealAll(portals) EXCEPT ![i] = s]
                BY <4>1
            <4>3. s \in Stack
                BY <2>4
            <4>4. QED
                BY <1>13, <2>2, <4>2, <4>3 DEF PortalList
        <3>3. QED
            BY <1>13, <3>1, <3>2 DEF PortalList
    <2>6. QED
        BY <2>5 DEF HostOK
<1>14. ASSUME NEW w \in Worker,
              Teardown(w)
       PROVE  HostOK'
    <2> DEFINE i == job[w].i
    <2>1. i \in Iface /\ job[w].old \in Entry
        BY <1>14, JobIs DEF Teardown, At
    <2>2. stack[i] \in Stack
        BY <2>1 DEF HostOK
    <2>3. TornDown(stack[i], job[w].old) \in Stack
        BY <2>1, <2>2, Stacks
    <2>4. stack' = [stack EXCEPT ![i] = TornDown(stack[i], job[w].old)] /\ kernel' = kernel /\ master' = master
        BY <1>14 DEF Teardown
    <2>5. QED
        BY <2>1, <2>3, <2>4, OneStack
<1>15. ASSUME NEW w \in Worker,
              Provision(w)
       PROVE  HostOK'
    <2> DEFINE i == job[w].i
    <2>1. i \in Iface /\ job[w].want \in Entry
        BY <1>15, JobIs DEF Provision, At
    <2>2. stack[i] \in Stack
        BY <2>1 DEF HostOK
    <2>3. Provisioned(stack[i], job[w].want) \in Stack /\ HalfProvisioned(stack[i], job[w].want) \subseteq Stack
        BY <2>1, <2>2, Stacks
    <2>4. /\ \E s \in {Provisioned(stack[i], job[w].want)} \cup HalfProvisioned(stack[i], job[w].want) :
               stack' = [stack EXCEPT ![i] = s]
          /\ kernel' = kernel /\ master' = master
        BY <1>15 DEF Provision
    <2>5. QED
        BY <2>1, <2>3, <2>4, OneStack
<1>16. ASSUME NEW w \in Worker,
              ProvisionFails(w)
       PROVE  HostOK'
    <2> DEFINE i == job[w].i
    <2>1. i \in Iface /\ (job[w].op = "update" => job[w].old \in Entry)
        BY <1>16, JobIs DEF ProvisionFails, At
    <2>2. stack[i] \in Stack
        BY <2>1 DEF HostOK
    <2>3. /\ job[w].op = "update" => Provisioned(stack[i], job[w].old) \in Stack
          /\ [stack[i] EXCEPT !.ip = None] \in Stack
        BY <2>1, <2>2, Stacks DEF Stack
    <2>4. /\ \/ job[w].op = "update" /\ stack' = [stack EXCEPT ![i] = Provisioned(stack[i], job[w].old)]
             \/ stack' = [stack EXCEPT ![i] = [stack[i] EXCEPT !.ip = None]]
          /\ kernel' = kernel /\ master' = master
        BY <1>16 DEF ProvisionFails
    <2>5. QED
        BY <2>1, <2>3, <2>4, OneStack
<1>17. CASE BootScript
    <2>1. PICK V \in SUBSET DOMAIN vlans :
              kernel' = ScriptLinks(V) /\ master' = ScriptMaster(V) /\ stack' = ScriptStack(V)
        BY <1>17 DEF BootScript
    <2>2. stack' \in [Iface -> Stack]
        BY <2>1, ScriptStackIs
    <2>3. /\ kernel' \subseteq Iface /\ kernel \subseteq kernel' /\ DOMAIN bridges \subseteq kernel'
          /\ master' \in [Iface -> Bridge \cup {None}]
        BY <2>1, ScriptMasterIs
    <2>4. \A i \in Iface : master'[i] = master[i] \/ (i \in kernel' \ Bridge /\ master'[i] \in DOMAIN bridges)
        BY <2>1, ScriptMasterIs
    <2>5. QED
        BY <2>2, <2>3, <2>4 DEF HostOK
<1>18. CASE ApiBoot
    <2> DEFINE P == Migrated(portals, Legacy(vlans))
    <2>1. P \in PortalConf
        BY MigratedConf DEF Final
    <2> HIDE DEF P
    <2>2. HealAll(P) \in [Iface -> Stack]
        BY <2>1, HealAllIs
    <2>3. \A i \in ToHeal(P) : i \in Iface /\ P[i] \in Entry /\ stack[i] \in Stack
        BY <2>1, HealAllIs DEF HostOK
    <2>4. \A i \in ToHeal(P) : HalfHealed(stack[i], P[i]) \subseteq Stack
        BY <2>3, Stacks
    <2>5. \A i \in ToHeal(P) : \A s \in HalfHealed(stack[i], P[i]) : [HealAll(P) EXCEPT ![i] = s] \in [Iface -> Stack]
        BY <2>2, <2>4
    <2>6. \E S \in [Iface -> Stack] :
              stack' = [i \in Iface |-> [S[i] EXCEPT !.ttl = @ \/ (i \in DOMAIN P /\ P[i].anti)]]
        <3>1. CASE stack' = [i \in Iface |-> [HealAll(P)[i] EXCEPT !.ttl = @ \/ (i \in DOMAIN P /\ P[i].anti)]]
            BY <2>2, <3>1
        <3>2. CASE \E i \in ToHeal(P) : \E s \in HalfHealed(stack[i], P[i]) :
                     stack' = [j \in Iface |-> [[HealAll(P) EXCEPT ![i] = s][j] EXCEPT
                                                  !.ttl = @ \/ (j \in DOMAIN P /\ P[j].anti)]]
            BY <2>5, <3>2
        <3>3. QED
            BY <1>18, <3>1, <3>2 DEF ApiBoot, P
    <2>7. stack' \in [Iface -> Stack] /\ kernel' = kernel /\ master' = master
        BY <1>18, <2>1, <2>6, WithTtlIs DEF ApiBoot
    <2>8. QED
        BY <2>7 DEF HostOK
<1>19. CASE PowerCut
    <2>1. /\ kernel' = kernel \cap Nic /\ master' = [i \in Iface |-> None]
          /\ stack' = [i \in Iface |->
                         [Bare EXCEPT !.file = stack[i].file, !.conf = stack[i].conf,
                                      !.ip = IF i \in kernel \cap Nic THEN stack[i].file ELSE None]]
        BY <1>19 DEF PowerCut
    <2>2. stack' \in [Iface -> Stack]
        BY <2>1 DEF HostOK, Stack, Bare
    <2>3. QED
        BY <2>1, <2>2 DEF HostOK
<1>20. ASSUME NEW n \in Nic,
              Unplug(n)
       PROVE  HostOK'
    BY <1>20, VanishIs, Sets DEF Unplug
<1>21. ASSUME NEW n \in Nic,
              Plug(n)
       PROVE  HostOK'
    <2>1. {n} \in SUBSET Iface
        BY Sets
    <2>2. QED
        BY <1>21, <2>1, MoreHost DEF Plug
<1>22. QED
    BY <1>1, <1>2, <1>3, <1>4, <1>5, <1>6, <1>7, <1>8, <1>9, <1>10, <1>11, <1>12, <1>13,
       <1>14, <1>15, <1>16, <1>17, <1>18, <1>19, <1>20, <1>21
    DEF Next, LinkRequest, LinkStep, PortalRequest, PortalStep

-----------------------------------------------------------------------------
\* Types: files, requests and the rest

\* A step that leaves the files alone keeps their types.
LEMMA SameFiles ==
    ASSUME FilesOK, UNCHANGED <<linkConf, portalConf, promised>>, touched' \subseteq Iface
    PROVE  FilesOK'
    BY DEF FilesOK, linkConf, portalConf

\* The rows stay a table when a request changes them.
LEMMA RowsType ==
    ASSUME NEW r \in BridgeConf, NEW j \in Job, j.op \in BridgeOps, j.i \in Bridge,
           j.op \in {"member+", "member-"} => j.arg \in Iface
    PROVE  RowsAfter(r, j) \in BridgeConf
<1>1. DOMAIN r \in SUBSET Bridge /\ r \in [DOMAIN r -> SUBSET Iface]
    BY ConfIs DEF BridgeConf
<1>2. CASE j.op = "bridge+"
    <2>1. With(r, j.i, {}) \in BridgeConf
        BY WithConf DEF BridgeConf
    <2>2. QED
        BY <1>2, <2>1 DEF RowsAfter
<1>3. CASE j.op = "bridge-"
    <2>1. Without(r, j.i) \in BridgeConf
        BY WithoutConf DEF BridgeConf
    <2>2. QED
        BY <1>3, <2>1 DEF RowsAfter
<1>4. CASE j.op \in {"member+", "member-"}
    <2>1. j.i \in DOMAIN r => RowsAfter(r, j) \in [DOMAIN r -> SUBSET Iface]
        BY <1>1, <1>4 DEF RowsAfter
    <2>2. j.i \notin DOMAIN r => RowsAfter(r, j) = r
        BY <1>4 DEF RowsAfter
    <2>3. QED
        BY <1>1, <2>1, <2>2, ToConf DEF BridgeConf
<1>5. QED
    BY <1>2, <1>3, <1>4 DEF BridgeOps

\* A listing of bridges keeps the types of rows and file.
LEMMA ListedRows ==
    ASSUME HostOK, FilesOK, NEW back \in SUBSET Bridge, NEW stay, Listed(back, stay)
    PROVE  rows' \in BridgeConf /\ bridges' \in BridgeConf
<1>1. Added(back, stay) \subseteq Iface
    BY AddedIs, Sets
<1>2. DOMAIN rows \in SUBSET Bridge /\ rows \in [DOMAIN rows -> SUBSET Iface]
    BY ConfIs DEF FilesOK, BridgeConf
<1>3. rows' \in [DOMAIN rows -> SUBSET Iface]
    <2> DEFINE added == Added(back, stay)
    <2>1. rows' = IF Br0 \in DOMAIN rows THEN [rows EXCEPT ![Br0] = @ \cup added] ELSE rows
        BY ListedFiles
    <2> HIDE DEF added
    <2>2. Br0 \in DOMAIN rows => rows[Br0] \cup added \in SUBSET Iface
        BY <1>1, <1>2 DEF added
    <2>3. QED
        BY <1>2, <2>1, <2>2
<1>4. With(bridges, Br0, {i \in Iface : master'[i] = Br0}) \in BridgeConf
    <2>1. {i \in Iface : master'[i] = Br0} \in SUBSET Iface /\ Br0 \in Bridge
        BY NetAssumption
    <2>2. bridges \in Conf(Bridge, SUBSET Iface)
        BY DEF FilesOK, BridgeConf
    <2>3. QED
        BY <2>1, <2>2, WithConf DEF BridgeConf
<1>5. bridges' \in BridgeConf
    BY <1>4, ListedFiles DEF FilesOK
<1>6. QED
    BY <1>2, <1>3, <1>5, ToConf DEF BridgeConf

\* What a listing of the bridges lists.
LEMMA BridgeListIs ==
    ASSUME FilesOK, HostOK, NEW w \in Worker, BridgeList(w)
    PROVE  \E back \in SUBSET Bridge, stay \in SUBSET Iface :
              /\ Listed(back, stay) /\ back \subseteq DOMAIN bridges \ kernel
              /\ touched' = touched \cup ((DOMAIN bridges \ kernel) \ back) \cup stay
<1>1. DOMAIN bridges \ kernel \in SUBSET Bridge
    BY ConfIs DEF FilesOK, BridgeConf
<1>2. CASE Listed(DOMAIN bridges \ kernel, {}) /\ NoFault
    BY <1>1, <1>2 DEF NoFault
<1>3. CASE \E b \in DOMAIN bridges \ kernel : Listed((DOMAIN bridges \ kernel) \ {b}, {}) /\ Fault({b})
    <2>1. PICK b \in DOMAIN bridges \ kernel : Listed((DOMAIN bridges \ kernel) \ {b}, {}) /\ Fault({b})
        BY <1>3
    <2>2. (DOMAIN bridges \ kernel) \ {b} \in SUBSET Bridge
        BY <1>1
    <2>3. touched' = touched \cup ((DOMAIN bridges \ kernel) \ ((DOMAIN bridges \ kernel) \ {b})) \cup {}
        BY <2>1 DEF Fault
    <2>4. QED
        BY <2>1, <2>2, <2>3
<1>4. CASE \E i \in kernel \ Bridge : Listed(DOMAIN bridges \ kernel, {i}) /\ Fault({i})
    <2>1. PICK i \in kernel \ Bridge : Listed(DOMAIN bridges \ kernel, {i}) /\ Fault({i})
        BY <1>4
    <2>2. {i} \in SUBSET Iface
        BY DEF HostOK
    <2>3. touched' = touched \cup ((DOMAIN bridges \ kernel) \ (DOMAIN bridges \ kernel)) \cup {i}
        BY <2>1 DEF Fault
    <2>4. QED
        BY <1>1, <2>1, <2>2, <2>3
<1>5. QED
    BY <1>2, <1>3, <1>4 DEF BridgeList

\* Every step keeps the types of files, tables and history.
LEMMA FilesKept ==
    ASSUME HostOK, FilesOK, JobsOK, [Next]_vars
    PROVE  FilesOK'
<1> USE DEF VlanOps, BridgeOps, PortalOps
<1>1. ASSUME NEW w \in Worker,
             \/ \E v \in Vlan, t \in Cidr \cup {Plain} : VLANCreate(w, v, t)
             \/ \E v \in Vlan : VLANDelete(w, v)
             \/ \E b \in Bridge : BridgeCreate(w, b)
             \/ \E b \in Bridge : BridgeDelete(w, b)
             \/ \E b \in Bridge, m \in Iface : BridgeAddMember(w, b, m)
             \/ \E b \in Bridge, m \in Iface : BridgeRemoveMember(w, b, m)
             \/ \E i \in Iface, c \in Cidr, anti \in BOOLEAN : PortalCreate(w, i, c, anti)
             \/ \E i \in Iface, c \in Cidr, anti \in BOOLEAN : PortalUpdate(w, i, c, anti)
             \/ \E i \in Iface : PortalEnable(w, i)
             \/ \E i \in Iface : PortalDisable(w, i)
      PROVE  FilesOK'
    <2>1. UNCHANGED <<linkConf, portalConf, promised, touched>>
        BY <1>1 DEF Begin, VLANCreate, VLANDelete, BridgeCreate, BridgeDelete, BridgeAddMember, BridgeRemoveMember, PortalCreate, PortalUpdate, PortalEnable, PortalDisable
    <2>2. QED
        BY <2>1, SameFiles DEF FilesOK
<1>2. ASSUME NEW w \in Worker,
             VLANRead(w) \/ BridgeRead(w) \/ PortalRead(w) \/ Teardown(w)
      PROVE  FilesOK'
    <2>1. UNCHANGED <<linkConf, portalConf, promised, touched>>
        BY <1>2 DEF VLANRead, BridgeRead, PortalRead, Teardown
    <2>2. QED
        BY <2>1, SameFiles DEF FilesOK
<1>3. ASSUME NEW w \in Worker,
             VLANLink(w) \/ VLANUnlink(w) \/ BridgeLink(w) \/ BridgeUnlink(w)
      PROVE  FilesOK'
    <2>1. job[w].i \in Iface
        BY <1>3, JobIs, Sets DEF At, VLANLink, VLANUnlink, BridgeLink, BridgeUnlink
    <2>2. UNCHANGED <<linkConf, portalConf, promised>> /\ touched' \in {touched, touched \cup {job[w].i}}
        BY <1>3 DEF Fault, NoFault, VLANLink, VLANUnlink, BridgeLink, BridgeUnlink
    <2>3. QED
        BY <2>1, <2>2, SameFiles DEF FilesOK
<1>4. ASSUME NEW w \in Worker,
             BridgeEnslave(w) \/ BridgeRelease(w)
      PROVE  FilesOK'
    <2>1. job[w].i \in Iface /\ job[w].arg \in Iface
        BY <1>4, JobIs, Sets DEF At, BridgeEnslave, BridgeRelease
    <2>2. UNCHANGED <<linkConf, portalConf, promised>> /\ touched' \in {touched, touched \cup {job[w].i, job[w].arg}}
        BY <1>4 DEF Fault, NoFault, BridgeEnslave, BridgeRelease
    <2>3. QED
        BY <2>1, <2>2, SameFiles DEF FilesOK
<1>5. ASSUME NEW w \in Worker,
             Provision(w) \/ ProvisionFails(w)
      PROVE  FilesOK'
    <2>1. job[w].i \in Iface
        BY <1>5, JobIs DEF At, Provision, ProvisionFails
    <2>2. /\ UNCHANGED <<linkConf, portalConf, promised>>
          /\ touched' \in {touched, touched \cup {}, touched \cup {job[w].i}}
        BY <1>5 DEF Fault, NoFault, Provision, ProvisionFails
    <2>3. QED
        BY <2>1, <2>2, SameFiles DEF FilesOK
<1>6. ASSUME NEW w \in Worker,
             VLANList(w)
      PROVE  FilesOK'
    <2>1. DOMAIN vlans \subseteq Iface
        BY ConfIs, Sets DEF FilesOK, VlanConf
    <2>2. /\ UNCHANGED <<linkConf, portalConf, promised>>
          /\ touched' = touched \/ \E S \in SUBSET DOMAIN vlans : touched' = touched \cup S
        BY <1>6 DEF Fault, NoFault, VLANList
    <2>3. QED
        BY <2>1, <2>2, SameFiles DEF FilesOK
<1>7. ASSUME NEW w \in Worker,
             BridgeList(w)
      PROVE  FilesOK'
    <2>1. PICK back \in SUBSET Bridge, stay \in SUBSET Iface :
              /\ Listed(back, stay)
              /\ touched' = touched \cup ((DOMAIN bridges \ kernel) \ back) \cup stay
        BY <1>7, BridgeListIs
    <2>2. DOMAIN bridges \subseteq Iface
        BY ConfIs, Sets DEF FilesOK, BridgeConf
    <2>3. touched' \subseteq Iface
        BY <2>1, <2>2 DEF FilesOK
    <2>4. rows' \in BridgeConf /\ bridges' \in BridgeConf
        BY <2>1, ListedRows
    <2>5. UNCHANGED <<vlans, portalConf, promised>>
        BY <1>7 DEF BridgeList
    <2>6. QED
        BY <2>3, <2>4, <2>5 DEF FilesOK, portalConf
<1>8. ASSUME NEW w \in Worker,
             VLANWrite(w)
      PROVE  FilesOK'
    <2>1. vlans' \in VlanConf /\ UNCHANGED <<bridges, rows, portals, mirror, promised, touched>>
        BY <1>8, JobIs DEF VLANWrite, At, portalConf
    <2>2. QED
        BY <2>1 DEF FilesOK
<1>9. ASSUME NEW w \in Worker,
             BridgeRow(w)
      PROVE  FilesOK'
    <2>1. job[w] \in Job /\ job[w].op \in BridgeOps /\ job[w].i \in Bridge
        BY <1>9, JobIs DEF BridgeRow, At
    <2>2. job[w].op \in {"member+", "member-"} => job[w].arg \in Iface
        BY JobIs
    <2>3. RowsAfter(rows, job[w]) \in BridgeConf
        BY <2>1, <2>2, RowsType DEF FilesOK
    <2>4. rows' \in {rows, RowsAfter(rows, job[w])} /\ touched' \in {touched, touched \cup Concerns(w)}
        BY <1>9 DEF BridgeRow, Fault, NoFault
    <2>5. UNCHANGED <<vlans, bridges, portalConf, promised>>
        BY <1>9 DEF BridgeRow
    <2>6. QED
        BY <2>3, <2>4, <2>5 DEF FilesOK, portalConf, Concerns
<1>10. ASSUME NEW w \in Worker,
              BridgeWrite(w)
       PROVE  FilesOK'
    <2>1. bridges' \in BridgeConf /\ UNCHANGED <<vlans, rows, portals, mirror, promised, touched>>
        BY <1>10, JobIs DEF BridgeWrite, At, portalConf
    <2>2. QED
        BY <2>1 DEF FilesOK
<1>11. ASSUME NEW w \in Worker, NEW i \in Iface,
              PortalDelete(w, i)
       PROVE  FilesOK'
    <2>1. Without(promised, i) \in PortalConf
        BY WithoutConf DEF FilesOK, PortalConf
    <2>2. /\ UNCHANGED <<linkConf, portals, touched>> /\ mirror' \subseteq mirror
          /\ promised' \in {promised, Without(promised, i)}
        BY <1>11 DEF PortalDelete, Begin, portalConf
    <2>3. QED
        BY <2>1, <2>2 DEF FilesOK, linkConf
<1>12. ASSUME NEW w \in Worker,
              PortalList(w)
       PROVE  FilesOK'
    <2>1. ToHeal(portals) \subseteq Iface
        BY HealAllIs DEF FilesOK
    <2>2. /\ UNCHANGED <<linkConf, portalConf, promised>>
          /\ touched' = touched \/ \E i \in ToHeal(portals) : touched' = touched \cup {i}
        BY <1>12 DEF Fault, NoFault, PortalList
    <2>3. QED
        BY <2>1, <2>2, SameFiles DEF FilesOK
<1>13. ASSUME NEW w \in Worker,
              PortalWrite(w)
       PROVE  FilesOK'
    <2>1. portals' \in PortalConf /\ UNCHANGED <<vlans, bridges, rows, mirror, promised, touched>>
        BY <1>13, JobIs DEF PortalWrite, At, linkConf
    <2>2. QED
        BY <2>1 DEF FilesOK
<1>14. ASSUME NEW w \in Worker,
              PortalMirror(w)
       PROVE  FilesOK'
    <2>1. job[w].i \in Iface /\ (job[w].op # "delete" => job[w].want \in Entry)
        BY <1>14, JobIs DEF PortalMirror, At
    <2>2. job[w].op # "delete" => With(promised, job[w].i, job[w].want) \in PortalConf
        BY <2>1, WithConf DEF FilesOK, PortalConf
    <2>3. promised' \in PortalConf
        BY <1>14, <2>2 DEF PortalMirror, FilesOK
    <2>4. touched' \subseteq Iface
        BY <1>14, <2>1 DEF PortalMirror, Fault, NoFault, FilesOK
    <2>5. mirror' \subseteq Iface
        BY <1>14, <2>1 DEF PortalMirror, FilesOK
    <2>6. UNCHANGED <<linkConf, portals>>
        BY <1>14 DEF PortalMirror
    <2>7. QED
        BY <2>3, <2>4, <2>5, <2>6 DEF FilesOK, linkConf
<1>15. CASE BootScript
    <2>1. DOMAIN vlans \subseteq Iface
        BY ConfIs, Sets DEF FilesOK, VlanConf
    <2>2. /\ UNCHANGED <<linkConf, portalConf, promised>>
          /\ touched' = touched \/ \E S \in SUBSET DOMAIN vlans : touched' = touched \cup S
        BY <1>15 DEF Fault, NoFault, BootScript
    <2>3. QED
        BY <2>1, <2>2, SameFiles DEF FilesOK
<1>16. CASE ApiBoot
    <2>1. portals' = Final /\ vlans' = Rewritten(vlans) /\ mirror' = mirror \cup (DOMAIN Final \ DOMAIN portals)
        BY <1>16 DEF ApiBoot, Final
    <2>2. Final \in PortalConf /\ DOMAIN Final \subseteq Iface
        BY MigratedConf, ConfIs DEF PortalConf
    <2>3. Rewritten(vlans) \in VlanConf
        BY RewrittenConf DEF FilesOK
    <2>4. touched' = touched \/ \E i \in ToHeal(Final) : touched' = touched \cup {i}
        BY <1>16 DEF ApiBoot, Fault, NoFault, Final
    <2>5. ToHeal(Final) \subseteq Iface
        BY <2>2, HealAllIs
    <2>6. UNCHANGED <<bridges, rows, promised>>
        BY <1>16 DEF ApiBoot
    <2>7. QED
        BY <2>1, <2>2, <2>3, <2>4, <2>5, <2>6 DEF FilesOK
<1>17. CASE ApiCrash \/ PowerCut
    <2>1. Interrupted \subseteq Iface
        BY DEF Interrupted, Concerns
    <2>2. Restrict(promised, DOMAIN promised \ Interrupted) \in PortalConf
        BY RestrictConf DEF FilesOK, PortalConf
    <2>3. /\ UNCHANGED <<linkConf, portalConf>> /\ touched' = touched \cup Interrupted
          /\ promised' = Restrict(promised, DOMAIN promised \ Interrupted)
        BY <1>17 DEF ApiCrash, PowerCut, Cut
    <2>4. QED
        BY <2>1, <2>2, <2>3 DEF FilesOK, linkConf, portalConf
<1>18. ASSUME NEW n \in Nic,
              Unplug(n)
       PROVE  FilesOK'
    <2>1. UNCHANGED <<linkConf, portalConf, promised>> /\ touched' = touched \cup {n}
        BY <1>18 DEF Unplug, Fault
    <2>2. QED
        BY <2>1, SameFiles, Sets DEF FilesOK
<1>19. ASSUME NEW n \in Nic,
              Plug(n)
       PROVE  FilesOK'
    <2>1. UNCHANGED <<linkConf, portalConf, promised, touched>>
        BY <1>19 DEF Plug
    <2>2. QED
        BY <2>1, SameFiles DEF FilesOK
<1>20. CASE UNCHANGED vars
    <2>1. UNCHANGED <<linkConf, portalConf, promised, touched>>
        BY <1>20 DEF vars
    <2>2. QED
        BY <2>1, SameFiles DEF FilesOK
<1>21. QED
    BY <1>1, <1>2, <1>3, <1>4, <1>5, <1>6, <1>7, <1>8, <1>9, <1>10, <1>11, <1>12, <1>13,
       <1>14, <1>15, <1>16, <1>17, <1>18, <1>19, <1>20
    DEF Next, LinkRequest, LinkStep, PortalRequest, PortalStep

\* A request that is replaced by a well-formed one.
LEMMA NewJob ==
    ASSUME JobsOK, NEW w \in Worker, NEW j \in Job, JobOK(j), job' = [job EXCEPT ![w] = j]
    PROVE  JobsOK' /\ job'[w] = j /\ \A v \in Worker \ {w} : job'[v] = job[v]
    BY DEF JobsOK

\* What an idle request is about to write is a file.
LEMMA SnapType ==
    <<>> \in VlanConf \cup BridgeConf \cup PortalConf /\ <<>> \in PortalConf
    BY EmptyConf DEF PortalConf

\* The idle request is well formed.
LEMMA IdleJob ==
    Idle \in Job /\ JobOK(Idle)
    BY SnapType DEF Idle, Job, JobOK, Pcs, VlanOps, BridgeOps, PortalOps, NoEntry

\* An answer keeps the requests well formed.
LEMMA Answered ==
    ASSUME JobsOK, NEW w \in Worker, Answer(w)
    PROVE  JobsOK'
    BY NewJob, IdleJob DEF Answer

\* A request goes on, and does not come to its write.
LEMMA WentOn ==
    ASSUME JobsOK, NEW w \in Worker, NEW pc, Goto(w, pc), job[w].op # "none",
           \/ job[w].op \in VlanOps /\ pc \in {"link", "unlink", "read"}
           \/ job[w].op \in BridgeOps /\ pc \in {"link", "unlink", "row", "read"}
           \/ job[w].op \in PortalOps /\ pc \in {"teardown", "provision", "read", "mirror"}
    PROVE  JobsOK'
<1> DEFINE j == [job[w] EXCEPT !.pc = pc]
<1>1. job[w] \in Job /\ JobOK(job[w])
    BY DEF JobsOK
<1>2. /\ j \in Job
      /\ j.op = job[w].op /\ j.pc = pc /\ j.i = job[w].i /\ j.arg = job[w].arg
      /\ j.want = job[w].want /\ j.old = job[w].old
    BY <1>1 DEF Job, Pcs
<1>3. pc # "write" /\ job' = [job EXCEPT ![w] = j]
    BY DEF Goto
<1> HIDE DEF j
<1>4. JobOK(j)
    BY <1>1, <1>2, <1>3 DEF JobOK, VlanOps, BridgeOps, PortalOps
<1>5. QED
    BY <1>2, <1>3, <1>4, NewJob

\* A step that leaves the requests alone keeps them well formed.
LEMMA SameJobs ==
    ASSUME JobsOK, job' = job
    PROVE  JobsOK'
    BY DEF JobsOK

\* Every step keeps the requests well formed.
LEMMA JobsKept ==
    ASSUME HostOK, FilesOK, JobsOK, [Next]_vars
    PROVE  JobsOK'
<1> USE DEF VlanOps, BridgeOps, PortalOps
<1>1. ASSUME NEW w \in Worker, NEW v \in Vlan, NEW t \in Cidr \cup {Plain},
             VLANCreate(w, v, t)
      PROVE  JobsOK'
    <2> DEFINE j == [Idle EXCEPT !.op = "vlan+", !.pc = "link", !.i = v, !.arg = t]
    <2>1. job' = [job EXCEPT ![w] = j]
        BY <1>1 DEF VLANCreate, Begin
    <2>2. j \in Job
        BY Sets, SnapType DEF Idle, Job, Pcs
    <2>3. JobOK(j)
        BY Sets, SnapType DEF Idle, JobOK
    <2> HIDE DEF j
    <2>4. QED
        BY <2>1, <2>2, <2>3, NewJob
<1>2. ASSUME NEW w \in Worker, NEW v \in Vlan,
             VLANDelete(w, v)
      PROVE  JobsOK'
    <2> DEFINE j == [Idle EXCEPT !.op = "vlan-", !.pc = "unlink", !.i = v]
    <2>1. job' = [job EXCEPT ![w] = j]
        BY <1>2 DEF VLANDelete, Begin
    <2>2. j \in Job
        BY Sets, SnapType DEF Idle, Job, Pcs
    <2>3. JobOK(j)
        BY Sets, SnapType DEF Idle, JobOK
    <2> HIDE DEF j
    <2>4. QED
        BY <2>1, <2>2, <2>3, NewJob
<1>3. ASSUME NEW w \in Worker, NEW b \in Bridge,
             BridgeCreate(w, b)
      PROVE  JobsOK'
    <2> DEFINE j == [Idle EXCEPT !.op = "bridge+", !.pc = "link", !.i = b]
    <2>1. job' = [job EXCEPT ![w] = j]
        BY <1>3 DEF BridgeCreate, Begin
    <2>2. j \in Job
        BY Sets, SnapType DEF Idle, Job, Pcs
    <2>3. JobOK(j)
        BY Sets, SnapType DEF Idle, JobOK
    <2> HIDE DEF j
    <2>4. QED
        BY <2>1, <2>2, <2>3, NewJob
<1>4. ASSUME NEW w \in Worker, NEW b \in Bridge,
             BridgeDelete(w, b)
      PROVE  JobsOK'
    <2> DEFINE j == [Idle EXCEPT !.op = "bridge-", !.pc = "unlink", !.i = b]
    <2>1. job' = [job EXCEPT ![w] = j]
        BY <1>4 DEF BridgeDelete, Begin
    <2>2. j \in Job
        BY Sets, SnapType DEF Idle, Job, Pcs
    <2>3. JobOK(j)
        BY Sets, SnapType DEF Idle, JobOK
    <2> HIDE DEF j
    <2>4. QED
        BY <2>1, <2>2, <2>3, NewJob
<1>5. ASSUME NEW w \in Worker, NEW b \in Bridge, NEW m \in Iface,
             BridgeAddMember(w, b, m)
      PROVE  JobsOK'
    <2> DEFINE j == [Idle EXCEPT !.op = "member+", !.pc = "link", !.i = b, !.arg = m]
    <2>1. job' = [job EXCEPT ![w] = j]
        BY <1>5 DEF BridgeAddMember, Begin
    <2>2. j \in Job
        BY Sets, SnapType DEF Idle, Job, Pcs
    <2>3. JobOK(j)
        BY Sets, SnapType DEF Idle, JobOK
    <2> HIDE DEF j
    <2>4. QED
        BY <2>1, <2>2, <2>3, NewJob
<1>6. ASSUME NEW w \in Worker, NEW b \in Bridge, NEW m \in Iface,
             BridgeRemoveMember(w, b, m)
      PROVE  JobsOK'
    <2> DEFINE j == [Idle EXCEPT !.op = "member-", !.pc = "link", !.i = b, !.arg = m]
    <2>1. job' = [job EXCEPT ![w] = j]
        BY <1>6 DEF BridgeRemoveMember, Begin
    <2>2. j \in Job
        BY Sets, SnapType DEF Idle, Job, Pcs
    <2>3. JobOK(j)
        BY Sets, SnapType DEF Idle, JobOK
    <2> HIDE DEF j
    <2>4. QED
        BY <2>1, <2>2, <2>3, NewJob
<1>7. ASSUME NEW w \in Worker, NEW i \in Iface, NEW c \in Cidr, NEW anti \in BOOLEAN,
             PortalCreate(w, i, c, anti)
      PROVE  JobsOK'
    <2> DEFINE j == [Idle EXCEPT !.op = "create", !.pc = "provision", !.i = i, !.want = [cidr |-> c, on |-> TRUE, anti |-> anti]]
    <2>0. [cidr |-> c, on |-> TRUE, anti |-> anti] \in Entry
        BY DEF Entry
    <2>1. job' = [job EXCEPT ![w] = j]
        BY <1>7 DEF PortalCreate, Begin
    <2>2. j \in Job
        BY <2>0, SnapType DEF Idle, Job, Pcs
    <2>3. JobOK(j)
        BY <2>0, SnapType DEF Idle, JobOK
    <2> HIDE DEF j
    <2>4. QED
        BY <2>1, <2>2, <2>3, NewJob
<1>8. ASSUME NEW w \in Worker, NEW i \in Iface,
             PortalEnable(w, i)
      PROVE  JobsOK'
    <2> DEFINE j == [Idle EXCEPT !.op = "enable", !.pc = "provision", !.i = i, !.want = [portals[i] EXCEPT !.on = TRUE]]
    <2>0. portals[i] \in Entry /\ [portals[i] EXCEPT !.on = TRUE] \in Entry
        <3>1. i \in DOMAIN portals
            BY <1>8 DEF PortalEnable
        <3>2. portals[i] \in Entry
            BY <3>1, ConfIs DEF FilesOK, PortalConf
        <3>3. QED
            BY <3>2 DEF Entry
    <2>1. job' = [job EXCEPT ![w] = j]
        BY <1>8 DEF PortalEnable, Begin
    <2>2. j \in Job
        BY <2>0, SnapType DEF Idle, Job, Pcs
    <2>3. JobOK(j)
        BY <2>0, SnapType DEF Idle, JobOK
    <2> HIDE DEF j
    <2>4. QED
        BY <2>1, <2>2, <2>3, NewJob
<1>9. ASSUME NEW w \in Worker, NEW i \in Iface,
             PortalDisable(w, i)
      PROVE  JobsOK'
    <2> DEFINE j == [Idle EXCEPT !.op = "disable", !.pc = "teardown", !.i = i, !.old = portals[i], !.want = [portals[i] EXCEPT !.on = FALSE]]
    <2>0. portals[i] \in Entry /\ [portals[i] EXCEPT !.on = FALSE] \in Entry
        <3>1. i \in DOMAIN portals
            BY <1>9 DEF PortalDisable
        <3>2. portals[i] \in Entry
            BY <3>1, ConfIs DEF FilesOK, PortalConf
        <3>3. QED
            BY <3>2 DEF Entry
    <2>1. job' = [job EXCEPT ![w] = j]
        BY <1>9 DEF PortalDisable, Begin
    <2>2. j \in Job
        BY <2>0, SnapType DEF Idle, Job, Pcs
    <2>3. JobOK(j)
        BY <2>0, SnapType DEF Idle, JobOK
    <2> HIDE DEF j
    <2>4. QED
        BY <2>1, <2>2, <2>3, NewJob
<1>10. ASSUME NEW w \in Worker, NEW i \in Iface, NEW c \in Cidr, NEW anti \in BOOLEAN,
              PortalUpdate(w, i, c, anti)
       PROVE  JobsOK'
    <2> DEFINE j == [Idle EXCEPT !.op = "update", !.pc = "teardown", !.i = i, !.old = portals[i], !.want = [cidr |-> c, on |-> portals[i].on, anti |-> anti]]
    <2>0. portals[i] \in Entry /\ [cidr |-> c, on |-> portals[i].on, anti |-> anti] \in Entry
        <3>1. i \in DOMAIN portals
            BY <1>10 DEF PortalUpdate
        <3>2. portals[i] \in Entry
            BY <3>1, ConfIs DEF FilesOK, PortalConf
        <3>3. QED
            BY <3>2 DEF Entry
    <2>1. job' = [job EXCEPT ![w] = j]
        BY <1>10 DEF PortalUpdate, Begin
    <2>2. j \in Job
        BY <2>0, SnapType DEF Idle, Job, Pcs
    <2>3. JobOK(j)
        BY <2>0, SnapType DEF Idle, JobOK
    <2> HIDE DEF j
    <2>4. QED
        BY <2>1, <2>2, <2>3, NewJob
<1>11. ASSUME NEW w \in Worker, NEW i \in Iface,
              PortalDelete(w, i)
       PROVE  JobsOK'
    <2> DEFINE j == [Idle EXCEPT !.op = "delete", !.pc = "teardown", !.i = i, !.old = portals[i]]
    <2>1. CASE i \in DOMAIN portals /\ job' = [job EXCEPT ![w] = j]
        <3>1. portals[i] \in Entry
            BY <2>1, ConfIs DEF FilesOK, PortalConf
        <3>2. j \in Job
            BY <3>1, SnapType DEF Idle, Job, Pcs
        <3>3. JobOK(j)
            BY <3>1 DEF Idle, JobOK, NoEntry
        <3> HIDE DEF j
        <3>4. QED
            BY <2>1, <3>2, <3>3, NewJob
    <2>2. CASE job' = job
        BY <2>2, SameJobs
    <2>3. QED
        BY <1>11, <2>1, <2>2 DEF PortalDelete, Begin
<1>12. ASSUME NEW w \in Worker,
              \/ VLANLink(w) \/ VLANUnlink(w) \/ BridgeLink(w) \/ BridgeUnlink(w)
              \/ BridgeEnslave(w) \/ BridgeRelease(w) \/ BridgeRow(w) \/ Teardown(w)
              \/ Provision(w)
       PROVE  JobsOK'
    <2>1. /\ job[w].op # "none"
          /\ \/ Answer(w)
             \/ job[w].op \in VlanOps /\ \E pc \in {"link", "unlink", "read"} : Goto(w, pc)
             \/ job[w].op \in BridgeOps /\ \E pc \in {"link", "unlink", "row", "read"} : Goto(w, pc)
             \/ job[w].op \in PortalOps /\ \E pc \in {"teardown", "provision", "read", "mirror"} : Goto(w, pc)
        BY <1>12 DEF At, VLANLink, VLANUnlink, BridgeLink, BridgeUnlink, BridgeEnslave, BridgeRelease, BridgeRow, Teardown, Provision
    <2>2. QED
        BY <2>1, Answered, WentOn
<1>13. ASSUME NEW w \in Worker,
              VLANWrite(w) \/ ProvisionFails(w) \/ PortalMirror(w)
       PROVE  JobsOK'
    <2>1. Answer(w)
        BY <1>13 DEF VLANWrite, ProvisionFails, PortalMirror
    <2>2. QED
        BY <2>1, Answered
<1>14. ASSUME NEW w \in Worker,
              VLANList(w) \/ BridgeList(w) \/ PortalList(w)
       PROVE  JobsOK'
    <2>1. job' = job
        BY <1>14 DEF VLANList, BridgeList, PortalList
    <2>2. QED
        BY <2>1, SameJobs
<1>15. ASSUME NEW w \in Worker,
              VLANRead(w)
       PROVE  JobsOK'
    <2> DEFINE rest == Without(Rewritten(vlans), job[w].i)
               snap == IF job[w].op = "vlan+" THEN With(rest, job[w].i, job[w].arg) ELSE rest
    <2>1. snap \in VlanConf
        <3>1. JobOK(job[w]) /\ job[w].op \in VlanOps
            BY <1>15 DEF VLANRead, At, JobsOK
        <3>2. job[w].i \in Vlan /\ (job[w].op = "vlan+" => job[w].arg \in Cidr \cup {Plain})
            BY <3>1 DEF JobOK
        <3>3. Rewritten(vlans) \in VlanConf
            BY RewrittenConf DEF FilesOK
        <3>4. rest \in VlanConf
            BY <3>3, WithoutConf DEF VlanConf
        <3> HIDE DEF rest
        <3>5. job[w].op = "vlan+" => With(rest, job[w].i, job[w].arg) \in VlanConf
            BY <3>2, <3>4, WithConf DEF VlanConf
        <3>6. QED
            BY <3>4, <3>5
    <2> DEFINE j == [job[w] EXCEPT !.pc = "write", !.snap = snap]
    <2>2. job[w] \in Job /\ JobOK(job[w])
        BY DEF JobsOK
    <2>2a. job' = [job EXCEPT ![w] = j]
        BY <1>15 DEF VLANRead
    <2> HIDE DEF snap
    <2>3. /\ j \in Job /\ job' = [job EXCEPT ![w] = j]
          /\ j.op = job[w].op /\ j.pc = "write" /\ j.i = job[w].i /\ j.arg = job[w].arg
          /\ j.want = job[w].want /\ j.old = job[w].old /\ j.snap = snap
        BY <2>1, <2>2, <2>2a DEF Job, Pcs
    <2>4. job[w].op \in VlanOps /\ job[w].op # "none"
        BY <1>15 DEF VLANRead, At
    <2> HIDE DEF j
    <2>5. JobOK(j)
        BY <2>1, <2>2, <2>3, <2>4 DEF JobOK
    <2>6. QED
        BY <2>3, <2>5, NewJob
<1>16. ASSUME NEW w \in Worker,
              BridgeRead(w)
       PROVE  JobsOK'
    <2> DEFINE snap == CASE job[w].op = "bridge+" -> With(bridges, job[w].i, {})
                         [] job[w].op = "bridge-" -> Without(bridges, job[w].i)
                         [] OTHER -> With(bridges, job[w].i, Members(job[w].i))
    <2>1. snap \in BridgeConf
        <3>1. job[w].i \in Bridge
            BY <1>16, JobIs DEF BridgeRead, At
        <3>2. With(bridges, job[w].i, {}) \in BridgeConf
            BY <3>1, WithConf DEF FilesOK, BridgeConf
        <3>3. Without(bridges, job[w].i) \in BridgeConf
            BY WithoutConf DEF FilesOK, BridgeConf
        <3>4. Members(job[w].i) \in SUBSET Iface
            BY DEF Members
        <3>5. With(bridges, job[w].i, Members(job[w].i)) \in BridgeConf
            BY <3>1, <3>4, WithConf DEF FilesOK, BridgeConf
        <3>6. QED
            BY <3>2, <3>3, <3>5
    <2> DEFINE j == [job[w] EXCEPT !.pc = "write", !.snap = snap]
    <2>2. job[w] \in Job /\ JobOK(job[w])
        BY DEF JobsOK
    <2>2a. job' = [job EXCEPT ![w] = j]
        BY <1>16 DEF BridgeRead
    <2> HIDE DEF snap
    <2>3. /\ j \in Job /\ job' = [job EXCEPT ![w] = j]
          /\ j.op = job[w].op /\ j.pc = "write" /\ j.i = job[w].i /\ j.arg = job[w].arg
          /\ j.want = job[w].want /\ j.old = job[w].old /\ j.snap = snap
        BY <2>1, <2>2, <2>2a DEF Job, Pcs
    <2>4. job[w].op \in BridgeOps /\ job[w].op # "none"
        BY <1>16 DEF BridgeRead, At
    <2> HIDE DEF j
    <2>5. JobOK(j)
        BY <2>1, <2>2, <2>3, <2>4 DEF JobOK
    <2>6. QED
        BY <2>3, <2>5, NewJob
<1>17. ASSUME NEW w \in Worker,
              PortalRead(w)
       PROVE  JobsOK'
    <2> DEFINE snap == Entries(portals, job[w])
    <2>1. snap \in PortalConf
        <3>1. job[w].i \in Iface /\ (job[w].op # "delete" => job[w].want \in Entry)
            BY <1>17, JobIs DEF PortalRead, At
        <3>2. Without(portals, job[w].i) \in PortalConf
            BY WithoutConf DEF FilesOK, PortalConf
        <3>3. job[w].op # "delete" => With(portals, job[w].i, job[w].want) \in PortalConf
            BY <3>1, WithConf DEF FilesOK, PortalConf
        <3>4. QED
            BY <3>2, <3>3 DEF Entries
    <2> DEFINE j == [job[w] EXCEPT !.pc = "write", !.snap = snap]
    <2>2. job[w] \in Job /\ JobOK(job[w])
        BY DEF JobsOK
    <2>2a. job' = [job EXCEPT ![w] = j]
        BY <1>17 DEF PortalRead
    <2> HIDE DEF snap
    <2>3. /\ j \in Job /\ job' = [job EXCEPT ![w] = j]
          /\ j.op = job[w].op /\ j.pc = "write" /\ j.i = job[w].i /\ j.arg = job[w].arg
          /\ j.want = job[w].want /\ j.old = job[w].old /\ j.snap = snap
        BY <2>1, <2>2, <2>2a DEF Job, Pcs
    <2>4. job[w].op \in PortalOps /\ job[w].op # "none"
        BY <1>17 DEF PortalRead, At
    <2> HIDE DEF j
    <2>5. JobOK(j)
        BY <2>1, <2>2, <2>3, <2>4 DEF JobOK
    <2>6. QED
        BY <2>3, <2>5, NewJob
<1>18. ASSUME NEW w \in Worker,
              PortalWrite(w)
       PROVE  JobsOK'
    <2> DEFINE j == [job[w] EXCEPT !.pc = "mirror", !.snap = <<>>]
    <2>1. job[w] \in Job /\ JobOK(job[w]) /\ <<>> \in PortalConf
        BY EmptyConf DEF JobsOK, PortalConf
    <2>2. /\ j \in Job
          /\ j.op = job[w].op /\ j.pc = "mirror" /\ j.i = job[w].i /\ j.arg = job[w].arg
          /\ j.want = job[w].want /\ j.old = job[w].old
        BY <2>1 DEF Job, Pcs
    <2>3. job[w].op \in PortalOps
        BY <1>18 DEF PortalWrite, At
    <2>4. job' = [job EXCEPT ![w] = j]
        BY <1>18 DEF PortalWrite
    <2> HIDE DEF j
    <2>5. JobOK(j)
        BY <2>1, <2>2, <2>3 DEF JobOK
    <2>6. QED
        BY <2>2, <2>4, <2>5, NewJob
<1>19. ASSUME NEW w \in Worker,
              BridgeWrite(w)
       PROVE  JobsOK'
    <2> DEFINE j == [job[w] EXCEPT !.pc = "row", !.snap = <<>>]
    <2>1. job[w] \in Job /\ JobOK(job[w]) /\ <<>> \in PortalConf
        BY EmptyConf DEF JobsOK, PortalConf
    <2>2. /\ j \in Job
          /\ j.op = job[w].op /\ j.pc = "row" /\ j.i = job[w].i /\ j.arg = job[w].arg
          /\ j.want = job[w].want /\ j.old = job[w].old
        BY <2>1 DEF Job, Pcs
    <2>3. job[w].op \in BridgeOps
        BY <1>19 DEF BridgeWrite, At
    <2>4. Answer(w) \/ job' = [job EXCEPT ![w] = j]
        BY <1>19 DEF BridgeWrite
    <2> HIDE DEF j
    <2>5. JobOK(j)
        BY <2>1, <2>2, <2>3 DEF JobOK
    <2>6. QED
        BY <2>2, <2>4, <2>5, NewJob, Answered
<1>20. CASE BootScript \/ ApiBoot
    BY <1>20, SameJobs DEF BootScript, ApiBoot
<1>21. CASE ApiCrash \/ PowerCut
    <2>1. job' = [w \in Worker |-> Idle]
        BY <1>21 DEF ApiCrash, PowerCut, Cut
    <2>2. QED
        BY <2>1, IdleJob DEF JobsOK
<1>22. ASSUME NEW n \in Nic,
              Unplug(n)
       PROVE  JobsOK'
    BY <1>22, SameJobs DEF Unplug
<1>23. ASSUME NEW n \in Nic,
              Plug(n)
       PROVE  JobsOK'
    BY <1>23, SameJobs DEF Plug
<1>24. CASE UNCHANGED vars
    BY <1>24, SameJobs DEF vars
<1>25. QED
    BY <1>1, <1>2, <1>3, <1>4, <1>5, <1>6, <1>7, <1>8, <1>9, <1>10, <1>11, <1>12, <1>13,
       <1>14, <1>15, <1>16, <1>17, <1>18, <1>19, <1>20, <1>21, <1>22, <1>23, <1>24
    DEF Next, LinkRequest, LinkStep, PortalRequest, PortalStep

\* Every step keeps the bounds and what is up.
LEMMA LifeKept ==
    ASSUME LifeOK, [Next]_vars
    PROVE  LifeOK'
<1> USE NetAssumption DEF LifeOK, lifeVars
<1>1. ASSUME NEW w \in Worker,
             \/ \E v \in Vlan, t \in Cidr \cup {Plain} : VLANCreate(w, v, t)
             \/ \E v \in Vlan : VLANDelete(w, v)
             \/ \E b \in Bridge : BridgeCreate(w, b)
             \/ \E b \in Bridge : BridgeDelete(w, b)
             \/ \E b \in Bridge, m \in Iface : BridgeAddMember(w, b, m)
             \/ \E b \in Bridge, m \in Iface : BridgeRemoveMember(w, b, m)
             \/ \E i \in Iface, c \in Cidr, anti \in BOOLEAN : PortalCreate(w, i, c, anti)
             \/ \E i \in Iface, c \in Cidr, anti \in BOOLEAN : PortalUpdate(w, i, c, anti)
             \/ \E i \in Iface : PortalEnable(w, i)
             \/ \E i \in Iface : PortalDisable(w, i)
             \/ \E i \in Iface : PortalDelete(w, i)
      PROVE  LifeOK'
    <2>1. \/ UNCHANGED lifeVars /\ faults' = faults /\ used < MaxRequests /\ used' = used + 1
          \/ UNCHANGED lifeVars /\ faults' = faults /\ used' = used
        BY <1>1 DEF Begin, VLANCreate, VLANDelete, BridgeCreate, BridgeDelete, BridgeAddMember, BridgeRemoveMember, PortalCreate, PortalUpdate, PortalEnable, PortalDisable, PortalDelete
    <2>2. QED
        BY <2>1
<1>2. ASSUME NEW w \in Worker,
             \/ VLANRead(w) \/ VLANWrite(w) \/ BridgeRead(w) \/ BridgeWrite(w)
             \/ PortalRead(w) \/ PortalWrite(w) \/ Teardown(w)
      PROVE  LifeOK'
    BY <1>2 DEF VLANRead, VLANWrite, BridgeRead, BridgeWrite, PortalRead, PortalWrite, Teardown
<1>3. ASSUME NEW w \in Worker,
             \/ VLANLink(w) \/ VLANUnlink(w) \/ BridgeLink(w) \/ BridgeUnlink(w)
             \/ BridgeEnslave(w) \/ BridgeRelease(w) \/ BridgeRow(w) \/ Provision(w)
             \/ ProvisionFails(w) \/ PortalMirror(w) \/ VLANList(w) \/ BridgeList(w)
             \/ PortalList(w)
      PROVE  LifeOK'
    <2>1. /\ UNCHANGED <<lifeVars, used>>
          /\ faults' = faults \/ (faults < MaxFaults /\ faults' = faults + 1)
        BY <1>3 DEF Fault, NoFault, VLANLink, VLANUnlink, BridgeLink, BridgeUnlink, BridgeEnslave, BridgeRelease, BridgeRow, Provision, ProvisionFails, PortalMirror, VLANList, BridgeList, PortalList
    <2>2. QED
        BY <2>1
<1>4. CASE BootScript
    <2>1. script' = FALSE /\ UNCHANGED <<api, cuts, used>>
        BY <1>4 DEF BootScript
    <2>2. faults' \in 0 .. MaxFaults
        BY <1>4 DEF BootScript, Fault, NoFault
    <2>3. QED
        BY <2>1, <2>2
<1>5. CASE ApiBoot
    <2>1. api' = "up" /\ UNCHANGED <<script, cuts, used>>
        BY <1>5 DEF ApiBoot
    <2>2. faults' \in 0 .. MaxFaults
        BY <1>5 DEF ApiBoot, Fault, NoFault
    <2>3. QED
        BY <2>1, <2>2
<1>6. CASE ApiCrash \/ PowerCut
    <2>1. api' = "boot" /\ script' \in {script, TRUE} /\ UNCHANGED <<used, faults>>
        BY <1>6 DEF ApiCrash, PowerCut, Cut
    <2>2. Cut
        BY <1>6 DEF ApiCrash, PowerCut
    <2>3. cuts' \in 0 .. MaxCuts
        BY <2>2 DEF Cut
    <2>4. QED
        BY <2>1, <2>3
<1>7. ASSUME NEW n \in Nic,
             Unplug(n)
      PROVE  LifeOK'
    BY <1>7 DEF Unplug, Fault
<1>8. ASSUME NEW n \in Nic,
             Plug(n)
      PROVE  LifeOK'
    BY <1>8 DEF Plug
<1>9. CASE UNCHANGED vars
    BY <1>9 DEF vars
<1>10. QED
    BY <1>1, <1>2, <1>3, <1>4, <1>5, <1>6, <1>7, <1>8, <1>9
    DEF Next, LinkRequest, LinkStep, PortalRequest, PortalStep

\* The types hold at first.
LEMMA InitTypes ==
    ASSUME Init
    PROVE  TypeInv
<1>1. PICK old \in [Vlan -> Cidr \cup {Plain, None}], B \in SUBSET Bridge :
         LET V == {v \in Vlan : old[v] # None}
             L == {v \in V : old[v] # Plain}
         IN /\ vlans = Restrict(old, V)
            /\ bridges = [b \in B |-> {}] /\ rows = bridges
            /\ kernel = Nic \cup V \cup B
            /\ stack = [i \in Iface |->
                          IF i \in L THEN [Bare EXCEPT !.ip = old[i], !.conf = old[i],
                                                       !.run = TRUE, !.captive = TRUE]
                          ELSE Bare]
            /\ promised = [v \in L |-> [cidr |-> old[v], on |-> TRUE, anti |-> FALSE]]
    BY DEF Init
<1> DEFINE V == {v \in Vlan : old[v] # None}
           L == {v \in V : old[v] # Plain}
<1>2. /\ V \subseteq Vlan /\ L \subseteq V /\ \A v \in V : old[v] \in Cidr \cup {Plain}
      /\ \A v \in L : old[v] \in Cidr
    OBVIOUS
<1>3. /\ vlans = [v \in V |-> old[v]]
      /\ bridges = [b \in B |-> {}] /\ rows = bridges
      /\ kernel = Nic \cup V \cup B
      /\ stack = [i \in Iface |->
                    IF i \in L THEN [Bare EXCEPT !.ip = old[i], !.conf = old[i],
                                                 !.run = TRUE, !.captive = TRUE]
                    ELSE Bare]
      /\ promised = [v \in L |-> [cidr |-> old[v], on |-> TRUE, anti |-> FALSE]]
    BY <1>1 DEF Restrict
<1> HIDE DEF V, L
<1>4. HostOK
    <2>1. stack \in [Iface -> Stack]
        BY <1>2, <1>3 DEF Stack, Bare
    <2>2. kernel \subseteq Iface
        BY <1>2, <1>3, Sets
    <2>3. \A i \in Iface : master[i] = None
        BY DEF Init
    <2>4. master \in [Iface -> Bridge \cup {None}]
        BY DEF Init
    <2>5. QED
        BY <2>1, <2>2, <2>3, <2>4 DEF HostOK
<1>5. FilesOK
    <2>1. vlans \in VlanConf
        BY <1>2, <1>3, ToConf DEF VlanConf
    <2>2. bridges \in BridgeConf /\ rows \in BridgeConf
        <3>1. bridges \in [B -> SUBSET Iface]
            BY <1>3
        <3>2. QED
            BY <1>3, <3>1, ToConf DEF BridgeConf
    <2>3. promised \in PortalConf
        <3>1. promised \in [L -> Entry] /\ L \in SUBSET Iface
            BY <1>2, <1>3, Sets DEF Entry
        <3>2. QED
            BY <3>1, ToConf DEF PortalConf
    <2>4. portals \in PortalConf /\ mirror \subseteq Iface /\ touched \subseteq Iface
        BY SnapType DEF Init
    <2>5. QED
        BY <2>1, <2>2, <2>3, <2>4 DEF FilesOK
<1>6. JobsOK
    BY IdleJob DEF Init, JobsOK
<1>7. LifeOK
    <2>1. api = "boot" /\ script = FALSE /\ used = 0 /\ faults = 0 /\ cuts = 0
        BY DEF Init
    <2>2. 0 \in 0 .. MaxRequests /\ 0 \in 0 .. MaxFaults /\ 0 \in 0 .. MaxCuts
        BY NetAssumption
    <2>3. QED
        BY <2>1, <2>2 DEF LifeOK
<1>8. QED
    BY <1>4, <1>5, <1>6, <1>7 DEF TypeInv

\* Every step keeps the types.
LEMMA TypesKept ==
    ASSUME TypeInv, [Next]_vars
    PROVE  TypeInv'
    BY HostKept, FilesKept, JobsKept, LifeKept DEF TypeInv

\* The types of the proofs are those of the runs, with the parts of a request.
LEMMA TypeInvIs ==
    ASSUME TypeInv
    PROVE  TypeOK
<1>1. DOMAIN vlans \subseteq Vlan /\ \A v \in DOMAIN vlans : vlans[v] \in Cidr \cup {Plain}
    BY ConfIs DEF TypeInv, FilesOK, VlanConf
<1>2. \A f \in {bridges, rows} : DOMAIN f \subseteq Bridge /\ \A b \in DOMAIN f : f[b] \subseteq Iface
    BY ConfIs DEF TypeInv, FilesOK, BridgeConf
<1>3. \A f \in {portals, promised} : DOMAIN f \subseteq Iface /\ \A i \in DOMAIN f : f[i] \in Entry
    BY ConfIs DEF TypeInv, FilesOK, PortalConf
<1>4. QED
    BY <1>1, <1>2, <1>3 DEF TypeInv, HostOK, FilesOK, LifeOK, TypeOK

\* The types hold in every reachable state.
LEMMA TypeInvAlways == Spec => []TypeInv
<1>1. Init => TypeInv
    BY InitTypes
<1>2. TypeInv /\ [Next]_vars => TypeInv'
    BY TypesKept
<1>3. QED
    BY <1>1, <1>2, PTL DEF Spec

\* Every state has its type: whatever the requests of several clients, the boots and
\* the failures do to each other, the files of vlan.go, bridge.go and portal.go stay
\* files of entries about interfaces there can be.
THEOREM TypeCorrect == Spec => []TypeOK
<1>1. TypeInv => TypeOK
    BY TypeInvIs
<1>2. QED
    BY <1>1, TypeInvAlways, PTL

-----------------------------------------------------------------------------
\* One request at a time

\* The request that is under way is the only one.
LEMMA Alone ==
    ASSUME OneRequest, NEW w \in Worker, job[w].op # "none"
    PROVE  api = "up" /\ ~script /\ \A v \in Worker \ {w} : job[v] = Idle
<1>1. job[w] # Idle
    BY DEF Idle
<1>2. QED
    BY <1>1 DEF OneRequest

\* The one request goes on.
LEMMA OneStep ==
    ASSUME JobsOK, OneRequest, NEW w \in Worker, job[w].op # "none", NEW j,
           job' = [job EXCEPT ![w] = j], UNCHANGED <<api, script>>
    PROVE  OneRequest'
<1>1. \A v \in Worker \ {w} : job'[v] = Idle
    BY Alone DEF JobsOK
<1>2. api' = "up" /\ ~script'
    BY Alone
<1>3. QED
    BY <1>1, <1>2 DEF OneRequest

\* A request begins alone.
LEMMA OneBegun ==
    ASSUME Careful, JobsOK, NEW w \in Worker, NEW j, Begin(w, j)
    PROVE  OneRequest'
<1>1. \A v \in Worker \ {w} : job'[v] = Idle
    BY DEF Begin, MayServe, Quiet, JobsOK
<1>2. api' = "up" /\ ~script'
    BY DEF Begin, MayServe, lifeVars
<1>3. QED
    BY <1>1, <1>2 DEF OneRequest

\* A step beside the requests leaves the one alone.
LEMMA OneSame ==
    ASSUME OneRequest, UNCHANGED <<job, api, script>>
    PROVE  OneRequest'
    BY DEF OneRequest

\* A careful operator has one request at a time, and none while the device is down.
LEMMA OneKept ==
    ASSUME Careful, JobsOK, OneRequest, [Next]_vars
    PROVE  OneRequest'
<1> USE DEF lifeVars
<1>1. ASSUME NEW w \in Worker,
             \/ \E v \in Vlan, t \in Cidr \cup {Plain} : VLANCreate(w, v, t)
             \/ \E v \in Vlan : VLANDelete(w, v)
             \/ \E b \in Bridge : BridgeCreate(w, b)
             \/ \E b \in Bridge : BridgeDelete(w, b)
             \/ \E b \in Bridge, m \in Iface : BridgeAddMember(w, b, m)
             \/ \E b \in Bridge, m \in Iface : BridgeRemoveMember(w, b, m)
             \/ \E i \in Iface, c \in Cidr, anti \in BOOLEAN : PortalCreate(w, i, c, anti)
             \/ \E i \in Iface, c \in Cidr, anti \in BOOLEAN : PortalUpdate(w, i, c, anti)
             \/ \E i \in Iface : PortalEnable(w, i)
             \/ \E i \in Iface : PortalDisable(w, i)
      PROVE  OneRequest'
    <2>1. \E j : Begin(w, j)
        BY <1>1 DEF VLANCreate, VLANDelete, BridgeCreate, BridgeDelete, BridgeAddMember, BridgeRemoveMember, PortalCreate, PortalUpdate, PortalEnable, PortalDisable
    <2>2. QED
        BY <2>1, OneBegun
<1>2. ASSUME NEW w \in Worker, NEW i \in Iface,
             PortalDelete(w, i)
      PROVE  OneRequest'
    <2>1. (\E j : Begin(w, j)) \/ UNCHANGED <<job, api, script>>
        BY <1>2 DEF PortalDelete
    <2>2. QED
        BY <2>1, OneBegun, OneSame
<1>3. ASSUME NEW w \in Worker,
             \/ VLANRead(w) \/ BridgeRead(w) \/ PortalRead(w) \/ PortalWrite(w)
             \/ Teardown(w) \/ VLANWrite(w) \/ BridgeWrite(w) \/ VLANLink(w)
             \/ VLANUnlink(w) \/ BridgeLink(w) \/ BridgeUnlink(w) \/ BridgeEnslave(w)
             \/ BridgeRelease(w) \/ BridgeRow(w) \/ Provision(w) \/ ProvisionFails(w)
             \/ PortalMirror(w)
      PROVE  OneRequest'
    <2>1. /\ job[w].op # "none" /\ UNCHANGED <<api, script>>
          /\ \E j : job' = [job EXCEPT ![w] = j]
        BY <1>3 DEF At, Goto, Answer, VLANRead, BridgeRead, PortalRead, PortalWrite, Teardown,
           VLANWrite, BridgeWrite, VLANLink, VLANUnlink, BridgeLink, BridgeUnlink,
           BridgeEnslave, BridgeRelease, BridgeRow, Provision, ProvisionFails, PortalMirror
    <2>2. QED
        BY <2>1, OneStep
<1>4. ASSUME NEW w \in Worker,
             VLANList(w) \/ BridgeList(w) \/ PortalList(w)
      PROVE  OneRequest'
    BY <1>4, OneSame DEF VLANList, BridgeList, PortalList
<1>5. CASE BootScript
    BY <1>5 DEF BootScript, OneRequest
<1>6. CASE ApiBoot
    BY <1>6 DEF ApiBoot, OneRequest
<1>7. CASE ApiCrash \/ PowerCut
    <2>1. job' = [w \in Worker |-> Idle]
        BY <1>7 DEF ApiCrash, PowerCut, Cut
    <2>2. QED
        BY <2>1 DEF OneRequest
<1>8. ASSUME NEW n \in Nic,
             Unplug(n)
      PROVE  OneRequest'
    BY <1>8, OneSame DEF Unplug
<1>9. ASSUME NEW n \in Nic,
             Plug(n)
      PROVE  OneRequest'
    BY <1>9, OneSame DEF Plug
<1>10. CASE UNCHANGED vars
    BY <1>10, OneSame DEF vars
<1>11. QED
    BY <1>1, <1>2, <1>3, <1>4, <1>5, <1>6, <1>7, <1>8, <1>9, <1>10
    DEF Next, LinkRequest, LinkStep, PortalRequest, PortalStep

\* A line is dropped, and the others stay.
LEMMA WithoutIs ==
    ASSUME NEW f, NEW x
    PROVE  /\ \A z : z \in DOMAIN Without(f, x) <=> z \in DOMAIN f /\ z # x
           /\ \A z \in DOMAIN f : z # x => Without(f, x)[z] = f[z]
    BY DEF Without, Restrict

\* What becomes of the requests when one of them begins, goes on or is answered.
LEMMA BegunIs ==
    ASSUME Careful, JobsOK, NEW w \in Worker, NEW j, Begin(w, j)
    PROVE  /\ job'[w] = j /\ job[w] = Idle /\ \A v \in Worker \ {w} : job[v] = Idle /\ job'[v] = Idle
           /\ UNCHANGED <<hostVars, linkConf, lifeVars, touched>> /\ api = "up" /\ ~script
    BY DEF Begin, MayServe, Quiet, JobsOK

\* The one request changes; the others are idle.
LEMMA StepIs ==
    ASSUME JobsOK, OneRequest, NEW w \in Worker, job[w].op # "none", NEW j, job' = [job EXCEPT ![w] = j]
    PROVE  /\ job'[w] = j /\ \A v \in Worker \ {w} : job[v] = Idle /\ job'[v] = Idle
           /\ api = "up" /\ ~script
    BY Alone DEF JobsOK

\* The one request goes on with what it had.
LEMMA GotoIs ==
    ASSUME JobsOK, OneRequest, NEW w \in Worker, job[w].op # "none", NEW pc, Goto(w, pc)
    PROVE  /\ job'[w].op = job[w].op /\ job'[w].pc = pc /\ job'[w].i = job[w].i
           /\ job'[w].arg = job[w].arg /\ job'[w].want = job[w].want /\ job'[w].old = job[w].old
           /\ \A v \in Worker \ {w} : job[v] = Idle /\ job'[v] = Idle
           /\ api = "up" /\ ~script
<1>1. job' = [job EXCEPT ![w] = [job[w] EXCEPT !.pc = pc]]
    BY DEF Goto
<1> DEFINE g == [job[w] EXCEPT !.pc = pc]
<1>2. job'[w] = g /\ job[w] \in Job
    BY <1>1 DEF JobsOK
<1>3. /\ g.op = job[w].op /\ g.pc = pc /\ g.i = job[w].i /\ g.arg = job[w].arg
      /\ g.want = job[w].want /\ g.old = job[w].old
    BY <1>2 DEF Job
<1> HIDE DEF g
<1>4. /\ \A v \in Worker \ {w} : job[v] = Idle /\ job'[v] = Idle
      /\ api = "up" /\ ~script
    BY <1>1, StepIs
<1>5. QED
    BY <1>2, <1>3, <1>4

\* The one request is answered, and all are idle.
LEMMA AnswerIs ==
    ASSUME JobsOK, OneRequest, NEW w \in Worker, job[w].op # "none", Answer(w)
    PROVE  /\ \A v \in Worker : job'[v] = Idle
           /\ \A v \in Worker \ {w} : job[v] = Idle
           /\ api = "up" /\ ~script
    BY StepIs DEF Answer

\* What a request has read, and what it goes on with once it has written.
VlanFile(j) ==
    LET rest == Without(Rewritten(vlans), j.i)
    IN IF j.op = "vlan+" THEN With(rest, j.i, j.arg) ELSE rest
BridgeFile(j) ==
    CASE j.op = "bridge+" -> With(bridges, j.i, {})
      [] j.op = "bridge-" -> Without(bridges, j.i)
      [] OTHER -> With(bridges, j.i, Members(j.i))

\* What a request on a VLAN is about to write.
LEMMA VLANReadIs ==
    ASSUME JobsOK, OneRequest, NEW w \in Worker, VLANRead(w)
    PROVE  /\ job[w].op \in VlanOps /\ job[w].pc = "read"
           /\ job'[w].op = job[w].op /\ job'[w].pc = "write" /\ job'[w].i = job[w].i
           /\ job'[w].arg = job[w].arg /\ job'[w].want = job[w].want /\ job'[w].old = job[w].old
           /\ job'[w].snap = VlanFile(job[w])
           /\ \A v \in Worker \ {w} : job[v] = Idle /\ job'[v] = Idle
           /\ api = "up" /\ ~script
<1> DEFINE s == VlanFile(job[w])
           g == [job[w] EXCEPT !.pc = "write", !.snap = s]
<1>1. job[w].op \in VlanOps /\ job[w].pc = "read" /\ job[w].op # "none"
    BY DEF VLANRead, At, VlanOps, PortalOps
<1>2. job' = [job EXCEPT ![w] = g]
    BY DEF VLANRead, VlanFile
<1>3. s = VlanFile(job[w])
    OBVIOUS
<1> HIDE DEF s
<1>4. /\ g.op = job[w].op /\ g.pc = "write" /\ g.i = job[w].i /\ g.arg = job[w].arg
      /\ g.want = job[w].want /\ g.old = job[w].old /\ g.snap = s
    BY DEF JobsOK, Job
<1> HIDE DEF g
<1>5. /\ job'[w] = g /\ \A v \in Worker \ {w} : job[v] = Idle /\ job'[v] = Idle
      /\ api = "up" /\ ~script
    BY <1>1, <1>2, StepIs
<1>6. QED
    BY <1>1, <1>3, <1>4, <1>5

\* What a request on a bridge is about to write.
LEMMA BridgeReadIs ==
    ASSUME JobsOK, OneRequest, NEW w \in Worker, BridgeRead(w)
    PROVE  /\ job[w].op \in {"bridge+", "bridge-", "member+", "member-"} /\ job[w].pc = "read"
           /\ job'[w].op = job[w].op /\ job'[w].pc = "write" /\ job'[w].i = job[w].i
           /\ job'[w].arg = job[w].arg /\ job'[w].want = job[w].want /\ job'[w].old = job[w].old
           /\ job'[w].snap = BridgeFile(job[w])
           /\ \A v \in Worker \ {w} : job[v] = Idle /\ job'[v] = Idle
           /\ api = "up" /\ ~script
<1> DEFINE s == BridgeFile(job[w])
           g == [job[w] EXCEPT !.pc = "write", !.snap = s]
<1>1. job[w].op \in {"bridge+", "bridge-", "member+", "member-"} /\ job[w].pc = "read" /\ job[w].op # "none"
    BY DEF BridgeRead, At, VlanOps, PortalOps
<1>2. job' = [job EXCEPT ![w] = g]
    BY DEF BridgeRead, BridgeFile
<1>3. s = BridgeFile(job[w])
    OBVIOUS
<1> HIDE DEF s
<1>4. /\ g.op = job[w].op /\ g.pc = "write" /\ g.i = job[w].i /\ g.arg = job[w].arg
      /\ g.want = job[w].want /\ g.old = job[w].old /\ g.snap = s
    BY DEF JobsOK, Job
<1> HIDE DEF g
<1>5. /\ job'[w] = g /\ \A v \in Worker \ {w} : job[v] = Idle /\ job'[v] = Idle
      /\ api = "up" /\ ~script
    BY <1>1, <1>2, StepIs
<1>6. QED
    BY <1>1, <1>3, <1>4, <1>5

\* What a request on a portal is about to write.
LEMMA PortalReadIs ==
    ASSUME JobsOK, OneRequest, NEW w \in Worker, PortalRead(w)
    PROVE  /\ job[w].op \in PortalOps /\ job[w].pc = "read"
           /\ job'[w].op = job[w].op /\ job'[w].pc = "write" /\ job'[w].i = job[w].i
           /\ job'[w].arg = job[w].arg /\ job'[w].want = job[w].want /\ job'[w].old = job[w].old
           /\ job'[w].snap = Entries(portals, job[w])
           /\ \A v \in Worker \ {w} : job[v] = Idle /\ job'[v] = Idle
           /\ api = "up" /\ ~script
<1> DEFINE s == Entries(portals, job[w])
           g == [job[w] EXCEPT !.pc = "write", !.snap = s]
<1>1. job[w].op \in PortalOps /\ job[w].pc = "read" /\ job[w].op # "none"
    BY DEF PortalRead, At, VlanOps, PortalOps
<1>2. job' = [job EXCEPT ![w] = g]
    BY DEF PortalRead
<1>3. s = Entries(portals, job[w])
    OBVIOUS
<1> HIDE DEF s
<1>4. /\ g.op = job[w].op /\ g.pc = "write" /\ g.i = job[w].i /\ g.arg = job[w].arg
      /\ g.want = job[w].want /\ g.old = job[w].old /\ g.snap = s
    BY DEF JobsOK, Job
<1> HIDE DEF g
<1>5. /\ job'[w] = g /\ \A v \in Worker \ {w} : job[v] = Idle /\ job'[v] = Idle
      /\ api = "up" /\ ~script
    BY <1>1, <1>2, StepIs
<1>6. QED
    BY <1>1, <1>3, <1>4, <1>5

\* A request on a portal goes on to the mirror.
LEMMA PortalWriteIs ==
    ASSUME JobsOK, OneRequest, NEW w \in Worker, PortalWrite(w)
    PROVE  /\ job[w].op \in PortalOps /\ job[w].pc = "write"
           /\ job'[w].op = job[w].op /\ job'[w].pc = "mirror" /\ job'[w].i = job[w].i
           /\ job'[w].arg = job[w].arg /\ job'[w].want = job[w].want /\ job'[w].old = job[w].old
           /\ job'[w].snap = <<>>
           /\ \A v \in Worker \ {w} : job[v] = Idle /\ job'[v] = Idle
           /\ api = "up" /\ ~script
<1> DEFINE s == <<>>
           g == [job[w] EXCEPT !.pc = "mirror", !.snap = s]
<1>1. job[w].op \in PortalOps /\ job[w].pc = "write" /\ job[w].op # "none"
    BY DEF PortalWrite, At, VlanOps, PortalOps
<1>2. job' = [job EXCEPT ![w] = g]
    BY DEF PortalWrite
<1>3. s = <<>>
    OBVIOUS
<1> HIDE DEF s
<1>4. /\ g.op = job[w].op /\ g.pc = "mirror" /\ g.i = job[w].i /\ g.arg = job[w].arg
      /\ g.want = job[w].want /\ g.old = job[w].old /\ g.snap = s
    BY DEF JobsOK, Job
<1> HIDE DEF g
<1>5. /\ job'[w] = g /\ \A v \in Worker \ {w} : job[v] = Idle /\ job'[v] = Idle
      /\ api = "up" /\ ~script
    BY <1>1, <1>2, StepIs
<1>6. QED
    BY <1>1, <1>3, <1>4, <1>5

\* A request on a bridge is answered, or goes on to the rows.
LEMMA BridgeWriteIs ==
    ASSUME JobsOK, OneRequest, NEW w \in Worker, BridgeWrite(w)
    PROVE  /\ job[w].op \in {"bridge+", "bridge-", "member+", "member-"} /\ job[w].pc = "write"
           /\ IF job[w].op = "bridge-"
              THEN job'[w].op = "bridge-" /\ job'[w].pc = "row" /\ job'[w].i = job[w].i
              ELSE job'[w] = Idle
           /\ \A v \in Worker \ {w} : job[v] = Idle /\ job'[v] = Idle
           /\ api = "up" /\ ~script
<1> DEFINE g == IF job[w].op = "bridge-" THEN [job[w] EXCEPT !.pc = "row", !.snap = <<>>] ELSE Idle
<1>1. /\ job[w].op \in {"bridge+", "bridge-", "member+", "member-"} /\ job[w].pc = "write"
      /\ job[w].op # "none"
    BY DEF BridgeWrite, At
<1>2. job' = [job EXCEPT ![w] = g]
    BY DEF BridgeWrite, Answer
<1>3. IF job[w].op = "bridge-" THEN g.op = "bridge-" /\ g.pc = "row" /\ g.i = job[w].i ELSE g = Idle
    BY DEF JobsOK, Job
<1> HIDE DEF g
<1>4. /\ job'[w] = g /\ \A v \in Worker \ {w} : job[v] = Idle /\ job'[v] = Idle
      /\ api = "up" /\ ~script
    BY <1>1, <1>2, StepIs
<1>5. QED
    BY <1>1, <1>3, <1>4

\* The requests.
LEMMA VLANCreateIs ==
    ASSUME NEW w \in Worker, NEW v, NEW t, VLANCreate(w, v, t)
    PROVE  \E j : Begin(w, j) /\ UNCHANGED <<portalConf, promised>>
                  /\ j.op = "vlan+" /\ j.pc = "link" /\ j.i = v /\ j.arg = t
<1> DEFINE j == [Idle EXCEPT !.op = "vlan+", !.pc = "link", !.i = v, !.arg = t]
<1>1. Begin(w, j) /\ UNCHANGED <<portalConf, promised>>
    BY DEF VLANCreate
<1>2. j.op = "vlan+" /\ j.pc = "link" /\ j.i = v /\ j.arg = t
    BY DEF Idle
<1> HIDE DEF j
<1>3. QED
    BY <1>1, <1>2

\* The request that deletes a VLAN.
LEMMA VLANDeleteIs ==
    ASSUME NEW w \in Worker, NEW v, VLANDelete(w, v)
    PROVE  \E j : Begin(w, j) /\ UNCHANGED <<portalConf, promised>>
                  /\ j.op = "vlan-" /\ j.pc = "unlink" /\ j.i = v
<1> DEFINE j == [Idle EXCEPT !.op = "vlan-", !.pc = "unlink", !.i = v]
<1>1. Begin(w, j) /\ UNCHANGED <<portalConf, promised>>
    BY DEF VLANDelete
<1>2. j.op = "vlan-" /\ j.pc = "unlink" /\ j.i = v
    BY DEF Idle
<1> HIDE DEF j
<1>3. QED
    BY <1>1, <1>2

\* The request that creates a bridge.
LEMMA BridgeCreateIs ==
    ASSUME NEW w \in Worker, NEW b, BridgeCreate(w, b)
    PROVE  \E j : Begin(w, j) /\ UNCHANGED <<portalConf, promised>>
                  /\ j.op = "bridge+" /\ j.pc = "link" /\ j.i = b
<1> DEFINE j == [Idle EXCEPT !.op = "bridge+", !.pc = "link", !.i = b]
<1>1. Begin(w, j) /\ UNCHANGED <<portalConf, promised>>
    BY DEF BridgeCreate
<1>2. j.op = "bridge+" /\ j.pc = "link" /\ j.i = b
    BY DEF Idle
<1> HIDE DEF j
<1>3. QED
    BY <1>1, <1>2

\* The request that deletes a bridge.
LEMMA BridgeDeleteIs ==
    ASSUME NEW w \in Worker, NEW b, BridgeDelete(w, b)
    PROVE  \E j : Begin(w, j) /\ UNCHANGED <<portalConf, promised>>
                  /\ j.op = "bridge-" /\ j.pc = "unlink" /\ j.i = b
<1> DEFINE j == [Idle EXCEPT !.op = "bridge-", !.pc = "unlink", !.i = b]
<1>1. Begin(w, j) /\ UNCHANGED <<portalConf, promised>>
    BY DEF BridgeDelete
<1>2. j.op = "bridge-" /\ j.pc = "unlink" /\ j.i = b
    BY DEF Idle
<1> HIDE DEF j
<1>3. QED
    BY <1>1, <1>2

\* The request that adds a member.
LEMMA BridgeAddMemberIs ==
    ASSUME NEW w \in Worker, NEW b, NEW m, BridgeAddMember(w, b, m)
    PROVE  \E j : Begin(w, j) /\ UNCHANGED <<portalConf, promised>>
                  /\ j.op = "member+" /\ j.pc = "link" /\ j.i = b /\ j.arg = m
<1> DEFINE j == [Idle EXCEPT !.op = "member+", !.pc = "link", !.i = b, !.arg = m]
<1>1. Begin(w, j) /\ UNCHANGED <<portalConf, promised>>
    BY DEF BridgeAddMember
<1>2. j.op = "member+" /\ j.pc = "link" /\ j.i = b /\ j.arg = m
    BY DEF Idle
<1> HIDE DEF j
<1>3. QED
    BY <1>1, <1>2

\* The request that removes a member.
LEMMA BridgeRemoveMemberIs ==
    ASSUME NEW w \in Worker, NEW b, NEW m, BridgeRemoveMember(w, b, m)
    PROVE  \E j : Begin(w, j) /\ UNCHANGED <<portalConf, promised>>
                  /\ j.op = "member-" /\ j.pc = "link" /\ j.i = b /\ j.arg = m
<1> DEFINE j == [Idle EXCEPT !.op = "member-", !.pc = "link", !.i = b, !.arg = m]
<1>1. Begin(w, j) /\ UNCHANGED <<portalConf, promised>>
    BY DEF BridgeRemoveMember
<1>2. j.op = "member-" /\ j.pc = "link" /\ j.i = b /\ j.arg = m
    BY DEF Idle
<1> HIDE DEF j
<1>3. QED
    BY <1>1, <1>2

\* The request that creates a portal.
LEMMA PortalCreateIs ==
    ASSUME NEW w \in Worker, NEW i, NEW c, NEW anti, PortalCreate(w, i, c, anti)
    PROVE  \E j : Begin(w, j) /\ UNCHANGED <<portalConf, promised>>
                  /\ j.op = "create" /\ j.pc = "provision" /\ j.i = i /\ j.want = [cidr |-> c, on |-> TRUE, anti |-> anti] /\ j.old = NoEntry
<1> DEFINE j == [Idle EXCEPT !.op = "create", !.pc = "provision", !.i = i, !.want = [cidr |-> c, on |-> TRUE, anti |-> anti]]
<1>1. Begin(w, j) /\ UNCHANGED <<portalConf, promised>>
    BY DEF PortalCreate
<1>2. j.op = "create" /\ j.pc = "provision" /\ j.i = i /\ j.want = [cidr |-> c, on |-> TRUE, anti |-> anti] /\ j.old = NoEntry
    BY DEF Idle
<1> HIDE DEF j
<1>3. QED
    BY <1>1, <1>2

\* The request that enables a portal.
LEMMA PortalEnableIs ==
    ASSUME NEW w \in Worker, NEW i, PortalEnable(w, i)
    PROVE  \E j : Begin(w, j) /\ UNCHANGED <<portalConf, promised>>
                  /\ j.op = "enable" /\ j.pc = "provision" /\ j.i = i /\ j.want = [portals[i] EXCEPT !.on = TRUE] /\ j.old = NoEntry
<1> DEFINE j == [Idle EXCEPT !.op = "enable", !.pc = "provision", !.i = i, !.want = [portals[i] EXCEPT !.on = TRUE]]
<1>1. Begin(w, j) /\ UNCHANGED <<portalConf, promised>>
    BY DEF PortalEnable
<1>2. j.op = "enable" /\ j.pc = "provision" /\ j.i = i /\ j.want = [portals[i] EXCEPT !.on = TRUE] /\ j.old = NoEntry
    BY DEF Idle
<1> HIDE DEF j
<1>3. QED
    BY <1>1, <1>2

\* The request that disables a portal.
LEMMA PortalDisableIs ==
    ASSUME NEW w \in Worker, NEW i, PortalDisable(w, i)
    PROVE  \E j : Begin(w, j) /\ UNCHANGED <<portalConf, promised>>
                  /\ j.op = "disable" /\ j.pc = "teardown" /\ j.i = i /\ j.want = [portals[i] EXCEPT !.on = FALSE] /\ j.old = portals[i]
<1> DEFINE j == [Idle EXCEPT !.op = "disable", !.pc = "teardown", !.i = i, !.old = portals[i], !.want = [portals[i] EXCEPT !.on = FALSE]]
<1>1. Begin(w, j) /\ UNCHANGED <<portalConf, promised>>
    BY DEF PortalDisable
<1>2. j.op = "disable" /\ j.pc = "teardown" /\ j.i = i /\ j.want = [portals[i] EXCEPT !.on = FALSE] /\ j.old = portals[i]
    BY DEF Idle
<1> HIDE DEF j
<1>3. QED
    BY <1>1, <1>2

\* The request that changes a portal.
LEMMA PortalUpdateIs ==
    ASSUME NEW w \in Worker, NEW i, NEW c, NEW anti, PortalUpdate(w, i, c, anti)
    PROVE  \E j : Begin(w, j) /\ UNCHANGED <<portalConf, promised>>
                  /\ j.op = "update" /\ j.pc = "teardown" /\ j.i = i /\ j.want = [cidr |-> c, on |-> portals[i].on, anti |-> anti] /\ j.old = portals[i]
<1> DEFINE j == [Idle EXCEPT !.op = "update", !.pc = "teardown", !.i = i, !.old = portals[i], !.want = [cidr |-> c, on |-> portals[i].on, anti |-> anti]]
<1>1. Begin(w, j) /\ UNCHANGED <<portalConf, promised>>
    BY DEF PortalUpdate
<1>2. j.op = "update" /\ j.pc = "teardown" /\ j.i = i /\ j.want = [cidr |-> c, on |-> portals[i].on, anti |-> anti] /\ j.old = portals[i]
    BY DEF Idle
<1> HIDE DEF j
<1>3. QED
    BY <1>1, <1>2

\* The request that deletes a portal, or only its row in the mirror.
LEMMA PortalDeleteIs ==
    ASSUME NEW w \in Worker, NEW i, PortalDelete(w, i)
    PROVE  \/ \E j : /\ Begin(w, j) /\ promised' = Without(promised, i) /\ UNCHANGED portalConf
                     /\ j.op = "delete" /\ j.pc = "teardown" /\ j.i = i /\ j.want = NoEntry
                     /\ j.old = portals[i] /\ i \in DOMAIN portals
           \/ /\ mirror' = mirror \ {i} /\ MayServe(w) /\ i \notin DOMAIN portals
              /\ UNCHANGED <<hostVars, linkConf, portals, job, lifeVars, faults, touched, promised>>
<1> DEFINE j == [Idle EXCEPT !.op = "delete", !.pc = "teardown", !.i = i, !.old = portals[i]]
<1>1. \/ Begin(w, j) /\ promised' = Without(promised, i) /\ UNCHANGED portalConf /\ i \in DOMAIN portals
      \/ /\ mirror' = mirror \ {i} /\ MayServe(w) /\ i \notin DOMAIN portals
         /\ UNCHANGED <<hostVars, linkConf, portals, job, lifeVars, faults, touched, promised>>
    BY DEF PortalDelete
<1>2. j.op = "delete" /\ j.pc = "teardown" /\ j.i = i /\ j.want = NoEntry /\ j.old = portals[i]
    BY DEF Idle
<1> HIDE DEF j
<1>3. QED
    BY <1>1, <1>2

-----------------------------------------------------------------------------
\* Settings

\* A step that leaves the entries alone keeps what was promised of them.
LEMMA SettingsFrame ==
    ASSUME SettingsInv, UNCHANGED <<portals, promised, api>>, vlans' = vlans \/ api = "up",
           NEW w \in Worker, ~(job[w].op \in PortalOps /\ job[w].pc = "mirror"),
           \A v \in Worker \ {w} : job[v] = Idle /\ job'[v] = Idle, SettingsJob(w)'
    PROVE  SettingsInv'
<1>1. \A v \in Worker : SettingsJob(v)'
    BY DEF SettingsJob, Idle, PortalOps
<1>2. \A i \in DOMAIN promised : Kept(i)
    BY DEF SettingsInv, Idle, PortalOps
<1>3. \A i \in DOMAIN promised : Kept(i)'
    BY <1>2 DEF Kept, Legacy, LegacyEntry
<1>4. QED
    BY <1>1, <1>3 DEF SettingsInv

\* So does one that leaves the requests alone as well.
LEMMA SettingsSame ==
    ASSUME SettingsInv, UNCHANGED <<portals, promised, api, vlans, job>>
    PROVE  SettingsInv'
<1>1. \A v \in Worker : SettingsJob(v)'
    BY DEF SettingsInv, SettingsJob, Entries, With, Without, Restrict
<1>2. \A i \in DOMAIN promised :
        Kept(i)' \/ \E w \in Worker : job'[w].op \in PortalOps /\ job'[w].pc = "mirror" /\ job'[w].i = i
    BY DEF SettingsInv, Kept, Legacy, LegacyEntry
<1>3. QED
    BY <1>1, <1>2 DEF SettingsInv

\* Every step keeps what was promised of portals, in the file or about to be.
LEMMA SettingsKeptOn ==
    ASSUME Careful, FilesOK, JobsOK, LifeOK, OneRequest, SettingsInv, [Next]_vars
    PROVE  SettingsInv'
<1> USE DEF lifeVars, portalConf, linkConf
<1>1. ASSUME NEW w \in Worker,
             \/ \E v \in Vlan, t \in Cidr \cup {Plain} : VLANCreate(w, v, t)
             \/ \E v \in Vlan : VLANDelete(w, v)
             \/ \E b \in Bridge : BridgeCreate(w, b)
             \/ \E b \in Bridge : BridgeDelete(w, b)
             \/ \E b \in Bridge, m \in Iface : BridgeAddMember(w, b, m)
             \/ \E b \in Bridge, m \in Iface : BridgeRemoveMember(w, b, m)
      PROVE  SettingsInv'
    <2>1. PICK j : Begin(w, j) /\ UNCHANGED <<portalConf, promised>> /\ j.op \notin PortalOps
        BY <1>1, VLANCreateIs, VLANDeleteIs, BridgeCreateIs, BridgeDeleteIs, BridgeAddMemberIs,
           BridgeRemoveMemberIs DEF PortalOps
    <2>2. SettingsJob(w)' /\ ~(job[w].op \in PortalOps /\ job[w].pc = "mirror")
        BY <2>1, BegunIs DEF SettingsJob, Idle
    <2>3. QED
        BY <2>1, <2>2, BegunIs, SettingsFrame
<1>2. ASSUME NEW w \in Worker,
             \/ \E i \in Iface, c \in Cidr, anti \in BOOLEAN : PortalCreate(w, i, c, anti)
             \/ \E i \in Iface, c \in Cidr, anti \in BOOLEAN : PortalUpdate(w, i, c, anti)
             \/ \E i \in Iface : PortalEnable(w, i)
             \/ \E i \in Iface : PortalDisable(w, i)
      PROVE  SettingsInv'
    <2>1. PICK j : /\ Begin(w, j) /\ UNCHANGED <<portalConf, promised>>
                    /\ j.op # "delete" /\ j.pc \notin {"write", "mirror"}
        BY <1>2, PortalCreateIs, PortalUpdateIs, PortalEnableIs, PortalDisableIs
    <2>2. SettingsJob(w)' /\ ~(job[w].op \in PortalOps /\ job[w].pc = "mirror")
        BY <2>1, BegunIs DEF SettingsJob, Idle
    <2>3. QED
        BY <2>1, <2>2, BegunIs, SettingsFrame
<1>3. ASSUME NEW w \in Worker, NEW i \in Iface,
             PortalDelete(w, i)
      PROVE  SettingsInv'
    <2>1. CASE mirror' = mirror \ {i} /\ UNCHANGED <<hostVars, linkConf, portals, job, lifeVars, promised>>
        BY <2>1, SettingsSame
    <2>2. CASE \E j : /\ Begin(w, j) /\ promised' = Without(promised, i) /\ portals' = portals
                      /\ j.op = "delete" /\ j.pc = "teardown" /\ j.i = i
        <3>1. PICK j : /\ Begin(w, j) /\ promised' = Without(promised, i) /\ portals' = portals
                       /\ j.op = "delete" /\ j.pc = "teardown" /\ j.i = i
            BY <2>2
        <3>2. \A k \in DOMAIN promised' : k \in DOMAIN promised /\ k # i /\ promised'[k] = promised[k]
            BY <3>1, WithoutIs
        <3>3. /\ job'[w] = j /\ UNCHANGED <<vlans, api>>
              /\ \A v \in Worker \ {w} : job'[v] = Idle /\ job[v] = Idle
              /\ job[w] = Idle
            BY <3>1, BegunIs
        <3>4. \A v \in Worker : SettingsJob(v)'
            BY <3>1, <3>2, <3>3 DEF SettingsJob, Idle, PortalOps
        <3>5. \A k \in DOMAIN promised : Kept(k)
            BY <3>3 DEF SettingsInv, Idle, PortalOps
        <3>6. \A k \in DOMAIN promised' : Kept(k)'
            BY <3>1, <3>2, <3>3, <3>5 DEF Kept, Legacy, LegacyEntry
        <3>7. QED
            BY <3>4, <3>6 DEF SettingsInv
    <2>3. QED
        BY <1>3, <2>1, <2>2, PortalDeleteIs
<1>4. ASSUME NEW w \in Worker,
             \/ VLANLink(w) \/ VLANUnlink(w) \/ BridgeLink(w) \/ BridgeUnlink(w)
             \/ BridgeEnslave(w) \/ BridgeRelease(w) \/ BridgeRow(w)
      PROVE  SettingsInv'
    <2>1. /\ job[w].op \notin PortalOps /\ job[w].op # "none" /\ UNCHANGED <<portals, promised, api, vlans>>
          /\ Answer(w) \/ \E pc : Goto(w, pc)
        BY <1>4 DEF At, VLANLink, VLANUnlink, BridgeLink, BridgeUnlink, BridgeEnslave,
           BridgeRelease, BridgeRow, PortalOps
    <2>2. SettingsJob(w)' /\ \A v \in Worker \ {w} : job[v] = Idle /\ job'[v] = Idle
        BY <2>1, GotoIs, AnswerIs DEF SettingsJob, Idle, PortalOps
    <2>3. QED
        BY <2>1, <2>2, SettingsFrame
<1>5. ASSUME NEW w \in Worker,
             VLANWrite(w)
      PROVE  SettingsInv'
    <2>1. job[w].op \notin PortalOps /\ job[w].op # "none" /\ UNCHANGED <<portals, promised, api>> /\ Answer(w)
        BY <1>5 DEF At, VLANWrite, PortalOps
    <2>2. SettingsJob(w)' /\ (\A v \in Worker \ {w} : job[v] = Idle /\ job'[v] = Idle) /\ api = "up"
        BY <2>1, AnswerIs DEF SettingsJob, Idle, PortalOps
    <2>3. QED
        BY <2>1, <2>2, SettingsFrame
<1>6. ASSUME NEW w \in Worker,
             VLANRead(w) \/ BridgeRead(w) \/ BridgeWrite(w)
      PROVE  SettingsInv'
    <2>1. UNCHANGED <<portals, promised, api, vlans>>
        BY <1>6 DEF VLANRead, BridgeRead, BridgeWrite
    <2>2. /\ job[w].op \notin PortalOps /\ job'[w].op \notin PortalOps
          /\ \A v \in Worker \ {w} : job[v] = Idle /\ job'[v] = Idle
        BY <1>6, VLANReadIs, BridgeReadIs, BridgeWriteIs DEF VlanOps, PortalOps, Idle
    <2>3. QED
        BY <2>1, <2>2, SettingsFrame DEF SettingsJob
<1>7. ASSUME NEW w \in Worker,
             Teardown(w) \/ Provision(w) \/ ProvisionFails(w)
      PROVE  SettingsInv'
    <2>1. /\ job[w].op # "none" /\ job[w].pc # "mirror" /\ UNCHANGED <<portals, promised, api, vlans>>
          /\ Answer(w) \/ \E pc \in {"provision", "read"} : Goto(w, pc)
        BY <1>7 DEF At, Teardown, Provision, ProvisionFails
    <2>2. SettingsJob(w)' /\ \A v \in Worker \ {w} : job[v] = Idle /\ job'[v] = Idle
        <3>1. job[w].op = "delete" => job[w].i \notin DOMAIN promised
            BY DEF SettingsInv, SettingsJob, PortalOps
        <3>2. QED
            BY <2>1, <3>1, GotoIs, AnswerIs DEF SettingsJob, Idle, PortalOps
    <2>3. QED
        BY <2>1, <2>2, SettingsFrame
<1>8. ASSUME NEW w \in Worker,
             PortalRead(w)
      PROVE  SettingsInv'
    <2>1. UNCHANGED <<portals, promised, api, vlans>>
        BY <1>8 DEF PortalRead
    <2>2. /\ job[w].op \in PortalOps /\ job[w].pc = "read"
          /\ job'[w].op = job[w].op /\ job'[w].pc = "write" /\ job'[w].i = job[w].i
          /\ job'[w].want = job[w].want /\ job'[w].snap = Entries(portals, job[w])
          /\ \A v \in Worker \ {w} : job[v] = Idle /\ job'[v] = Idle
        BY <1>8, PortalReadIs
    <2>3. SettingsJob(w)'
        <3>1. job[w].op = "delete" => job[w].i \notin DOMAIN promised
            BY <2>2 DEF SettingsInv, SettingsJob
        <3>2. Entries(portals, job[w]) = Entries(portals', job'[w])
            BY <2>1, <2>2 DEF Entries
        <3>3. QED
            BY <2>1, <2>2, <3>1, <3>2 DEF SettingsJob
    <2>4. QED
        BY <2>1, <2>2, <2>3, SettingsFrame
<1>9. ASSUME NEW w \in Worker,
             PortalWrite(w)
      PROVE  SettingsInv'
    <2>1. UNCHANGED <<promised, api, vlans>> /\ portals' = job[w].snap
        BY <1>9 DEF PortalWrite
    <2>2. /\ job[w].op \in PortalOps /\ job[w].pc = "write" /\ api = "up"
          /\ job'[w].op = job[w].op /\ job'[w].pc = "mirror" /\ job'[w].i = job[w].i
          /\ job'[w].want = job[w].want
          /\ \A v \in Worker \ {w} : job[v] = Idle /\ job'[v] = Idle
        BY <1>9, PortalWriteIs
    <2>3. portals' = Entries(portals, job[w]) /\ (job[w].op = "delete" => job[w].i \notin DOMAIN promised)
        BY <2>1, <2>2 DEF SettingsInv, SettingsJob
    <2>4. /\ IF job[w].op = "delete" THEN job[w].i \notin DOMAIN portals'
             ELSE job[w].i \in DOMAIN portals' /\ portals'[job[w].i] = job[w].want
          /\ \A k \in DOMAIN portals : k # job[w].i => k \in DOMAIN portals' /\ portals'[k] = portals[k]
        BY <2>3, WithIs, WithoutIs DEF Entries
    <2>5. \A v \in Worker : SettingsJob(v)'
        <3>1. SettingsJob(w)'
            BY <2>1, <2>2, <2>3, <2>4 DEF SettingsJob
        <3>2. \A v \in Worker \ {w} : SettingsJob(v)'
            BY <2>2 DEF SettingsJob, Idle, PortalOps
        <3>3. QED
            BY <3>1, <3>2
    <2>6. \A k \in DOMAIN promised : k \in DOMAIN portals /\ portals[k] = promised[k]
        BY <2>1, <2>2 DEF SettingsInv, Kept, Idle, PortalOps
    <2>7. \A k \in DOMAIN promised' : Kept(k)' \/ k = job[w].i
        BY <2>1, <2>4, <2>6 DEF Kept
    <2>8. QED
        BY <2>1, <2>2, <2>5, <2>7 DEF SettingsInv
<1>10. ASSUME NEW w \in Worker,
              PortalMirror(w)
       PROVE  SettingsInv'
    <2>1. /\ job[w].op \in PortalOps /\ job[w].op # "none" /\ job[w].pc = "mirror"
          /\ UNCHANGED <<portals, api, vlans>> /\ Answer(w)
          /\ promised' = IF job[w].op = "delete" THEN promised ELSE With(promised, job[w].i, job[w].want)
        BY <1>10 DEF At, PortalMirror, PortalOps
    <2>2. (\A v \in Worker : job'[v] = Idle) /\ api = "up" /\ \A v \in Worker \ {w} : job[v] = Idle
        BY <2>1, AnswerIs
    <2>3. /\ job[w].op = "delete" => job[w].i \notin DOMAIN promised
          /\ job[w].op # "delete" => job[w].i \in DOMAIN portals /\ portals[job[w].i] = job[w].want
        BY <2>1 DEF SettingsInv, SettingsJob
    <2>4. \A v \in Worker : SettingsJob(v)'
        BY <2>2 DEF SettingsJob, Idle, PortalOps
    <2>5. \A k \in DOMAIN promised : k # job[w].i => k \in DOMAIN portals /\ portals[k] = promised[k]
        BY <2>2 DEF SettingsInv, Kept, Idle, PortalOps
    <2>6. \A k \in DOMAIN promised' : k \in DOMAIN portals /\ portals[k] = promised'[k]
        BY <2>1, <2>3, <2>5, WithIs
    <2>7. QED
        BY <2>1, <2>4, <2>6 DEF SettingsInv, Kept
<1>11. ASSUME NEW w \in Worker,
              VLANList(w) \/ BridgeList(w) \/ PortalList(w)
       PROVE  SettingsInv'
    BY <1>11, SettingsSame DEF VLANList, BridgeList, PortalList
<1>12. CASE BootScript
    BY <1>12, SettingsSame DEF BootScript
<1>13. CASE ApiBoot
    <2>1. /\ portals' = Final /\ promised' = promised /\ job' = job /\ api # "up"
        BY <1>13 DEF ApiBoot, Final
    <2>2. \A v \in Worker : job[v] = Idle
        BY <2>1 DEF OneRequest
    <2>3. \A v \in Worker : SettingsJob(v)'
        BY <2>1, <2>2 DEF SettingsJob, Idle, PortalOps
    <2>4. \A k \in DOMAIN promised : Kept(k)
        BY <2>2 DEF SettingsInv, Idle, PortalOps
    <2>5. \A k \in DOMAIN promised : k \in DOMAIN portals' /\ portals'[k] = promised'[k]
        BY <2>1, <2>4, MigratedConf DEF Kept
    <2>6. QED
        BY <2>1, <2>3, <2>5 DEF SettingsInv, Kept
<1>14. CASE ApiCrash \/ PowerCut
    <2>1. /\ \A v \in Worker : job'[v] = Idle
          /\ UNCHANGED <<vlans, portals>> /\ api' = "boot"
          /\ promised' = Restrict(promised, DOMAIN promised \ Interrupted)
        BY <1>14 DEF ApiCrash, PowerCut, Cut
    <2>2. /\ DOMAIN promised' = DOMAIN promised \ Interrupted
          /\ \A k \in DOMAIN promised' : promised'[k] = promised[k]
        BY <2>1, RestrictConf DEF FilesOK, PortalConf
    <2>3. \A v \in Worker : SettingsJob(v)'
        BY <2>1 DEF SettingsJob, Idle, PortalOps
    <2>4. \A v \in Worker : job[v].op \in PortalOps => job[v].i \in Interrupted
        BY JobIs DEF Interrupted, Concerns
    <2>5. \A k \in DOMAIN promised' : Kept(k)
        BY <2>2, <2>4 DEF SettingsInv
    <2>6. \A k \in DOMAIN promised' : Kept(k)'
        BY <2>1, <2>2, <2>5 DEF Kept, Legacy, LegacyEntry
    <2>7. QED
        BY <2>3, <2>6 DEF SettingsInv
<1>15. ASSUME NEW n \in Nic,
              Unplug(n)
       PROVE  SettingsInv'
    BY <1>15, SettingsSame DEF Unplug
<1>16. ASSUME NEW n \in Nic,
              Plug(n)
       PROVE  SettingsInv'
    BY <1>16, SettingsSame DEF Plug
<1>17. CASE UNCHANGED vars
    BY <1>17, SettingsSame DEF vars
<1>18. QED
    BY <1>1, <1>2, <1>3, <1>4, <1>5, <1>6, <1>7, <1>8, <1>9, <1>10, <1>11, <1>12, <1>13,
       <1>14, <1>15, <1>16, <1>17
    DEF Next, LinkRequest, LinkStep, PortalRequest, PortalStep

\* What is promised at first is what the old format has.
LEMMA InitSettings ==
    ASSUME Init
    PROVE  OneRequest /\ SettingsInv
<1>1. \A w \in Worker : job[w] = Idle
    BY DEF Init
<1>2. OneRequest /\ \A w \in Worker : SettingsJob(w)
    BY <1>1 DEF OneRequest, SettingsJob, Idle, PortalOps
<1>3. \A i \in DOMAIN promised : i \in Legacy(vlans) /\ promised[i] = LegacyEntry(i)
    BY NetAssumption DEF Init, Legacy, LegacyEntry, Restrict
<1>4. portals = <<>> /\ api = "boot"
    BY DEF Init
<1>5. \A i \in DOMAIN promised : i \notin DOMAIN portals
    BY <1>4
<1>6. QED
    BY <1>2, <1>3, <1>4, <1>5 DEF SettingsInv, Kept

\* When the operator lets one request end before the next, what the last answer
\* confirmed of a portal stays in portals.conf, whatever fails and whenever the device
\* or the API goes down, and the portal of a device upgraded from the old format is
\* among it (writePortalConfigEntry, removePortalConfigEntry, MigrateLegacyPortalConfig).
THEOREM SettingsSurvive == ASSUME Careful PROVE Spec => []SettingsKept
<1> DEFINE Inv == TypeInv /\ OneRequest /\ SettingsInv
<1>1. Init => Inv
    BY InitTypes, InitSettings
<1>2. Inv /\ [Next]_vars => Inv'
    BY TypesKept, OneKept, SettingsKeptOn DEF TypeInv
<1>3. Inv => SettingsKept
    BY DEF SettingsInv, SettingsKept, Settled, Quiet, Kept, Idle, PortalOps
<1>4. QED
    BY <1>1, <1>2, <1>3, PTL DEF Spec

-----------------------------------------------------------------------------
\* VLANs, bridges and members: what the requests are between kernel and files

\* Nothing is between kernel and files before a request has changed the kernel.
LEMMA NoLinkJobs ==
    ASSUME NEW w \in Worker, \A u \in Worker \ {w} : job[u] = Idle,
           job[w].op \notin VlanOps \cup BridgeOps \/ job[w].pc \in {"link", "unlink"}
    PROVE  \A i, b : ~VlanJob(i) /\ ~BridgeJob(i) /\ ~MemberJob(i, b)
    BY DEF VlanJob, BridgeJob, MemberJob, VlanOps, BridgeOps, Idle

\* Nothing is between kernel and files while nothing is under way.
LEMMA QuietLinkJobs ==
    ASSUME \A u \in Worker : job[u] = Idle
    PROVE  \A i, b : ~VlanJob(i) /\ ~BridgeJob(i) /\ ~MemberJob(i, b)
    BY DEF VlanJob, BridgeJob, MemberJob, VlanOps, Idle

\* The request goes on between kernel and files.
LEMMA LinkJobsStay ==
    ASSUME NEW w \in Worker, \A u \in Worker \ {w} : job[u] = Idle,
           job'[w].op = job[w].op, job'[w].i = job[w].i, job'[w].arg = job[w].arg,
           job'[w].pc \in {"read", "write"}
    PROVE  \A i, b : /\ VlanJob(i) => VlanJob(i)'
                     /\ BridgeJob(i) => BridgeJob(i)'
                     /\ MemberJob(i, b) => MemberJob(i, b)'
    BY DEF VlanJob, BridgeJob, MemberJob, VlanOps, Idle

\* What the one request has done is all there is to know of the requests.
LEMMA IdleLinksJob ==
    ASSUME NEW w \in Worker, \A u \in Worker \ {w} : job'[u] = Idle, LinksJob(w)'
    PROVE  LinkJobsInv'
    BY DEF LinkJobsInv, LinksJob, Idle, PortalOps

\* Nothing is to know of the requests while there is none.
LEMMA IdleLinkJobs ==
    ASSUME \A u \in Worker : job'[u] = Idle
    PROVE  LinkJobsInv'
    BY DEF LinkJobsInv, LinksJob, Idle, PortalOps

\* Saved members and rows stay with file and table.
LEMMA SavedStays ==
    ASSUME bridges' = bridges, rows' = rows
    PROVE  \A b : Saved(b)' = Saved(b) /\ Rowed(b)' = Rowed(b)
    BY DEF Saved, Rowed

\* The files stay, and what changes in the kernel is touched or a request's own.
LEMMA NetStays ==
    ASSUME NetInv, UNCHANGED <<vlans, bridges, rows, portals, script>>, api' \in {api, "boot"},
           touched \subseteq touched',
           \A i \in Iface \ touched' :
              \/ i \in kernel' <=> i \in kernel
              \/ i \in Vlan /\ VlanJob(i)'
              \/ i \in Bridge /\ BridgeJob(i)',
           \A i \in Iface \ touched', b \in Bridge : (master'[i] = b <=> master[i] = b) \/ MemberJob(i, b)',
           \A i \in (DOMAIN portals \cup Legacy(vlans)) \ touched' : master[i] = None => master'[i] = None,
           \A i \in Iface \ touched' : (VlanJob(i) => VlanJob(i)') /\ (BridgeJob(i) => BridgeJob(i)'),
           \A i \in Iface \ touched', b \in Bridge : MemberJob(i, b) => MemberJob(i, b)',
           BareInv', LinkJobsInv'
    PROVE  NetInv'
<1> USE Sets DEF NetInv
<1>1. NicsInv'
    BY DEF NicsInv
<1>2. VlansInv'
    BY DEF VlansInv, VlanAgrees
<1>3. BridgesInv'
    BY DEF BridgesInv, BridgeAgrees
<1>4. MastersInv'
    BY SavedStays DEF MastersInv, MemberAgrees
<1>5. RowsInv'
    BY SavedStays DEF RowsInv, RowAgrees
<1>6. OwnersInv'
    BY SavedStays DEF OwnersInv
<1>7. FreeInv'
    BY SavedStays DEF FreeInv, Legacy
<1>8. LegacyInv'
    BY DEF LegacyInv, Legacy
<1>9. QED
    BY <1>1, <1>2, <1>3, <1>4, <1>5, <1>6, <1>7, <1>8

\* Only requests change.
LEMMA NetJobs ==
    ASSUME NetInv, UNCHANGED <<kernel, master, vlans, bridges, rows, portals, script, api>>,
           touched \subseteq touched',
           \A i, b : /\ VlanJob(i) => VlanJob(i)'
                     /\ BridgeJob(i) => BridgeJob(i)'
                     /\ MemberJob(i, b) => MemberJob(i, b)',
           LinkJobsInv'
    PROVE  NetInv'
    BY NetStays DEF NetInv, BareInv

\* Where nothing is between kernel and files, they agree.
LEMMA Agreed ==
    ASSUME NetInv, ~script, \A i, b : ~VlanJob(i) /\ ~BridgeJob(i) /\ ~MemberJob(i, b)
    PROVE  /\ \A v \in Vlan \ touched : v \in DOMAIN vlans <=> v \in kernel
           /\ \A b \in Bridge \ touched : /\ b \in DOMAIN bridges <=> b \in DOMAIN rows
                                          /\ b \in DOMAIN bridges <=> b \in kernel
           /\ \A i \in Iface \ touched, b \in Bridge : i \in Saved(b) <=> master[i] = b
           /\ \A i \in Iface \ touched, b \in Bridge \ touched : i \in Rowed(b) <=> i \in Saved(b)
    BY DEF NetInv, VlansInv, BridgesInv, MastersInv, RowsInv, VlanAgrees, BridgeAgrees, MemberAgrees, RowAgrees

\* A request begins, and nothing else changes.
LEMMA NetBegun ==
    ASSUME Careful, JobsOK, NetInv, NEW w \in Worker, NEW j, Begin(w, j), portals' = portals, LinksJob(w)'
    PROVE  NetInv'
<1>1. /\ \A u \in Worker : job[u] = Idle
      /\ \A u \in Worker \ {w} : job'[u] = Idle
      /\ UNCHANGED <<kernel, master, vlans, bridges, rows, script, api, touched>>
    BY BegunIs DEF hostVars, linkConf, lifeVars
<1>2. LinkJobsInv'
    BY <1>1, IdleLinksJob
<1>3. QED
    BY <1>1, <1>2, QuietLinkJobs, NetJobs

\* What holds when a request begins.
LEMMA BegunAgreed ==
    ASSUME Careful, JobsOK, NetInv, NEW w \in Worker, NEW j, Begin(w, j)
    PROVE  /\ \A b \in Bridge \ touched : b \in DOMAIN bridges <=> b \in kernel
           /\ \A i \in Iface \ touched, b \in Bridge : i \in Saved(b) <=> master[i] = b
           /\ Legacy(vlans) = {}
<1>1. ~script /\ api = "up" /\ \A u \in Worker : job[u] = Idle
    BY BegunIs
<1>2. Legacy(vlans) = {}
    BY <1>1 DEF NetInv, LegacyInv
<1>3. QED
    BY <1>1, <1>2, QuietLinkJobs, Agreed

\* What a request has done stays done when others than its interfaces change.
LEMMA SameLinkJobs ==
    ASSUME JobsOK, NetInv, UNCHANGED <<vlans, bridges, rows, portals, job>>, touched \subseteq touched',
           \A i \in Iface \ touched' : (i \in kernel' <=> i \in kernel) /\ master'[i] = master[i],
           \A i \in Iface : master'[i] \in {master[i], None}
    PROVE  LinkJobsInv'
<1>1. /\ \A b : Saved(b)' = Saved(b) /\ Rowed(b)' = Rowed(b)
      /\ \A b \in Bridge : Members(b)' \subseteq Members(b)
    BY Sets DEF Saved, Rowed, Members
<1>2. ASSUME NEW w \in Worker
      PROVE  LinksJob(w)'
    <2>1. LinksJob(w) /\ job'[w] = job[w]
        BY DEF NetInv, LinkJobsInv
    <2>2. \A i \in Iface : \A m : VlanMade(w, i, m) => VlanMade(w, i, m)'
        BY <1>1 DEF VlanMade, Legacy
    <2>3. \A i \in Iface : VlanGone(w, i) => VlanGone(w, i)'
        BY <1>1 DEF VlanGone, Legacy
    <2>4. \A i \in Bridge : BridgeMade(w, i) => BridgeMade(w, i)'
        BY <1>1, Sets DEF BridgeMade
    <2>5. \A i \in Bridge : BridgeGone(w, i) => BridgeGone(w, i)'
        BY <1>1, Sets DEF BridgeGone
    <2>6. \A i, m \in Iface : MemberMoved(w, i, m) => MemberMoved(w, i, m)'
        BY <1>1 DEF MemberMoved
    <2>7. \A i \in Iface : PortalAlone(i) => PortalAlone(i)'
        BY <1>1 DEF PortalAlone
    <2>8. /\ job[w].op \in VlanOps \cup BridgeOps \cup PortalOps => job[w].i \in Iface
          /\ job[w].op \in BridgeOps => job[w].i \in Bridge
          /\ job[w].op \in {"member+", "member-"} => job[w].arg \in Iface
        BY Sets DEF JobsOK, JobOK, BridgeOps
    <2>9. QED
        BY <2>1, <2>2, <2>3, <2>4, <2>5, <2>6, <2>7, <2>8 DEF LinksJob, VlanOps, BridgeOps
<1>3. QED
    BY <1>2 DEF LinkJobsInv

\* A step beside kernel, masters, files and requests keeps what they agree on.
LEMMA NetSame ==
    ASSUME JobsOK, NetInv, UNCHANGED <<hostVars, linkConf, portals, job, lifeVars>>, touched \subseteq touched'
    PROVE  NetInv'
<1>1. UNCHANGED <<kernel, master, vlans, bridges, rows, portals, job, script, api>>
    BY DEF hostVars, linkConf, lifeVars
<1>2. \A i, b : /\ VlanJob(i) => VlanJob(i)'
                /\ BridgeJob(i) => BridgeJob(i)'
                /\ MemberJob(i, b) => MemberJob(i, b)'
    BY <1>1 DEF VlanJob, BridgeJob, MemberJob
<1>3. \A i \in Iface : master'[i] \in {master[i], None}
    BY <1>1
<1>4. LinkJobsInv'
    BY <1>1, <1>3, SameLinkJobs
<1>5. QED
    BY <1>1, <1>2, <1>4, NetJobs

\* A request to create a VLAN begins.
LEMMA NetVLANCreate ==
    ASSUME Careful, JobsOK, NetInv, NEW w \in Worker, NEW v \in Vlan, NEW t, VLANCreate(w, v, t)
    PROVE  NetInv'
<1>1. PICK j : /\ Begin(w, j) /\ UNCHANGED <<portalConf, promised>>
               /\ j.op = "vlan+" /\ j.pc = "link" /\ j.i = v /\ j.arg = t
    BY VLANCreateIs
<1>2. job'[w] = j /\ t = Plain
    BY <1>1, BegunIs DEF VLANCreate
<1>3. LinksJob(w)'
    BY <1>1, <1>2 DEF LinksJob, PortalOps, VlanMade
<1>4. QED
    BY <1>1, <1>3, NetBegun DEF portalConf

\* A request to delete a VLAN begins, on one that is no member.
LEMMA NetVLANDelete ==
    ASSUME Careful, JobsOK, NetInv, NEW w \in Worker, NEW v \in Vlan, VLANDelete(w, v)
    PROVE  NetInv'
<1>1. PICK j : /\ Begin(w, j) /\ UNCHANGED <<portalConf, promised>>
               /\ j.op = "vlan-" /\ j.pc = "unlink" /\ j.i = v
    BY VLANDeleteIs
<1>2. /\ job'[w] = j /\ UNCHANGED <<touched, portals, bridges>>
    BY <1>1, BegunIs DEF linkConf, portalConf
<1>3. v \notin DOMAIN portals /\ master[v] = None
    BY DEF VLANDelete, PortalAttached
<1>4. v \notin touched => \A b \in Bridge : v \notin Saved(b)
    BY <1>1, <1>3, BegunAgreed, Sets
<1>5. \A b : Saved(b)' = Saved(b)
    BY <1>2 DEF Saved
<1>6. LinksJob(w)'
    BY <1>1, <1>2, <1>3, <1>4, <1>5 DEF LinksJob, PortalOps, VlanGone
<1>7. QED
    BY <1>1, <1>6, NetBegun DEF portalConf

\* A request to create or delete a bridge begins, on one without members.
LEMMA NetBridgeCreate ==
    ASSUME Careful, HostOK, JobsOK, NetInv, NEW w \in Worker, NEW b \in Bridge,
           BridgeCreate(w, b) \/ BridgeDelete(w, b)
    PROVE  NetInv'
<1>1. PICK j : /\ Begin(w, j) /\ UNCHANGED <<portalConf, promised>> /\ j.i = b
               /\ \/ j.op = "bridge+" /\ j.pc = "link"
                  \/ j.op = "bridge-" /\ j.pc = "unlink" /\ b \notin DOMAIN portals
    <2>1. CASE BridgeCreate(w, b)
        BY <2>1, BridgeCreateIs
    <2>2. CASE BridgeDelete(w, b)
        <3>1. b \notin DOMAIN portals
            BY <2>2 DEF BridgeDelete, PortalAttached
        <3>2. QED
            BY <2>2, <3>1, BridgeDeleteIs
    <2>3. QED
        BY <2>1, <2>2
<1>2. job'[w] = j /\ UNCHANGED <<master, portals>>
    BY <1>1, BegunIs DEF hostVars, portalConf
<1>3. Members(b) = {}
    <2>1. CASE b \notin kernel
        BY <2>1, Sets DEF Members, HostOK
    <2>2. CASE BridgeDelete(w, b)
        BY <2>2 DEF BridgeDelete
    <2>3. QED
        BY <2>1, <2>2 DEF BridgeCreate
<1>4. Members(b)' = {}
    BY <1>2, <1>3 DEF Members
<1>5. LinksJob(w)'
    BY <1>1, <1>2, <1>4 DEF LinksJob, PortalOps, BridgeMade, BridgeGone
<1>6. QED
    BY <1>1, <1>5, NetBegun DEF portalConf

\* A request to add or remove a member begins.
LEMMA NetBridgeMember ==
    ASSUME Careful, HostOK, JobsOK, NetInv, NEW w \in Worker, NEW b \in Bridge, NEW m \in Iface,
           BridgeAddMember(w, b, m) \/ BridgeRemoveMember(w, b, m)
    PROVE  NetInv'
<1>1. PICK j : /\ Begin(w, j) /\ UNCHANGED <<portalConf, promised>>
               /\ j.op \in {"member+", "member-"} /\ j.pc = "link" /\ j.i = b /\ j.arg = m
               /\ j.op = "member+" => b \in kernel /\ m \notin DOMAIN portals
               /\ j.op = "member-" => b \in DOMAIN bridges
               /\ master[m] \in {b, None}
    <2>1. CASE BridgeAddMember(w, b, m)
        <3>1. b \in kernel /\ m \notin DOMAIN portals /\ master[m] = None
            BY <2>1 DEF BridgeAddMember, PortalAttached
        <3>2. QED
            BY <2>1, <3>1, BridgeAddMemberIs
    <2>2. CASE BridgeRemoveMember(w, b, m)
        <3>1. b \in DOMAIN bridges /\ master[m] \in {b, None}
            BY <2>2 DEF BridgeRemoveMember
        <3>2. QED
            BY <2>2, <3>1, BridgeRemoveMemberIs
    <2>3. QED
        BY <2>1, <2>2
<1>2. job'[w] = j /\ UNCHANGED <<kernel, master, portals, touched>>
    BY <1>1, BegunIs DEF hostVars, portalConf
<1>3. b \notin touched => b \in kernel
    BY <1>1, BegunAgreed
<1>4. LinksJob(w)'
    BY <1>1, <1>2, <1>3 DEF LinksJob, PortalOps, MemberMoved
<1>5. QED
    BY <1>1, <1>4, NetBegun DEF portalConf

\* A request on a portal begins, on an interface that is no member.
LEMMA NetPortalBegun ==
    ASSUME Careful, HostOK, FilesOK, JobsOK, NetInv, NEW w \in Worker, NEW i \in Iface,
           \/ \E c \in Cidr, anti \in BOOLEAN : PortalCreate(w, i, c, anti) \/ PortalUpdate(w, i, c, anti)
           \/ PortalEnable(w, i) \/ PortalDisable(w, i)
    PROVE  NetInv'
<1>1. PICK j : /\ Begin(w, j) /\ UNCHANGED <<portalConf, promised>>
               /\ j.op \in {"create", "enable", "disable", "update"} /\ j.i = i
    <2>1. ASSUME NEW c \in Cidr, NEW anti \in BOOLEAN, PortalCreate(w, i, c, anti)
          PROVE  \E j : Begin(w, j) /\ UNCHANGED <<portalConf, promised>> /\ j.op = "create" /\ j.i = i
        <3>1. PICK j : /\ Begin(w, j) /\ UNCHANGED <<portalConf, promised>>
                       /\ j.op = "create" /\ j.pc = "provision" /\ j.i = i
                       /\ j.want = [cidr |-> c, on |-> TRUE, anti |-> anti] /\ j.old = NoEntry
            BY <2>1, PortalCreateIs
        <3>2. QED
            BY <3>1
    <2>2. ASSUME NEW c \in Cidr, NEW anti \in BOOLEAN, PortalUpdate(w, i, c, anti)
          PROVE  \E j : Begin(w, j) /\ UNCHANGED <<portalConf, promised>> /\ j.op = "update" /\ j.i = i
        <3>1. PICK j : /\ Begin(w, j) /\ UNCHANGED <<portalConf, promised>>
                       /\ j.op = "update" /\ j.pc = "teardown" /\ j.i = i
                       /\ j.want = [cidr |-> c, on |-> portals[i].on, anti |-> anti] /\ j.old = portals[i]
            BY <2>2, PortalUpdateIs
        <3>2. QED
            BY <3>1
    <2>3. CASE PortalEnable(w, i)
        <3>1. PICK j : /\ Begin(w, j) /\ UNCHANGED <<portalConf, promised>>
                       /\ j.op = "enable" /\ j.pc = "provision" /\ j.i = i
                       /\ j.want = [portals[i] EXCEPT !.on = TRUE] /\ j.old = NoEntry
            BY <2>3, PortalEnableIs
        <3>2. QED
            BY <3>1
    <2>4. CASE PortalDisable(w, i)
        <3>1. PICK j : /\ Begin(w, j) /\ UNCHANGED <<portalConf, promised>>
                       /\ j.op = "disable" /\ j.pc = "teardown" /\ j.i = i
                       /\ j.want = [portals[i] EXCEPT !.on = FALSE] /\ j.old = portals[i]
            BY <2>4, PortalDisableIs
        <3>2. QED
            BY <3>1
    <2>5. QED
        BY <2>1, <2>2, <2>3, <2>4
<1>2. job'[w] = j /\ UNCHANGED <<master, bridges, touched>>
    BY <1>1, BegunIs DEF hostVars, linkConf
<1>3. master[i] = None \/ i \in DOMAIN portals
    BY DEF PortalCreate, PortalUpdate, PortalEnable, PortalDisable
<1>4. i \notin touched => master[i] = None /\ \A b \in Bridge : i \notin Saved(b)
    <2>1. CASE i \in DOMAIN portals
        BY <2>1 DEF NetInv, FreeInv
    <2>2. CASE master[i] = None
        BY <1>1, <2>2, BegunAgreed, Sets
    <2>3. QED
        BY <1>3, <2>1, <2>2
<1>5. \A b : Saved(b)' = Saved(b)
    BY <1>2 DEF Saved
<1>6. LinksJob(w)'
    BY <1>1, <1>2, <1>4, <1>5 DEF LinksJob, PortalOps, PortalAlone
<1>7. QED
    BY <1>1, <1>6, NetBegun DEF portalConf

\* A request to delete a portal begins, or drops a row of the mirror.
LEMMA NetPortalDelete ==
    ASSUME Careful, JobsOK, NetInv, NEW w \in Worker, NEW i, PortalDelete(w, i)
    PROVE  NetInv'
<1>1. CASE \E j : Begin(w, j) /\ UNCHANGED portalConf /\ j.op = "delete"
    <2>1. PICK j : Begin(w, j) /\ UNCHANGED portalConf /\ j.op = "delete"
        BY <1>1
    <2>2. job'[w] = j
        BY <2>1, BegunIs
    <2>3. LinksJob(w)'
        BY <2>1, <2>2 DEF LinksJob, PortalOps
    <2>4. QED
        BY <2>1, <2>3, NetBegun DEF portalConf
<1>2. CASE UNCHANGED <<hostVars, linkConf, portals, job, lifeVars, touched>>
    BY <1>2, NetSame
<1>3. QED
    BY <1>1, <1>2, PortalDeleteIs

\* A request moves one step on, files as they were, before it has changed any or beside them.
LEMMA NetMoves ==
    ASSUME NetInv, FilesOK, JobsOK, OneRequest, NEW w \in Worker, job[w].op # "none",
           job[w].pc \in {"link", "unlink"} \/ job[w].op \in PortalOps,
           NEW j, job' = [job EXCEPT ![w] = j],
           UNCHANGED <<vlans, bridges, rows, portals, script, api>>, touched \subseteq touched',
           \A i \in Iface \ touched' :
              \/ i \in kernel' <=> i \in kernel
              \/ i \in Vlan /\ VlanJob(i)'
              \/ i \in Bridge /\ BridgeJob(i)',
           \A i \in Iface \ touched', b \in Bridge : (master'[i] = b <=> master[i] = b) \/ MemberJob(i, b)',
           \A i \in Iface \ touched' : i \in DOMAIN portals /\ master[i] = None => master'[i] = None,
           LinksJob(w)'
    PROVE  NetInv'
<1>1. /\ \A u \in Worker \ {w} : job[u] = Idle /\ job'[u] = Idle
      /\ api = "up" /\ ~script
    BY StepIs
<1>2. \A i, b : ~VlanJob(i) /\ ~BridgeJob(i) /\ ~MemberJob(i, b)
    BY <1>1, NoLinkJobs DEF PortalOps, VlanOps, BridgeOps
<1>3. LinkJobsInv'
    BY <1>1, IdleLinksJob
<1>4. BareInv'
    BY <1>1 DEF BareInv
<1>5. Legacy(vlans) = {}
    BY <1>1 DEF NetInv, LegacyInv
<1>6. DOMAIN portals \subseteq Iface
    BY ConfIs DEF FilesOK, PortalConf
<1>7. \A i \in (DOMAIN portals \cup Legacy(vlans)) \ touched' : master[i] = None => master'[i] = None
    BY <1>5, <1>6
<1>8. QED
    BY <1>1, <1>2, <1>3, <1>4, <1>7, NetStays

\* An idle request has nothing in hand.
LEMMA IdleLinks ==
    ASSUME NEW w \in Worker, job'[w] = Idle
    PROVE  LinksJob(w)'
    BY DEF LinksJob, Idle, PortalOps

\* Nothing but the history changes when a request is answered.
LEMMA NetAnswered ==
    ASSUME NetInv, FilesOK, JobsOK, OneRequest, NEW w \in Worker, job[w].op # "none",
           job[w].pc \in {"link", "unlink"} \/ job[w].op \in PortalOps, Answer(w),
           UNCHANGED <<kernel, master, vlans, bridges, rows, portals, script, api>>, touched \subseteq touched'
    PROVE  NetInv'
<1>1. LinksJob(w)'
    BY AnswerIs, IdleLinks
<1>2. QED
    BY <1>1, NetMoves DEF Answer

\* What disappears is no bridge, so no one else loses its master.
LEMMA VanishAlone ==
    ASSUME HostOK, NEW i \in Iface \ Bridge, Vanish(i)
    PROVE  /\ kernel' = kernel \ {i}
           /\ \A k \in Iface : master'[k] = IF k = i THEN None ELSE master[k]
<1>1. \A k \in Iface : master[k] # i
    BY Sets DEF HostOK
<1>2. /\ kernel' = kernel \ {i}
      /\ \A k \in Iface : master'[k] = IF k = i \/ master[k] = i THEN None ELSE master[k]
    BY VanishIs
<1>3. QED
    BY <1>1, <1>2

\* A VLAN is added to the kernel, or fails and is touched.
LEMMA NetVLANLink ==
    ASSUME HostOK, FilesOK, JobsOK, OneRequest, NetInv, NEW w \in Worker, VLANLink(w)
    PROVE  NetInv'
<1>0. PICK v : v = job[w].i
    OBVIOUS
<1>1. /\ job[w].op = "vlan+" /\ job[w].pc = "link" /\ v \in Vlan /\ v \in Iface \ Bridge
      /\ UNCHANGED <<vlans, bridges, rows, portals, script, api>>
    BY <1>0, Sets DEF VLANLink, At, JobsOK, JobOK, VlanOps, linkConf, portalConf, lifeVars
<1>2. job[w].arg = Plain
    BY <1>1 DEF NetInv, LinkJobsInv, LinksJob, VlanMade
<1>3. CASE kernel' = kernel \cup {v} /\ Goto(w, "read") /\ NoFault /\ UNCHANGED master
    <2>1. /\ job'[w].op = "vlan+" /\ job'[w].pc = "read" /\ job'[w].i = v /\ job'[w].arg = Plain
        BY <1>1, <1>2, <1>3, <1>0, GotoIs
    <2>2. LinksJob(w)'
        BY <1>3, <2>1 DEF LinksJob, VlanMade, PortalOps
    <2>3. VlanJob(v)'
        BY <2>1 DEF VlanJob, VlanOps
    <2>4. QED
        BY <1>1, <1>3, <2>2, <2>3, NetMoves DEF Goto, NoFault
<1>4. CASE Fault({v}) /\ Answer(w) /\ UNCHANGED hostVars
    BY <1>1, <1>4, NetAnswered DEF Fault, hostVars
<1>5. CASE Fault({v}) /\ Vanish(v) /\ Answer(w)
    <2>1. LinksJob(w)'
        BY <1>1, <1>5, AnswerIs, IdleLinks
    <2>2. touched' = touched \cup {v}
        BY <1>5 DEF Fault
    <2>3. /\ kernel' = kernel \ {v}
          /\ \A k \in Iface : master'[k] = IF k = v THEN None ELSE master[k]
        BY <1>1, <1>5, VanishAlone
    <2>4. /\ \A i \in Iface \ touched' : i \in kernel' <=> i \in kernel
          /\ \A i \in Iface \ touched' : master'[i] = master[i]
        BY <2>2, <2>3
    <2>5. QED
        BY <1>1, <1>5, <2>1, <2>2, <2>4, NetMoves DEF Answer
<1>6. QED
    BY <1>0, <1>3, <1>4, <1>5 DEF VLANLink

\* A VLAN is deleted from the kernel, or fails and is touched.
LEMMA NetVLANUnlink ==
    ASSUME HostOK, FilesOK, JobsOK, OneRequest, NetInv, NEW w \in Worker, VLANUnlink(w)
    PROVE  NetInv'
<1>0. PICK v : v = job[w].i
    OBVIOUS
<1>1. /\ job[w].op = "vlan-" /\ job[w].pc = "unlink" /\ v \in Vlan /\ v \in Iface \ Bridge
      /\ UNCHANGED <<vlans, bridges, rows, portals, script, api>>
    BY <1>0, Sets DEF VLANUnlink, At, JobsOK, JobOK, VlanOps, linkConf, portalConf, lifeVars
<1>2. v \notin touched => v \notin DOMAIN portals /\ \A b \in Bridge : v \notin Saved(b)
    BY <1>0, <1>1 DEF NetInv, LinkJobsInv, LinksJob, VlanGone
<1>3. v \notin touched => \A b \in Bridge : master[v] # b
    <2>1. /\ \A u \in Worker \ {w} : job[u] = Idle
          /\ api = "up" /\ ~script
        BY <1>1, Alone
    <2>2. \A i, b : ~VlanJob(i) /\ ~BridgeJob(i) /\ ~MemberJob(i, b)
        BY <1>1, <2>1, NoLinkJobs
    <2>3. QED
        BY <1>1, <1>2, <2>1, <2>2, Agreed
<1>4. CASE Fault({v}) /\ Answer(w) /\ UNCHANGED hostVars
    BY <1>1, <1>4, NetAnswered DEF Fault, hostVars
<1>5. CASE (IF v \in kernel THEN Vanish(v) ELSE UNCHANGED hostVars) /\ Goto(w, "read") /\ NoFault
    <2>1. /\ job'[w].op = "vlan-" /\ job'[w].pc = "read" /\ job'[w].i = v
        BY <1>1, <1>5, <1>0, GotoIs
    <2>2. /\ kernel' = kernel \ {v} /\ touched' = touched
          /\ \A k \in Iface : master'[k] = IF k = v /\ v \in kernel THEN None ELSE master[k]
        <3>1. CASE v \in kernel
            BY <1>1, <1>5, <3>1, VanishAlone DEF NoFault
        <3>2. CASE v \notin kernel
            BY <1>5, <3>2 DEF NoFault, hostVars
        <3>3. QED
            BY <3>1, <3>2
    <2>3. VlanJob(v)'
        BY <2>1 DEF VlanJob, VlanOps
    <2>4. \A b : Saved(b)' = Saved(b)
        BY <1>1 DEF Saved
    <2>5. LinksJob(w)'
        BY <1>1, <1>2, <2>1, <2>2, <2>4 DEF LinksJob, VlanGone, PortalOps
    <2>6. \A i \in Iface \ touched', b \in Bridge : master'[i] = b <=> master[i] = b
        BY <1>3, <2>2, Sets
    <2>7. \A i \in Iface \ touched' : \/ i \in kernel' <=> i \in kernel
                                      \/ i \in Vlan /\ VlanJob(i)'
        BY <1>1, <2>2, <2>3
    <2>8. \A i \in Iface : master[i] = None => master'[i] = None
        BY <2>2
    <2>9. QED
        BY <1>1, <1>5, <2>2, <2>5, <2>6, <2>7, <2>8, NetMoves DEF Goto
<1>6. QED
    BY <1>0, <1>4, <1>5 DEF VLANUnlink

\* The file that will be written has no line of the old format.
LEMMA VlanFileIs ==
    ASSUME FilesOK, NEW w \in Worker, job[w].op = "vlan+" => job[w].arg = Plain
    PROVE  /\ Legacy(VlanFile(job[w])) = {}
           /\ DOMAIN VlanFile(job[w]) = IF job[w].op = "vlan+" THEN DOMAIN vlans \cup {job[w].i}
                                        ELSE DOMAIN vlans \ {job[w].i}
<1>0. PICK v : v = job[w].i
    OBVIOUS
<1> DEFINE f == Rewritten(vlans)
           rest == Without(f, v)
<1>1. f \in VlanConf /\ DOMAIN f = DOMAIN vlans /\ Legacy(f) = {}
    BY RewrittenConf DEF FilesOK
<1>2. VlanFile(job[w]) = IF job[w].op = "vlan+" THEN With(rest, v, job[w].arg) ELSE rest
    BY <1>0 DEF VlanFile
<1> HIDE DEF f
<1>3. /\ DOMAIN rest = DOMAIN vlans \ {v}
      /\ \A z \in DOMAIN rest : rest[z] = f[z]
    BY <1>1, WithoutConf DEF VlanConf
<1> HIDE DEF rest
<1>4. Legacy(rest) = {}
    BY <1>1, <1>3 DEF Legacy
<1>5. CASE job[w].op = "vlan+"
    <2> DEFINE g == With(rest, v, Plain)
    <2>1. /\ \A z : z \in DOMAIN g <=> z \in DOMAIN rest \/ z = v
          /\ g[v] = Plain
          /\ \A z \in DOMAIN rest : z # v => g[z] = rest[z]
        BY WithIs
    <2>2. VlanFile(job[w]) = g
        BY <1>2, <1>5
    <2> HIDE DEF g
    <2>3. DOMAIN g = DOMAIN vlans \cup {v}
        BY <1>3, <2>1
    <2>4. Legacy(g) = {}
        BY <1>4, <2>1, Sets DEF Legacy
    <2>5. QED
        BY <1>0, <1>5, <2>2, <2>3, <2>4
<1>6. CASE job[w].op # "vlan+"
    BY <1>0, <1>2, <1>3, <1>4, <1>6
<1>7. QED
    BY <1>5, <1>6

\* vlans.conf is read.
LEMMA NetVLANRead ==
    ASSUME FilesOK, JobsOK, OneRequest, NetInv, NEW w \in Worker, VLANRead(w)
    PROVE  NetInv'
<1>0. PICK v, m : v = job[w].i /\ m = job[w].arg
    OBVIOUS
<1>1. /\ job[w].op \in VlanOps /\ job[w].pc = "read"
      /\ job'[w].op = job[w].op /\ job'[w].pc = "write" /\ job'[w].i = job[w].i
      /\ job'[w].arg = job[w].arg /\ job'[w].snap = VlanFile(job[w])
      /\ \A u \in Worker \ {w} : job[u] = Idle /\ job'[u] = Idle
    BY VLANReadIs
<1>2. UNCHANGED <<kernel, master, vlans, bridges, rows, portals, script, api, touched>>
    BY DEF VLANRead, hostVars, linkConf, portalConf, lifeVars
<1>3. LinksJob(w)
    BY DEF NetInv, LinkJobsInv
<1>4. job[w].op = "vlan+" => job[w].arg = Plain
    BY <1>3 DEF LinksJob, VlanMade
<1>5. /\ Legacy(job'[w].snap) = {}
      /\ DOMAIN job'[w].snap = IF job[w].op = "vlan+" THEN DOMAIN vlans \cup {v} ELSE DOMAIN vlans \ {v}
    BY <1>0, <1>1, <1>4, VlanFileIs
<1>6. \A b : Saved(b)' = Saved(b)
    BY <1>2 DEF Saved
<1>7. ASSUME job[w].op = "vlan+"
      PROVE  LinksJob(w)'
    <2>1. VlanMade(w, v, m)
        BY <1>0, <1>3, <1>7 DEF LinksJob
    <2>2. VlanMade(w, v, m)'
        BY <1>1, <1>2, <1>5, <1>7, <2>1 DEF VlanMade, Legacy
    <2>3. QED
        BY <1>0, <1>1, <1>7, <2>2 DEF LinksJob, PortalOps
<1>8. ASSUME job[w].op = "vlan-"
      PROVE  LinksJob(w)'
    <2>1. VlanGone(w, v)
        BY <1>0, <1>3, <1>8 DEF LinksJob
    <2>2. VlanGone(w, v)'
        BY <1>1, <1>2, <1>5, <1>6, <1>8, <2>1 DEF VlanGone, Legacy
    <2>3. QED
        BY <1>0, <1>1, <1>8, <2>2 DEF LinksJob, PortalOps
<1>9. LinkJobsInv'
    BY <1>1, <1>7, <1>8, IdleLinksJob DEF VlanOps
<1>10. \A i, b : /\ VlanJob(i) => VlanJob(i)'
                 /\ BridgeJob(i) => BridgeJob(i)'
                 /\ MemberJob(i, b) => MemberJob(i, b)'
    BY <1>1, LinkJobsStay
<1>11. QED
    BY <1>2, <1>9, <1>10, NetJobs

\* vlans.conf is rewritten, and agrees with the kernel again.
LEMMA NetVLANWrite ==
    ASSUME JobsOK, OneRequest, NetInv, NEW w \in Worker, VLANWrite(w)
    PROVE  NetInv'
<1>0. PICK v, m : v = job[w].i /\ m = job[w].arg
    OBVIOUS
<1>1. /\ job[w].op \in VlanOps /\ job[w].pc = "write" /\ vlans' = job[w].snap /\ Answer(w)
      /\ UNCHANGED <<kernel, master, bridges, rows, portals, script, api, touched>>
    BY DEF VLANWrite, At, VlanOps, hostVars, portalConf, lifeVars
<1>2. /\ \A u \in Worker : job'[u] = Idle
      /\ \A u \in Worker \ {w} : job[u] = Idle
      /\ api = "up" /\ ~script
    BY <1>1, AnswerIs DEF VlanOps
<1>3. /\ \A i, b : ~BridgeJob(i) /\ ~MemberJob(i, b)
      /\ \A i : VlanJob(i) => i = v
    BY <1>0, <1>1, <1>2 DEF VlanJob, BridgeJob, MemberJob, VlanOps, Idle
<1>4. /\ Legacy(vlans') = {}
      /\ job[w].op = "vlan+" => DOMAIN vlans' = DOMAIN vlans \cup {v} /\ (v \notin touched => v \in kernel)
      /\ job[w].op = "vlan-" => /\ DOMAIN vlans' = DOMAIN vlans \ {v}
                                /\ v \notin touched => v \notin kernel /\ \A b \in Bridge : v \notin Saved(b)
    <2>1. LinksJob(w)
        BY DEF NetInv, LinkJobsInv
    <2>2. CASE job[w].op = "vlan+"
        <3>1. VlanMade(w, v, m)
            BY <1>0, <2>1, <2>2 DEF LinksJob
        <3>2. QED
            BY <1>1, <2>2, <3>1 DEF VlanMade
    <2>3. CASE job[w].op = "vlan-"
        <3>1. VlanGone(w, v)
            BY <1>0, <2>1, <2>3 DEF LinksJob
        <3>2. QED
            BY <1>1, <2>3, <3>1 DEF VlanGone
    <2>4. QED
        BY <1>1, <2>2, <2>3 DEF VlanOps
<1>5. \A b : Saved(b)' = Saved(b) /\ Rowed(b)' = Rowed(b)
    BY <1>1 DEF Saved, Rowed
<1>6. VlansInv'
    <2>1. \A i \in Vlan \ touched : i # v => (i \in DOMAIN vlans <=> i \in kernel)
        BY <1>2, <1>3 DEF NetInv, VlansInv, VlanAgrees
    <2>2. \A i \in Vlan \ touched : i \in DOMAIN vlans' <=> i \in kernel
        BY <1>1, <1>4, <2>1 DEF VlanOps
    <2>3. QED
        BY <1>1, <2>2 DEF VlansInv, VlanAgrees
<1>7. MastersInv' /\ RowsInv' /\ BridgesInv'
    BY <1>1, <1>2, <1>3, <1>5
    DEF NetInv, MastersInv, RowsInv, BridgesInv, MemberAgrees, RowAgrees, BridgeAgrees
<1>8. OwnersInv'
    BY <1>1, <1>4, <1>5 DEF NetInv, OwnersInv, VlanOps
<1>9. FreeInv' /\ LegacyInv'
    BY <1>1, <1>4, <1>5 DEF NetInv, FreeInv, LegacyInv, Legacy
<1>10. NicsInv' /\ BareInv'
    BY <1>1 DEF NetInv, NicsInv, BareInv
<1>11. LinkJobsInv'
    BY <1>2, IdleLinkJobs
<1>12. QED
    BY <1>6, <1>7, <1>8, <1>9, <1>10, <1>11 DEF NetInv

\* Nothing is under way, and what changes in the kernel is touched.
LEMMA NetQuiet ==
    ASSUME Careful, JobsOK, NetInv, NEW w \in Worker, MayServe(w), job' = job,
           UNCHANGED <<vlans, bridges, rows, portals, script, api>>, touched \subseteq touched',
           \A i \in Iface \ touched' : (i \in kernel' <=> i \in kernel) /\ master'[i] = master[i], FilesOK
    PROVE  NetInv'
<1>1. /\ \A u \in Worker : job[u] = Idle
      /\ ~script /\ api = "up"
    BY DEF MayServe, Quiet
<1>2. LinkJobsInv'
    BY <1>1, IdleLinkJobs
<1>3. BareInv'
    BY <1>1 DEF BareInv
<1>4. DOMAIN portals \subseteq Iface /\ Legacy(vlans) = {}
    BY <1>1, ConfIs DEF FilesOK, PortalConf, NetInv, LegacyInv
<1>5. QED
    BY <1>1, <1>2, <1>3, <1>4, QuietLinkJobs, NetStays

\* What a listing or a new request finds agrees.
LEMMA QuietAgreed ==
    ASSUME Careful, NetInv, NEW w \in Worker, MayServe(w)
    PROVE  /\ \A v \in Vlan \ touched : v \in DOMAIN vlans <=> v \in kernel
           /\ \A b \in Bridge \ touched : /\ b \in DOMAIN bridges <=> b \in DOMAIN rows
                                          /\ b \in DOMAIN bridges <=> b \in kernel
           /\ \A i \in Iface \ touched, b \in Bridge : i \in Saved(b) <=> master[i] = b
           /\ \A i \in Iface \ touched, b \in Bridge \ touched : i \in Rowed(b) <=> i \in Saved(b)
           /\ Legacy(vlans) = {} /\ ~script /\ api = "up" /\ \A u \in Worker : job[u] = Idle
<1>1. ~script /\ api = "up" /\ \A u \in Worker : job[u] = Idle
    BY DEF MayServe, Quiet
<1>2. Legacy(vlans) = {}
    BY <1>1 DEF NetInv, LegacyInv
<1>3. QED
    BY <1>1, <1>2, QuietLinkJobs, Agreed

\* A listing of VLANs brings back only what was touched.
LEMMA NetVLANList ==
    ASSUME Careful, FilesOK, JobsOK, NetInv, NEW w \in Worker, VLANList(w)
    PROVE  NetInv'
<1>1. MayServe(w) /\ job' = job
    BY DEF VLANList
<1>2. PICK back \in SUBSET (DOMAIN vlans \ kernel) :
        /\ kernel' = kernel \cup back /\ touched \subseteq touched' /\ (DOMAIN vlans \ kernel) \ back \subseteq touched'
    BY DEF VLANList, NoFault, Fault
<1>3. DOMAIN vlans \subseteq Vlan
    BY ConfIs DEF FilesOK, VlanConf
<1>4. \A i \in Iface \ touched' : i \in kernel' <=> i \in kernel
    BY <1>1, <1>2, <1>3, QuietAgreed
<1>5. UNCHANGED <<master, vlans, bridges, rows, portals, script, api>>
    BY DEF VLANList, linkConf, portalConf, lifeVars
<1>6. QED
    BY <1>1, <1>2, <1>4, <1>5, NetQuiet

\* A listing of portals changes stacks only.
LEMMA NetPortalList ==
    ASSUME Careful, FilesOK, JobsOK, NetInv, NEW w \in Worker, PortalList(w)
    PROVE  NetInv'
<1>1. MayServe(w) /\ job' = job /\ touched \subseteq touched'
    BY DEF PortalList, NoFault, Fault
<1>2. UNCHANGED <<kernel, master, vlans, bridges, rows, portals, script, api>>
    BY DEF PortalList, linkConf, portalConf, lifeVars
<1>3. QED
    BY <1>1, <1>2, NetQuiet

\* A bridge is added to the kernel, or fails and is touched.
LEMMA NetBridgeLink ==
    ASSUME HostOK, FilesOK, JobsOK, OneRequest, NetInv, NEW w \in Worker, BridgeLink(w)
    PROVE  NetInv'
<1>0. PICK b : b = job[w].i
    OBVIOUS
<1>1. /\ job[w].op = "bridge+" /\ job[w].pc = "link" /\ b \in Bridge /\ b \in Iface
      /\ UNCHANGED <<vlans, bridges, rows, portals, script, api>>
    BY <1>0, Sets DEF BridgeLink, At, JobsOK, JobOK, BridgeOps, linkConf, portalConf, lifeVars
<1>2. Members(b) = {}
    BY <1>0, <1>1 DEF NetInv, LinkJobsInv, LinksJob, BridgeMade
<1>3. CASE b \notin kernel /\ kernel' = kernel \cup {b} /\ Goto(w, "row") /\ NoFault /\ UNCHANGED master
    <2>1. /\ job'[w].op = "bridge+" /\ job'[w].pc = "row" /\ job'[w].i = b
        BY <1>1, <1>3, <1>0, GotoIs
    <2>2. BridgeJob(b)'
        BY <2>1 DEF BridgeJob
    <2>3. b \notin touched => b \notin DOMAIN bridges
        <3>1. /\ \A u \in Worker \ {w} : job[u] = Idle
              /\ api = "up" /\ ~script
            BY <1>1, Alone
        <3>2. \A i, c : ~VlanJob(i) /\ ~BridgeJob(i) /\ ~MemberJob(i, c)
            BY <1>1, <3>1, NoLinkJobs
        <3>3. QED
            BY <1>1, <1>3, <3>1, <3>2, Agreed
    <2>4. Members(b)' = {}
        BY <1>2, <1>3 DEF Members
    <2>5. LinksJob(w)'
        BY <1>1, <1>3, <2>1, <2>3, <2>4 DEF LinksJob, BridgeMade, PortalOps, NoFault
    <2>6. \A i \in Iface \ touched' : \/ i \in kernel' <=> i \in kernel
                                      \/ i \in Bridge /\ BridgeJob(i)'
        BY <1>1, <1>3, <2>2
    <2>7. QED
        BY <1>1, <1>3, <2>5, <2>6, NetMoves DEF Goto, NoFault
<1>4. CASE (NoFault \/ Fault({b})) /\ Answer(w) /\ UNCHANGED hostVars
    BY <1>1, <1>4, NetAnswered DEF Fault, NoFault, hostVars
<1>5. QED
    BY <1>0, <1>3, <1>4 DEF BridgeLink

\* A bridge is deleted from the kernel, or fails and is touched.
LEMMA NetBridgeUnlink ==
    ASSUME HostOK, FilesOK, JobsOK, OneRequest, NetInv, NEW w \in Worker, BridgeUnlink(w)
    PROVE  NetInv'
<1>0. PICK b : b = job[w].i
    OBVIOUS
<1>1. /\ job[w].op = "bridge-" /\ job[w].pc = "unlink" /\ b \in Bridge /\ b \in Iface
      /\ UNCHANGED <<vlans, bridges, rows, portals, script, api>>
    BY <1>0, Sets DEF BridgeUnlink, At, JobsOK, JobOK, BridgeOps, linkConf, portalConf, lifeVars
<1>2. Members(b) = {} /\ b \notin DOMAIN portals
    BY <1>0, <1>1 DEF NetInv, LinkJobsInv, LinksJob, BridgeGone
<1>4. CASE Fault({b}) /\ Answer(w) /\ UNCHANGED hostVars
    BY <1>1, <1>4, NetAnswered DEF Fault, hostVars
<1>5. CASE (IF b \in kernel THEN Vanish(b) ELSE UNCHANGED hostVars) /\ Goto(w, "read") /\ NoFault
    <2>1. /\ job'[w].op = "bridge-" /\ job'[w].pc = "read" /\ job'[w].i = b
        BY <1>1, <1>5, <1>0, GotoIs
    <2>2. kernel' = kernel \ {b} /\ touched' = touched /\ \A k \in Iface : master'[k] = master[k]
        <3>1. CASE b \in kernel
            <4>1. /\ kernel' = kernel \ {b}
                  /\ \A k \in Iface : master'[k] = IF k = b \/ master[k] = b THEN None ELSE master[k]
                BY <1>1, <1>5, <3>1, VanishIs
            <4>2. master[b] = None /\ \A k \in Iface : master[k] # b
                BY <1>1, <1>2 DEF HostOK, Members
            <4>3. QED
                BY <1>5, <4>1, <4>2 DEF NoFault
        <3>2. CASE b \notin kernel
            BY <1>5, <3>2 DEF NoFault, hostVars
        <3>3. QED
            BY <3>1, <3>2
    <2>3. BridgeJob(b)'
        BY <2>1 DEF BridgeJob
    <2>4. Members(b)' = {}
        BY <1>2, <2>2 DEF Members
    <2>5. LinksJob(w)'
        BY <1>1, <1>2, <2>1, <2>2, <2>4 DEF LinksJob, BridgeGone, PortalOps
    <2>6. \A i \in Iface \ touched' : \/ i \in kernel' <=> i \in kernel
                                      \/ i \in Bridge /\ BridgeJob(i)'
        BY <1>1, <2>2, <2>3
    <2>7. QED
        BY <1>1, <1>5, <2>2, <2>5, <2>6, NetMoves DEF Goto
<1>6. QED
    BY <1>0, <1>4, <1>5 DEF BridgeUnlink

\* A member is enslaved or released.
LEMMA NetBridgeEnslave ==
    ASSUME HostOK, FilesOK, JobsOK, OneRequest, NetInv, NEW w \in Worker, BridgeEnslave(w) \/ BridgeRelease(w)
    PROVE  NetInv'
<1>0. PICK b, m : b = job[w].i /\ m = job[w].arg
    OBVIOUS
<1>1. /\ job[w].op \in {"member+", "member-"} /\ job[w].pc = "link" /\ b \in Bridge /\ b \in Iface /\ m \in Iface
      /\ UNCHANGED <<kernel, vlans, bridges, rows, portals, script, api>>
    BY <1>0, Sets
    DEF BridgeEnslave, BridgeRelease, At, JobsOK, JobOK, BridgeOps, linkConf, portalConf, lifeVars
<1>2. MemberMoved(w, b, m)
    BY <1>0, <1>1 DEF NetInv, LinkJobsInv, LinksJob
<1>3. /\ m \notin touched /\ job[w].op = "member+" => m \notin DOMAIN portals
      /\ m \notin touched => master[m] \in {b, None}
      /\ b \notin touched => b \in kernel
    BY <1>2 DEF MemberMoved
<1>4. CASE /\ master' = [master EXCEPT ![m] = IF job[w].op = "member+" THEN b ELSE None]
           /\ Goto(w, "row") /\ NoFault
    <2>1. /\ job'[w].op = job[w].op /\ job'[w].pc = "row" /\ job'[w].i = b /\ job'[w].arg = m
        BY <1>1, <1>4, <1>0, GotoIs
    <2>2. /\ master'[m] = IF job[w].op = "member+" THEN b ELSE None
          /\ \A k \in Iface : k # m => master'[k] = master[k]
          /\ touched' = touched
        BY <1>1, <1>4 DEF HostOK, NoFault
    <2>3. MemberJob(m, b)'
        BY <1>1, <2>1 DEF MemberJob
    <2>4. MemberMoved(w, b, m)'
        BY <1>1, <1>3, <2>1, <2>2 DEF MemberMoved
    <2>5. LinksJob(w)'
        BY <1>1, <2>1, <2>4 DEF LinksJob, PortalOps
    <2>6. \A i \in Iface \ touched', c \in Bridge : (master'[i] = c <=> master[i] = c) \/ MemberJob(i, c)'
        BY <1>1, <1>3, <2>2, <2>3, Sets
    <2>7. \A i \in Iface \ touched' : i \in DOMAIN portals /\ master[i] = None => master'[i] = None
        BY <1>1, <1>3, <2>2
    <2>8. QED
        BY <1>1, <1>4, <2>2, <2>5, <2>6, <2>7, NetMoves DEF Goto
<1>5. CASE (NoFault \/ Fault({b, m})) /\ Answer(w) /\ UNCHANGED master
    BY <1>1, <1>5, NetAnswered DEF Fault, NoFault
<1>6. CASE BridgeEnslave(w)
    <2>1. job[w].op = "member+"
        BY <1>6 DEF BridgeEnslave, At
    <2>2. QED
        BY <1>0, <1>4, <1>5, <1>6, <2>1 DEF BridgeEnslave
<1>7. CASE BridgeRelease(w)
    <2>1. job[w].op = "member-"
        BY <1>7 DEF BridgeRelease, At
    <2>2. QED
        BY <1>0, <1>4, <1>5, <1>7, <2>1 DEF BridgeRelease
<1>8. QED
    BY <1>6, <1>7

\* What a request does to the rows of its bridge, and to no other's.
LEMMA RowsAfterIs ==
    ASSUME FilesOK, NEW w \in Worker, rows' = RowsAfter(rows, job[w]),
           NEW b, b = job[w].i, NEW m, m = job[w].arg
    PROVE  /\ \A c : c # b => (c \in DOMAIN rows' <=> c \in DOMAIN rows) /\ Rowed(c)' = Rowed(c)
           /\ job[w].op = "bridge+" => b \in DOMAIN rows' /\ Rowed(b)' = {}
           /\ job[w].op = "bridge-" => b \notin DOMAIN rows' /\ Rowed(b)' = {}
           /\ job[w].op \in {"member+", "member-"} =>
                /\ b \in DOMAIN rows' <=> b \in DOMAIN rows
                /\ \A k : k # m => (k \in Rowed(b)' <=> k \in Rowed(b))
                /\ job[w].op = "member+" /\ b \in DOMAIN rows => m \in Rowed(b)'
                /\ job[w].op = "member-" => m \notin Rowed(b)'
<1>1. rows \in [DOMAIN rows -> SUBSET Iface]
    BY ConfIs DEF FilesOK, BridgeConf
<1>2. CASE job[w].op = "bridge+"
    <2>1. rows' = With(rows, b, {})
        BY <1>2 DEF RowsAfter
    <2>2. /\ \A z : z \in DOMAIN rows' <=> z \in DOMAIN rows \/ z = b
          /\ rows'[b] = {}
          /\ \A z \in DOMAIN rows : z # b => rows'[z] = rows[z]
        BY <2>1, WithIs
    <2>3. QED
        BY <1>2, <2>2 DEF Rowed
<1>3. CASE job[w].op = "bridge-"
    <2>1. rows' = Without(rows, b)
        BY <1>3 DEF RowsAfter
    <2>2. /\ \A z : z \in DOMAIN rows' <=> z \in DOMAIN rows /\ z # b
          /\ \A z \in DOMAIN rows : z # b => rows'[z] = rows[z]
        BY <2>1, WithoutIs
    <2>3. QED
        BY <1>3, <2>2 DEF Rowed
<1>4. CASE job[w].op \in {"member+", "member-"} /\ b \in DOMAIN rows
    <2> DEFINE new == IF job[w].op = "member+" THEN rows[b] \cup {m} ELSE rows[b] \ {m}
    <2>1. rows' = [rows EXCEPT ![b] = new]
        BY <1>4 DEF RowsAfter
    <2>2. /\ job[w].op = "member+" => m \in new
          /\ job[w].op = "member-" => m \notin new
          /\ \A k : k # m => (k \in new <=> k \in rows[b])
        BY <1>4
    <2> HIDE DEF new
    <2>3. /\ DOMAIN rows' = DOMAIN rows /\ rows'[b] = new
          /\ \A z \in DOMAIN rows : z # b => rows'[z] = rows[z]
        BY <1>1, <1>4, <2>1
    <2>4. QED
        BY <1>4, <2>2, <2>3 DEF Rowed
<1>5. CASE job[w].op \in {"member+", "member-"} /\ b \notin DOMAIN rows
    <2>1. rows' = rows
        BY <1>5 DEF RowsAfter
    <2>2. QED
        BY <1>5, <2>1 DEF Rowed
<1>6. CASE job[w].op \notin {"bridge+", "bridge-", "member+", "member-"}
    <2>1. rows' = rows
        BY <1>6 DEF RowsAfter
    <2>2. QED
        BY <1>6, <2>1 DEF Rowed
<1>7. QED
    BY <1>2, <1>3, <1>4, <1>5, <1>6

\* The rows of a bridge are written, or fail and are touched.
LEMMA NetBridgeRow ==
    ASSUME HostOK, FilesOK, JobsOK, OneRequest, NetInv, NEW w \in Worker, BridgeRow(w)
    PROVE  NetInv'
<1>0. PICK b, m : b = job[w].i /\ m = job[w].arg
    OBVIOUS
<1>1. /\ job[w].op \in BridgeOps /\ job[w].pc = "row" /\ b \in Bridge /\ b \in Iface
      /\ job[w].op \in {"member+", "member-"} => m \in Iface
      /\ UNCHANGED <<kernel, master, vlans, bridges, portals, script, api>>
    BY <1>0, Sets DEF BridgeRow, At, JobsOK, JobOK, BridgeOps, hostVars, portalConf, lifeVars
<1>2. /\ \A u \in Worker \ {w} : job[u] = Idle /\ job'[u] = Idle
      /\ api = "up" /\ ~script
      /\ job[w].op = "bridge-" => job'[w] = Idle
      /\ job[w].op # "bridge-" => /\ job'[w].op = job[w].op /\ job'[w].i = b /\ job'[w].arg = m
                                  /\ job'[w].pc = "read"
    <2>1. job[w].op # "none"
        BY <1>1 DEF BridgeOps
    <2>2. CASE job[w].op = "bridge-"
        BY <1>1, <2>1, <2>2, Alone, AnswerIs DEF BridgeRow
    <2>3. CASE job[w].op # "bridge-"
        BY <1>0, <1>1, <2>1, <2>3, GotoIs DEF BridgeRow
    <2>4. QED
        BY <2>2, <2>3
<1>3. LinksJob(w)
    BY DEF NetInv, LinkJobsInv
<1>4. /\ \A i : ~VlanJob(i)
      /\ \A i : BridgeJob(i) <=> i = b /\ job[w].op \in {"bridge+", "bridge-"}
      /\ \A i, c : MemberJob(i, c) <=> i = m /\ c = b /\ job[w].op \in {"member+", "member-"}
    BY <1>0, <1>1, <1>2 DEF VlanJob, BridgeJob, MemberJob, VlanOps, BridgeOps, Idle
<1>5. /\ \A i : BridgeJob(i) => BridgeJob(i)' \/ job[w].op = "bridge-"
      /\ \A i, c : MemberJob(i, c) => MemberJob(i, c)'
    BY <1>0, <1>1, <1>2, <1>4 DEF BridgeJob, MemberJob
<1>6. /\ touched \subseteq touched'
      /\ \/ rows' = RowsAfter(rows, job[w]) /\ touched' = touched
         \/ rows' = rows /\ b \in touched' /\ (job[w].op \in {"member+", "member-"} => m \in touched')
    BY <1>0, <1>1 DEF BridgeRow, NoFault, Fault, Concerns
<1>7. /\ \A c : c # b => (c \in DOMAIN rows' <=> c \in DOMAIN rows) /\ Rowed(c)' = Rowed(c)
      /\ b \notin touched' =>
           /\ job[w].op = "bridge+" => b \in DOMAIN rows' /\ Rowed(b)' = {}
           /\ job[w].op = "bridge-" => b \notin DOMAIN rows' /\ Rowed(b)' = {}
           /\ job[w].op \in {"member+", "member-"} =>
                /\ b \in DOMAIN rows' <=> b \in DOMAIN rows
                /\ \A k : k # m => (k \in Rowed(b)' <=> k \in Rowed(b))
                /\ job[w].op = "member+" /\ b \in DOMAIN rows => m \in Rowed(b)'
                /\ job[w].op = "member-" => m \notin Rowed(b)'
    <2>1. CASE rows' = RowsAfter(rows, job[w])
        BY <1>0, <2>1, RowsAfterIs
    <2>2. CASE rows' = rows /\ b \in touched'
        BY <2>2 DEF Rowed
    <2>3. QED
        BY <1>6, <2>1, <2>2
<1>8. \A c : Saved(c)' = Saved(c) /\ Members(c)' = Members(c)
    BY <1>1 DEF Saved, Members
<1>9. NicsInv' /\ BareInv' /\ VlansInv' /\ MastersInv'
    BY <1>1, <1>2, <1>4, <1>5, <1>6, <1>8
    DEF NetInv, NicsInv, BareInv, VlansInv, VlanAgrees, MastersInv, MemberAgrees
<1>10. OwnersInv' /\ FreeInv' /\ LegacyInv'
    BY <1>1, <1>6, <1>8 DEF NetInv, OwnersInv, FreeInv, LegacyInv, Legacy
<1>11. job[w].op \in {"bridge+", "bridge-"} /\ b \notin touched => b \notin DOMAIN bridges /\ Saved(b) = {}
    BY <1>0, <1>1, <1>3 DEF LinksJob, BridgeMade, BridgeGone, Saved
<1>12. job[w].op = "bridge-" /\ b \notin touched => b \notin kernel
    BY <1>0, <1>1, <1>3 DEF LinksJob, BridgeGone
<1>13. BridgesInv'
    <2>1. ASSUME NEW c \in Bridge \ touched', c # b
          PROVE  BridgeAgrees(c)'
        <3>1. BridgeAgrees(c)
            BY <1>4, <1>6, <2>1 DEF NetInv, BridgesInv
        <3>2. QED
            BY <1>1, <1>7, <2>1, <3>1 DEF BridgeAgrees
    <2>2. ASSUME b \notin touched'
          PROVE  BridgeAgrees(b)' \/ BridgeJob(b)'
        <3>1. CASE job[w].op = "bridge+"
            BY <1>4, <1>5, <3>1
        <3>2. CASE job[w].op = "bridge-"
            BY <1>1, <1>6, <1>7, <1>11, <1>12, <2>2, <3>2 DEF BridgeAgrees
        <3>3. CASE job[w].op \in {"member+", "member-"}
            <4>1. BridgeAgrees(b)
                BY <1>1, <1>4, <1>6, <2>2, <3>3 DEF NetInv, BridgesInv
            <4>2. QED
                BY <1>1, <1>7, <2>2, <3>3, <4>1 DEF BridgeAgrees
        <3>4. QED
            BY <1>1, <3>1, <3>2, <3>3 DEF BridgeOps
    <2>3. QED
        BY <2>1, <2>2 DEF BridgesInv
<1>14. RowsInv'
    <2>1. ASSUME NEW i \in Iface \ touched', NEW c \in Bridge \ touched', c # b
          PROVE  RowAgrees(i, c)'
        <3>1. RowAgrees(i, c)
            BY <1>4, <1>6, <2>1 DEF NetInv, RowsInv
        <3>2. QED
            BY <1>7, <1>8, <2>1, <3>1 DEF RowAgrees
    <2>2. ASSUME NEW i \in Iface \ touched', b \notin touched'
          PROVE  RowAgrees(i, b)' \/ MemberJob(i, b)'
        <3>1. CASE job[w].op \in {"bridge+", "bridge-"}
            BY <1>6, <1>7, <1>8, <1>11, <2>2, <3>1 DEF RowAgrees
        <3>2. CASE job[w].op \in {"member+", "member-"} /\ i # m
            <4>1. RowAgrees(i, b)
                BY <1>1, <1>4, <1>6, <2>2, <3>2 DEF NetInv, RowsInv
            <4>2. QED
                BY <1>7, <1>8, <2>2, <3>2, <4>1 DEF RowAgrees
        <3>3. CASE job[w].op \in {"member+", "member-"} /\ i = m
            BY <1>4, <1>5, <3>3
        <3>4. QED
            BY <1>1, <3>1, <3>2, <3>3 DEF BridgeOps
    <2>3. QED
        BY <2>1, <2>2 DEF RowsInv
<1>15. LinksJob(w)'
    <2>1. CASE job[w].op = "bridge-"
        BY <1>2, <2>1, IdleLinks
    <2>2. CASE job[w].op = "bridge+"
        <3>1. BridgeMade(w, b)
            BY <1>0, <1>3, <2>2 DEF LinksJob
        <3>2. BridgeMade(w, b)'
            BY <1>1, <1>2, <1>6, <1>7, <1>8, <2>2, <3>1 DEF BridgeMade
        <3>3. QED
            BY <1>2, <2>2, <3>2 DEF LinksJob, PortalOps
    <2>3. CASE job[w].op \in {"member+", "member-"}
        <3>1. MemberMoved(w, b, m)
            BY <1>0, <1>3, <2>3 DEF LinksJob
        <3>2. b \notin touched' => b \in DOMAIN rows
            <4>1. b \notin touched => BridgeAgrees(b) /\ b \in kernel
                BY <1>1, <1>4, <2>3, <3>1 DEF NetInv, BridgesInv, MemberMoved
            <4>2. QED
                BY <1>2, <1>6, <4>1 DEF BridgeAgrees
        <3>3. MemberMoved(w, b, m)'
            BY <1>1, <1>2, <1>6, <1>7, <2>3, <3>1, <3>2 DEF MemberMoved
        <3>4. QED
            BY <1>2, <2>3, <3>3 DEF LinksJob, PortalOps
    <2>4. QED
        BY <1>1, <2>1, <2>2, <2>3 DEF BridgeOps
<1>16. LinkJobsInv'
    BY <1>2, <1>15, IdleLinksJob
<1>17. QED
    BY <1>9, <1>10, <1>13, <1>14, <1>16 DEF NetInv

\* bridges.conf is read, and the members with it.
LEMMA NetBridgeRead ==
    ASSUME HostOK, FilesOK, JobsOK, OneRequest, NetInv, NEW w \in Worker, BridgeRead(w)
    PROVE  NetInv'
<1>0. PICK b, m : b = job[w].i /\ m = job[w].arg
    OBVIOUS
<1>1. /\ job[w].op \in {"bridge+", "bridge-", "member+", "member-"} /\ job[w].pc = "read"
      /\ job'[w].op = job[w].op /\ job'[w].pc = "write" /\ job'[w].i = b
      /\ job'[w].arg = m /\ job'[w].snap = BridgeFile(job[w])
      /\ \A u \in Worker \ {w} : job[u] = Idle /\ job'[u] = Idle
    BY <1>0, BridgeReadIs
<1>2. UNCHANGED <<kernel, master, vlans, bridges, rows, portals, script, api, touched>>
    BY DEF BridgeRead, hostVars, linkConf, portalConf, lifeVars
<1>3. LinksJob(w)
    BY DEF NetInv, LinkJobsInv
<1>4. \A c : Saved(c)' = Saved(c) /\ Rowed(c)' = Rowed(c) /\ Members(c)' = Members(c)
    BY <1>2 DEF Saved, Rowed, Members
<1>5. ASSUME job[w].op = "bridge+"
      PROVE  LinksJob(w)'
    <2>1. BridgeMade(w, b)
        BY <1>0, <1>3, <1>5 DEF LinksJob
    <2>2. job'[w].snap = With(bridges', b, {})
        BY <1>0, <1>1, <1>2, <1>5 DEF BridgeFile
    <2>3. BridgeMade(w, b)'
        BY <1>1, <1>2, <1>4, <2>1, <2>2 DEF BridgeMade
    <2>4. QED
        BY <1>1, <1>5, <2>3 DEF LinksJob, PortalOps
<1>6. ASSUME job[w].op = "bridge-"
      PROVE  LinksJob(w)'
    <2>1. BridgeGone(w, b)
        BY <1>0, <1>3, <1>6 DEF LinksJob
    <2>2. job'[w].snap = Without(bridges', b)
        BY <1>0, <1>1, <1>2, <1>6 DEF BridgeFile
    <2>3. BridgeGone(w, b)'
        BY <1>1, <1>2, <1>4, <2>1, <2>2 DEF BridgeGone
    <2>4. QED
        BY <1>1, <1>6, <2>3 DEF LinksJob, PortalOps
<1>7. ASSUME job[w].op \in {"member+", "member-"}
      PROVE  LinksJob(w)'
    <2>1. MemberMoved(w, b, m)
        BY <1>0, <1>3, <1>7 DEF LinksJob
    <2>2. job'[w].snap = With(bridges, b, Members(b))
        BY <1>0, <1>1, <1>7 DEF BridgeFile
    <2>3. job'[w].snap[b] = Members(b)
        BY <2>2, WithIs
    <2>4. Members(b) \subseteq Iface /\ \A k \in Iface : k \in Members(b) <=> master[k] = b
        BY DEF Members
    <2>5. MemberMoved(w, b, m)'
        BY <1>1, <1>2, <1>4, <2>1, <2>2, <2>3, <2>4 DEF MemberMoved
    <2>6. QED
        BY <1>1, <1>7, <2>5 DEF LinksJob, PortalOps
<1>8. LinkJobsInv'
    BY <1>1, <1>5, <1>6, <1>7, IdleLinksJob
<1>9. \A i, c : /\ VlanJob(i) => VlanJob(i)'
                /\ BridgeJob(i) => BridgeJob(i)'
                /\ MemberJob(i, c) => MemberJob(i, c)'
    BY <1>0, <1>1, LinkJobsStay
<1>10. QED
    BY <1>2, <1>8, <1>9, NetJobs

\* Where file and kernel agree, a saved member has one bridge, and can be enslaved again.
LEMMA OwnersAgree ==
    ASSUME HostOK', \A v \in Vlan \ touched' : v \in DOMAIN vlans' <=> v \in kernel',
           \A i \in Iface \ touched', b \in Bridge : i \in Saved(b)' <=> master'[i] = b
    PROVE  OwnersInv'
<1>1. SUFFICES ASSUME NEW i \in Iface \ touched', NEW b \in Bridge, i \in Saved(b)'
               PROVE  i \in Nic \cup DOMAIN vlans' /\ \A c \in Bridge : i \in Saved(c)' => c = b
    BY DEF OwnersInv
<1>2. master'[i] = b /\ \A c \in Bridge : i \in Saved(c)' => master'[i] = c
    BY <1>1
<1>3. i \in kernel' \ Bridge
    BY <1>1, <1>2, Sets DEF HostOK
<1>4. QED
    BY <1>1, <1>2, <1>3, Sets

\* The members of a bridge in the file that will be written are those in the kernel.
LEMMA BridgeFileAgrees ==
    ASSUME HostOK, FilesOK, JobsOK, OneRequest, NetInv, NEW w \in Worker, BridgeWrite(w),
           NEW b, b = job[w].i
    PROVE  /\ \A i \in Iface \ touched, c \in Bridge : i \in Saved(c)' <=> master[i] = c
           /\ \A c : c # b => (c \in DOMAIN bridges' <=> c \in DOMAIN bridges) /\ Saved(c)' = Saved(c)
           /\ b \in DOMAIN bridges' <=> job[w].op # "bridge-"
<1>0. PICK m : m = job[w].arg
    OBVIOUS
<1>1. /\ job[w].op \in {"bridge+", "bridge-", "member+", "member-"} /\ job[w].pc = "write"
      /\ \A u \in Worker \ {w} : job[u] = Idle
      /\ ~script /\ bridges' = job[w].snap
    BY BridgeWriteIs DEF BridgeWrite
<1>2. \A i, c : c # b => ~MemberJob(i, c)
    BY <1>1 DEF MemberJob, Idle
<1>3. \A i \in Iface \ touched, c \in Bridge : c # b => (i \in Saved(c) <=> master[i] = c)
    BY <1>1, <1>2 DEF NetInv, MastersInv, MemberAgrees
<1>4. LinksJob(w)
    BY DEF NetInv, LinkJobsInv
<1>5. CASE job[w].op = "bridge-"
    <2>1. Members(b) = {} /\ bridges' = Without(bridges, b)
        BY <1>1, <1>4, <1>5 DEF LinksJob, BridgeGone
    <2>2. /\ \A z : z \in DOMAIN bridges' <=> z \in DOMAIN bridges /\ z # b
          /\ \A z \in DOMAIN bridges : z # b => bridges'[z] = bridges[z]
        BY <2>1, WithoutIs
    <2>3. \A c : c # b => (c \in DOMAIN bridges' <=> c \in DOMAIN bridges) /\ Saved(c)' = Saved(c)
        BY <2>2 DEF Saved
    <2>4. Saved(b)' = {} /\ b \notin DOMAIN bridges'
        BY <2>2 DEF Saved
    <2>5. \A i \in Iface : master[i] # b
        BY <2>1 DEF Members
    <2>6. QED
        BY <1>3, <1>5, <2>3, <2>4, <2>5
<1>6. CASE job[w].op # "bridge-"
    <2>1. PICK S : /\ bridges' = With(bridges, b, S)
                   /\ \A i \in Iface \ touched : i \in S <=> master[i] = b
        <3>1. CASE job[w].op = "bridge+"
            <4>1. Members(b) = {} /\ bridges' = With(bridges, b, {})
                BY <1>1, <1>4, <3>1 DEF LinksJob, BridgeMade
            <4>2. \A i \in Iface : master[i] # b
                BY <4>1 DEF Members
            <4>3. QED
                BY <4>1, <4>2
        <3>2. CASE job[w].op \in {"member+", "member-"}
            <4>1. MemberMoved(w, b, m)
                BY <1>0, <1>4, <3>2 DEF LinksJob
            <4>2. /\ bridges' = With(bridges, b, job[w].snap[b])
                  /\ \A k \in Iface \ touched : k \in job[w].snap[b] <=> master[k] = b
                BY <1>1, <4>1 DEF MemberMoved
            <4>3. QED
                BY <4>2
        <3>3. QED
            BY <1>1, <1>6, <3>1, <3>2
    <2>2. /\ \A z : z \in DOMAIN bridges' <=> z \in DOMAIN bridges \/ z = b
          /\ bridges'[b] = S
          /\ \A z \in DOMAIN bridges : z # b => bridges'[z] = bridges[z]
        BY <2>1, WithIs
    <2>3. \A c : c # b => (c \in DOMAIN bridges' <=> c \in DOMAIN bridges) /\ Saved(c)' = Saved(c)
        BY <2>2 DEF Saved
    <2>4. Saved(b)' = S /\ b \in DOMAIN bridges'
        BY <2>2 DEF Saved
    <2>5. QED
        BY <1>3, <1>6, <2>1, <2>3, <2>4
<1>7. QED
    BY <1>5, <1>6

\* bridges.conf is rewritten, and agrees with the kernel again.
LEMMA NetBridgeWrite ==
    ASSUME HostOK, FilesOK, JobsOK, OneRequest, NetInv, NEW w \in Worker, BridgeWrite(w)
    PROVE  NetInv'
<1>0. PICK b, m : b = job[w].i /\ m = job[w].arg
    OBVIOUS
<1>1. /\ job[w].op \in {"bridge+", "bridge-", "member+", "member-"} /\ job[w].pc = "write"
      /\ IF job[w].op = "bridge-" THEN job'[w].op = "bridge-" /\ job'[w].pc = "row" /\ job'[w].i = b
         ELSE job'[w] = Idle
      /\ \A u \in Worker \ {w} : job[u] = Idle /\ job'[u] = Idle
      /\ api = "up" /\ ~script
    BY <1>0, BridgeWriteIs
<1>2. /\ UNCHANGED <<kernel, master, vlans, rows, portals, script, api, touched>>
      /\ b \in Bridge /\ Legacy(vlans) = {} /\ DOMAIN portals \subseteq Iface
    BY <1>0, <1>1, ConfIs
    DEF BridgeWrite, hostVars, portalConf, lifeVars, JobsOK, JobOK, BridgeOps, NetInv, LegacyInv, FilesOK, PortalConf
<1>3. /\ \A i \in Iface \ touched, c \in Bridge : i \in Saved(c)' <=> master[i] = c
      /\ \A c : c # b => (c \in DOMAIN bridges' <=> c \in DOMAIN bridges) /\ Saved(c)' = Saved(c)
      /\ b \in DOMAIN bridges' <=> job[w].op # "bridge-"
    BY <1>0, BridgeFileAgrees
<1>4. /\ \A i : ~VlanJob(i)
      /\ \A i : BridgeJob(i) <=> i = b /\ job[w].op \in {"bridge+", "bridge-"}
      /\ \A i, c : MemberJob(i, c) <=> i = m /\ c = b /\ job[w].op \in {"member+", "member-"}
    BY <1>0, <1>1 DEF VlanJob, BridgeJob, MemberJob, VlanOps, BridgeOps, Idle
<1>5. LinksJob(w)
    BY DEF NetInv, LinkJobsInv
<1>6. \A c : Rowed(c)' = Rowed(c) /\ Members(c)' = Members(c)
    BY <1>2 DEF Rowed, Members
<1>7. \A v \in Vlan \ touched' : v \in DOMAIN vlans' <=> v \in kernel'
    BY <1>1, <1>2, <1>4 DEF NetInv, VlansInv, VlanAgrees
<1>8. NicsInv' /\ BareInv' /\ LegacyInv' /\ VlansInv'
    BY <1>1, <1>2, <1>7 DEF NetInv, NicsInv, BareInv, LegacyInv, Legacy, VlansInv, VlanAgrees
<1>9. MastersInv'
    BY <1>2, <1>3 DEF MastersInv, MemberAgrees
<1>10. OwnersInv'
    <2>1. HostOK'
        BY <1>2 DEF BridgeWrite, HostOK, hostVars
    <2>2. QED
        BY <1>2, <1>3, <1>7, <2>1, OwnersAgree
<1>11. FreeInv'
    <2>1. \A i \in DOMAIN portals \ touched : master[i] = None
        BY <1>2 DEF NetInv, FreeInv
    <2>2. \A i \in DOMAIN portals \ touched, c \in Bridge : i \notin Saved(c)'
        BY <1>2, <1>3, <2>1, Sets
    <2>3. QED
        BY <1>2, <2>1, <2>2 DEF FreeInv, Legacy
<1>12. BridgesInv'
    <2>1. ASSUME NEW c \in Bridge \ touched, c # b
          PROVE  BridgeAgrees(c)'
        <3>1. BridgeAgrees(c)
            BY <1>4, <2>1 DEF NetInv, BridgesInv
        <3>2. QED
            BY <1>2, <1>3, <2>1, <3>1 DEF BridgeAgrees
    <2>2. ASSUME b \notin touched
          PROVE  BridgeAgrees(b)' \/ BridgeJob(b)'
        <3>1. CASE job[w].op = "bridge+"
            <4>1. b \in kernel /\ b \in DOMAIN rows
                BY <1>0, <1>1, <1>5, <2>2, <3>1 DEF LinksJob, BridgeMade
            <4>2. QED
                BY <1>2, <1>3, <3>1, <4>1 DEF BridgeAgrees
        <3>2. CASE job[w].op = "bridge-"
            BY <1>1, <3>2 DEF BridgeJob
        <3>3. CASE job[w].op \in {"member+", "member-"}
            <4>1. BridgeAgrees(b)
                BY <1>2, <1>4, <2>2, <3>3 DEF NetInv, BridgesInv
            <4>2. b \in kernel
                BY <1>0, <1>5, <2>2, <3>3 DEF LinksJob, MemberMoved
            <4>3. QED
                BY <1>1, <1>2, <1>3, <3>3, <4>1, <4>2 DEF BridgeAgrees
        <3>4. QED
            BY <1>1, <3>1, <3>2, <3>3
    <2>3. QED
        BY <1>2, <2>1, <2>2 DEF BridgesInv
<1>13. RowsInv'
    <2>1. ASSUME NEW i \in Iface \ touched, NEW c \in Bridge \ touched, c # b
          PROVE  RowAgrees(i, c)'
        <3>1. RowAgrees(i, c)
            BY <1>4, <2>1 DEF NetInv, RowsInv
        <3>2. QED
            BY <1>3, <1>6, <2>1, <3>1 DEF RowAgrees
    <2>2. ASSUME NEW i \in Iface \ touched, b \notin touched
          PROVE  RowAgrees(i, b)'
        <3>1. CASE job[w].op \in {"member+", "member-"} /\ i = m
            <4>1. MemberMoved(w, b, m)
                BY <1>0, <1>5, <3>1 DEF LinksJob
            <4>2. /\ m \in Rowed(b) <=> job[w].op = "member+"
                  /\ master[m] = IF job[w].op = "member+" THEN b ELSE None
                BY <1>1, <2>2, <3>1, <4>1 DEF MemberMoved
            <4>3. m \in Saved(b)' <=> job[w].op = "member+"
                BY <1>2, <1>3, <2>2, <3>1, <4>2, Sets
            <4>4. QED
                BY <1>6, <3>1, <4>2, <4>3 DEF RowAgrees
        <3>2. CASE ~MemberJob(i, b)
            <4>1. i \in Rowed(b) <=> i \in Saved(b)
                BY <1>2, <2>2, <3>2 DEF NetInv, RowsInv, RowAgrees
            <4>2. i \in Saved(b) <=> master[i] = b
                BY <1>1, <1>2, <2>2, <3>2 DEF NetInv, MastersInv, MemberAgrees
            <4>3. QED
                BY <1>2, <1>3, <1>6, <2>2, <4>1, <4>2 DEF RowAgrees
        <3>3. QED
            BY <1>4, <3>1, <3>2
    <2>3. QED
        BY <1>2, <2>1, <2>2 DEF RowsInv
<1>14. LinksJob(w)'
    <2>1. CASE job[w].op = "bridge-"
        <3>1. BridgeGone(w, b)
            BY <1>0, <1>5, <2>1 DEF LinksJob
        <3>2. BridgeGone(w, b)'
            BY <1>1, <1>2, <1>3, <1>6, <2>1, <3>1 DEF BridgeGone
        <3>3. QED
            BY <1>1, <2>1, <3>2 DEF LinksJob, PortalOps
    <2>2. CASE job[w].op # "bridge-"
        BY <1>1, <2>2, IdleLinks
    <2>3. QED
        BY <2>1, <2>2
<1>15. LinkJobsInv'
    BY <1>1, <1>14, IdleLinksJob
<1>16. QED
    BY <1>8, <1>9, <1>10, <1>11, <1>12, <1>13, <1>15 DEF NetInv

\* A listing takes no member from where it is, and adds only free adapters to Br0.
LEMMA ListedAgrees ==
    ASSUME Careful, HostOK, FilesOK, NetInv, NEW w \in Worker, BridgeList(w)
    PROVE  /\ touched \subseteq touched' /\ HostOK' /\ kernel \subseteq kernel' /\ kernel' \subseteq kernel \cup Bridge
           /\ \A i \in Iface \ touched' : i \in kernel' <=> i \in kernel
           /\ \E added \in SUBSET Iface :
                /\ added \cap DOMAIN portals = {}
                /\ \A i \in Iface \ touched' : IF i \in added THEN master[i] = None /\ master'[i] = Br0
                                              ELSE master'[i] = master[i]
                /\ IF added = {} THEN bridges' = bridges
                   ELSE bridges' = With(bridges, Br0, {i \in Iface : master'[i] = Br0})
                /\ rows' = IF Br0 \in DOMAIN rows THEN [rows EXCEPT ![Br0] = @ \cup added] ELSE rows
                /\ added # {} => Br0 \in kernel'
<1>1. PICK back \in SUBSET Bridge, stay \in SUBSET Iface :
        /\ Listed(back, stay) /\ back \subseteq DOMAIN bridges \ kernel
        /\ touched' = touched \cup ((DOMAIN bridges \ kernel) \ back) \cup stay
    BY BridgeListIs
<1>2. kernel' = kernel \cup back /\ HostOK'
    BY <1>1, ListedKernel, ListedHost
<1>3. MayServe(w)
    BY DEF BridgeList
<1>4. \A i \in Iface \ touched' : i \in kernel' <=> i \in kernel
    BY <1>1, <1>2, <1>3, QuietAgreed
<1> DEFINE added == Added(back, stay)
<1>5. /\ added \subseteq Nic \cap kernel
      /\ added # {} => Br0 \in kernel \cup back
      /\ \A i \in added : Taken(back, stay)[i] = None /\ i \notin DOMAIN portals
    BY AddedIs
<1>6. \A i \in Iface \ touched' : Taken(back, stay)[i] = master[i]
    <2>1. SUFFICES ASSUME NEW i \in Iface \ touched', Taken(back, stay)[i] # master[i]
                   PROVE  FALSE
        OBVIOUS
    <2>2. PICK b : b = Taken(back, stay)[i]
        OBVIOUS
    <2>3. b \in back /\ i \in bridges[b]
        BY <1>1, <2>1, <2>2, TakenIs
    <2>4. b \in Bridge /\ b \notin kernel /\ i \in Saved(b)
        BY <1>1, <2>3 DEF Saved
    <2>5. master[i] = b
        BY <1>1, <1>3, <2>1, <2>4, QuietAgreed
    <2>6. QED
        BY <2>4, <2>5, Sets DEF HostOK
<1>7. master' = [i \in Iface |-> IF i \in added THEN Br0 ELSE Taken(back, stay)[i]]
    BY <1>1, ListedMaster
<1>8. /\ rows' = IF Br0 \in DOMAIN rows THEN [rows EXCEPT ![Br0] = @ \cup added] ELSE rows
      /\ bridges' = IF added = {} THEN bridges ELSE With(bridges, Br0, {i \in Iface : master'[i] = Br0})
    BY <1>1, ListedFiles
<1> HIDE DEF added
<1>9. \A i \in Iface \ touched' : IF i \in added THEN master[i] = None /\ master'[i] = Br0
                                 ELSE master'[i] = master[i]
    BY <1>5, <1>6, <1>7
<1>10. added \in SUBSET Iface /\ added \cap DOMAIN portals = {} /\ (added # {} => Br0 \in kernel')
    BY <1>2, <1>5, Sets
<1>11. \E a \in SUBSET Iface :
          /\ a \cap DOMAIN portals = {}
          /\ \A i \in Iface \ touched' : IF i \in a THEN master[i] = None /\ master'[i] = Br0
                                        ELSE master'[i] = master[i]
          /\ IF a = {} THEN bridges' = bridges
             ELSE bridges' = With(bridges, Br0, {i \in Iface : master'[i] = Br0})
          /\ rows' = IF Br0 \in DOMAIN rows THEN [rows EXCEPT ![Br0] = @ \cup a] ELSE rows
          /\ a # {} => Br0 \in kernel'
    BY <1>8, <1>9, <1>10
<1>12. QED
    BY <1>1, <1>2, <1>4, <1>11

\* A listing of bridges keeps kernel, file and rows in agreement.
LEMMA NetBridgeList ==
    ASSUME Careful, HostOK, FilesOK, JobsOK, NetInv, NEW w \in Worker, BridgeList(w)
    PROVE  NetInv'
<1>1. /\ touched \subseteq touched' /\ HostOK' /\ kernel \subseteq kernel' /\ kernel' \subseteq kernel \cup Bridge
      /\ \A i \in Iface \ touched' : i \in kernel' <=> i \in kernel
    BY ListedAgrees
<1>2. PICK added \in SUBSET Iface :
        /\ added \cap DOMAIN portals = {}
        /\ \A i \in Iface \ touched' : IF i \in added THEN master[i] = None /\ master'[i] = Br0
                                      ELSE master'[i] = master[i]
        /\ IF added = {} THEN bridges' = bridges
           ELSE bridges' = With(bridges, Br0, {i \in Iface : master'[i] = Br0})
        /\ rows' = IF Br0 \in DOMAIN rows THEN [rows EXCEPT ![Br0] = @ \cup added] ELSE rows
        /\ added # {} => Br0 \in kernel'
    BY ListedAgrees
<1>3. /\ \A v \in Vlan \ touched : v \in DOMAIN vlans <=> v \in kernel
      /\ \A b \in Bridge \ touched : /\ b \in DOMAIN bridges <=> b \in DOMAIN rows
                                     /\ b \in DOMAIN bridges <=> b \in kernel
      /\ \A i \in Iface \ touched, b \in Bridge : i \in Saved(b) <=> master[i] = b
      /\ \A i \in Iface \ touched, b \in Bridge \ touched : i \in Rowed(b) <=> i \in Saved(b)
      /\ Legacy(vlans) = {} /\ ~script /\ api = "up" /\ \A u \in Worker : job[u] = Idle
    BY QuietAgreed DEF BridgeList
<1>4. UNCHANGED <<vlans, portals, script, api, job>> /\ DOMAIN portals \subseteq Iface
      /\ Br0 \in Bridge /\ Br0 # None
    BY ConfIs, NetAssumption, Sets DEF BridgeList, portalConf, lifeVars, FilesOK, PortalConf
<1>5. /\ \A c : c # Br0 => (c \in DOMAIN bridges' <=> c \in DOMAIN bridges) /\ Saved(c)' = Saved(c)
      /\ added = {} => bridges' = bridges /\ Saved(Br0)' = Saved(Br0)
      /\ added # {} => Br0 \in DOMAIN bridges' /\ Saved(Br0)' = {i \in Iface : master'[i] = Br0}
    <2>1. CASE added = {}
        BY <1>2, <2>1 DEF Saved
    <2>2. CASE added # {}
        <3>1. PICK S : S = {i \in Iface : master'[i] = Br0}
            OBVIOUS
        <3>2. bridges' = With(bridges, Br0, S)
            BY <1>2, <2>2, <3>1
        <3>3. /\ \A z : z \in DOMAIN bridges' <=> z \in DOMAIN bridges \/ z = Br0
              /\ bridges'[Br0] = S
              /\ \A z \in DOMAIN bridges : z # Br0 => bridges'[z] = bridges[z]
            BY <3>2, WithIs
        <3>4. QED
            BY <2>2, <3>1, <3>3 DEF Saved
    <2>3. QED
        BY <2>1, <2>2
<1>6. /\ \A c : c \in DOMAIN rows' <=> c \in DOMAIN rows
      /\ \A c : c # Br0 => Rowed(c)' = Rowed(c)
      /\ Br0 \in DOMAIN rows => Rowed(Br0)' = Rowed(Br0) \cup added
    <2>1. rows \in [DOMAIN rows -> SUBSET Iface]
        BY ConfIs DEF FilesOK, BridgeConf
    <2>2. CASE Br0 \in DOMAIN rows
        <3>1. PICK R : R = rows[Br0] \cup added
            OBVIOUS
        <3>2. rows' = [rows EXCEPT ![Br0] = R]
            BY <1>2, <2>2, <3>1
        <3>3. /\ DOMAIN rows' = DOMAIN rows /\ rows'[Br0] = R
              /\ \A z \in DOMAIN rows : z # Br0 => rows'[z] = rows[z]
            BY <2>1, <2>2, <3>2
        <3>4. QED
            BY <2>2, <3>1, <3>3 DEF Rowed
    <2>3. CASE Br0 \notin DOMAIN rows
        <3>1. rows' = rows
            BY <1>2, <2>3
        <3>2. QED
            BY <2>3, <3>1 DEF Rowed
    <2>4. QED
        BY <2>2, <2>3
<1>7. \A i \in Iface \ touched', c \in Bridge : i \in Saved(c)' <=> master'[i] = c
    <2>1. SUFFICES ASSUME NEW i \in Iface \ touched', NEW c \in Bridge
                   PROVE  i \in Saved(c)' <=> master'[i] = c
        OBVIOUS
    <2>2. i \in Saved(c) <=> master[i] = c
        BY <1>1, <1>3, <2>1
    <2>3. CASE c = Br0 /\ added # {}
        BY <1>5, <2>1, <2>3
    <2>4. CASE c = Br0 /\ added = {}
        BY <1>2, <1>5, <2>1, <2>2, <2>4
    <2>5. CASE c # Br0
        BY <1>2, <1>5, <2>1, <2>2, <2>5, Sets
    <2>6. QED
        BY <2>3, <2>4, <2>5
<1>8. \A v \in Vlan \ touched' : v \in DOMAIN vlans' <=> v \in kernel'
    BY <1>1, <1>3, <1>4, Sets
<1>9. NicsInv' /\ BareInv' /\ LegacyInv' /\ VlansInv'
    BY <1>1, <1>3, <1>4, <1>8 DEF NetInv, NicsInv, BareInv, LegacyInv, Legacy, VlansInv, VlanAgrees
<1>10. MastersInv'
    BY <1>7 DEF MastersInv, MemberAgrees
<1>11. OwnersInv'
    BY <1>1, <1>7, <1>8, OwnersAgree
<1>12. FreeInv'
    <2>1. \A i \in DOMAIN portals \ touched' : master'[i] = None
        <3>1. \A i \in DOMAIN portals \ touched' : master[i] = None
            BY <1>1 DEF NetInv, FreeInv
        <3>2. QED
            BY <1>2, <1>4, <3>1
    <2>2. \A i \in DOMAIN portals \ touched', c \in Bridge : i \notin Saved(c)'
        BY <1>4, <1>7, <2>1, Sets
    <2>3. QED
        BY <1>3, <1>4, <2>1, <2>2 DEF FreeInv, Legacy
<1>13. BridgesInv'
    <2>1. ASSUME NEW c \in Bridge \ touched', c # Br0
          PROVE  BridgeAgrees(c)'
        BY <1>1, <1>3, <1>4, <1>5, <1>6, <2>1, Sets DEF BridgeAgrees
    <2>2. ASSUME Br0 \notin touched'
          PROVE  BridgeAgrees(Br0)'
        BY <1>1, <1>2, <1>3, <1>4, <1>5, <1>6, <2>2, Sets DEF BridgeAgrees
    <2>3. QED
        BY <2>1, <2>2 DEF BridgesInv
<1>14. RowsInv'
    <2>1. ASSUME NEW i \in Iface \ touched', NEW c \in Bridge \ touched', c # Br0
          PROVE  RowAgrees(i, c)'
        BY <1>1, <1>3, <1>5, <1>6, <2>1 DEF RowAgrees
    <2>2. ASSUME NEW i \in Iface \ touched', Br0 \notin touched'
          PROVE  RowAgrees(i, Br0)'
        <3>1. i \in Rowed(Br0) <=> master[i] = Br0
            BY <1>1, <1>3, <1>4, <2>2
        <3>2. i \in Saved(Br0)' <=> master'[i] = Br0
            BY <1>4, <1>7, <2>2
        <3>3. CASE added = {}
            <4>1. Rowed(Br0)' = Rowed(Br0) /\ master'[i] = master[i]
                BY <1>2, <1>6, <2>2, <3>3 DEF Rowed
            <4>2. QED
                BY <3>1, <3>2, <4>1 DEF RowAgrees
        <3>4. CASE added # {}
            <4>1. Br0 \in DOMAIN rows
                BY <1>1, <1>2, <1>3, <1>4, <2>2, <3>4, Sets
            <4>2. QED
                BY <1>2, <1>6, <2>2, <3>1, <3>2, <4>1 DEF RowAgrees
        <3>5. QED
            BY <3>3, <3>4
    <2>3. QED
        BY <2>1, <2>2 DEF RowsInv
<1>15. LinkJobsInv'
    BY <1>3, <1>4, IdleLinkJobs
<1>16. QED
    BY <1>9, <1>10, <1>11, <1>12, <1>13, <1>14, <1>15 DEF NetInv

\* What a request on a portal does to the kernel's links: nothing.
LEMMA NetPortalStep ==
    ASSUME FilesOK, JobsOK, OneRequest, NetInv, NEW w \in Worker,
           Teardown(w) \/ Provision(w) \/ ProvisionFails(w) \/ PortalRead(w) \/ PortalMirror(w)
    PROVE  NetInv'
<1>1. job[w].op \in PortalOps /\ job[w].op # "none"
    BY DEF Teardown, Provision, ProvisionFails, PortalRead, PortalMirror, At, PortalOps
<1>2. UNCHANGED <<kernel, master, vlans, bridges, rows, portals, script, api>>
    BY DEF Teardown, Provision, ProvisionFails, PortalRead, PortalMirror, hostVars, linkConf, portalConf, lifeVars
<1>3. touched \subseteq touched'
    BY DEF Teardown, Provision, ProvisionFails, PortalRead, PortalMirror, Fault, NoFault
<1>4. CASE ProvisionFails(w) \/ PortalMirror(w)
    BY <1>1, <1>2, <1>3, <1>4, NetAnswered DEF ProvisionFails, PortalMirror
<1>5. CASE \/ \E pc : Goto(w, pc)
           \/ PortalRead(w)
    <2>1. /\ job'[w].op = job[w].op /\ job'[w].i = job[w].i
          /\ \A u \in Worker \ {w} : job[u] = Idle /\ job'[u] = Idle
        BY <1>1, <1>5, GotoIs, PortalReadIs
    <2>2. \E j : job' = [job EXCEPT ![w] = j]
        BY <1>5 DEF Goto, PortalRead
    <2>3. LinksJob(w)
        BY DEF NetInv, LinkJobsInv
    <2>4. \A i \in {job[w].i} : PortalAlone(i) => PortalAlone(i)'
        BY <1>2, <1>3, SavedStays DEF PortalAlone
    <2>5. LinksJob(w)'
        BY <1>1, <2>1, <2>3, <2>4 DEF LinksJob, PortalOps
    <2>6. QED
        BY <1>1, <1>2, <1>3, <2>2, <2>5, NetMoves
<1>6. QED
    BY <1>4, <1>5 DEF Teardown, Provision

\* portals.conf is rewritten, with no entry for a member.
LEMMA NetPortalWrite ==
    ASSUME HostOK, FilesOK, JobsOK, OneRequest, SettingsInv, NetInv, NEW w \in Worker, PortalWrite(w)
    PROVE  NetInv'
<1>0. PICK i : i = job[w].i
    OBVIOUS
<1>1. /\ job[w].op \in PortalOps /\ job[w].pc = "write" /\ i \in Iface
      /\ job'[w].op = job[w].op /\ job'[w].i = i
      /\ \A u \in Worker \ {w} : job[u] = Idle /\ job'[u] = Idle
      /\ api = "up" /\ ~script
    BY <1>0, PortalWriteIs DEF JobsOK, JobOK
<1>2. UNCHANGED <<kernel, master, vlans, bridges, rows, script, api, touched>>
    BY DEF PortalWrite, hostVars, linkConf, lifeVars
<1>3. portals' = Entries(portals, job[w])
    BY <1>1 DEF PortalWrite, SettingsInv, SettingsJob
<1>4. LinksJob(w)
    BY DEF NetInv, LinkJobsInv
<1>5. Legacy(vlans) = {} /\ \A b : Saved(b)' = Saved(b) /\ Rowed(b)' = Rowed(b)
    BY <1>1, <1>2, SavedStays DEF NetInv, LegacyInv
<1>6. FreeInv'
    <2>1. CASE job[w].op = "delete"
        <3>1. portals' = Without(portals, i)
            BY <1>0, <1>3, <2>1 DEF Entries
        <3>2. \A k \in DOMAIN portals' : k \in DOMAIN portals
            BY <3>1, WithoutIs
        <3>3. QED
            BY <1>2, <1>5, <3>2 DEF NetInv, FreeInv
    <2>2. CASE job[w].op # "delete"
        <3>1. portals' = With(portals, i, job[w].want)
            BY <1>0, <1>3, <2>2 DEF Entries
        <3>2. \A k \in DOMAIN portals' : k \in DOMAIN portals \/ k = i
            BY <3>1, WithIs
        <3>3. PortalAlone(i)
            BY <1>0, <1>1, <1>4, <2>2 DEF LinksJob
        <3>4. QED
            BY <1>2, <1>5, <3>2, <3>3 DEF NetInv, FreeInv, PortalAlone
    <2>3. QED
        BY <2>1, <2>2
<1>7. \A k, b : ~VlanJob(k) /\ ~BridgeJob(k) /\ ~MemberJob(k, b)
    BY <1>1, NoLinkJobs DEF PortalOps, VlanOps, BridgeOps
<1>8. /\ NicsInv' /\ BareInv' /\ VlansInv' /\ BridgesInv' /\ MastersInv' /\ RowsInv'
      /\ OwnersInv' /\ LegacyInv'
    BY <1>2, <1>5, <1>7
    DEF NetInv, NicsInv, BareInv, VlansInv, BridgesInv, MastersInv, RowsInv, OwnersInv, LegacyInv,
        VlanAgrees, BridgeAgrees, MemberAgrees, RowAgrees
<1>9. LinksJob(w)'
    <2>1. PortalAlone(i) => PortalAlone(i)'
        BY <1>2, <1>5 DEF PortalAlone
    <2>2. QED
        BY <1>0, <1>1, <1>4, <2>1 DEF LinksJob, PortalOps
<1>10. LinkJobsInv'
    BY <1>1, <1>9, IdleLinksJob
<1>11. QED
    BY <1>6, <1>8, <1>10 DEF NetInv

\* An adapter that is pulled or plugged in is touched.
LEMMA NetPlugged ==
    ASSUME HostOK, FilesOK, JobsOK, NetInv, NEW n \in Nic, Unplug(n) \/ Plug(n)
    PROVE  NetInv'
<1>1. /\ UNCHANGED <<vlans, bridges, rows, portals, job, script, api>> /\ touched \subseteq touched'
      /\ n \in Iface \ Bridge
    BY Sets DEF Unplug, Plug, linkConf, portalConf, lifeVars, Fault
<1>2. /\ n \in touched' /\ kernel' \subseteq kernel \cup {n}
      /\ \A i \in Iface : i # n => (i \in kernel' <=> i \in kernel) /\ master'[i] = master[i]
      /\ master'[n] \in {master[n], None}
    <2>1. CASE Unplug(n)
        <3>1. /\ kernel' = kernel \ {n} /\ touched' = touched \cup {n}
              /\ \A k \in Iface : master'[k] = IF k = n THEN None ELSE master[k]
            BY <1>1, <2>1, VanishAlone DEF Unplug, Fault
        <3>2. QED
            BY <1>1, <3>1
    <2>2. CASE Plug(n)
        <3>1. kernel' = kernel \cup {n} /\ master' = master /\ touched' = touched /\ n \notin kernel
            BY <2>2 DEF Plug
        <3>2. n \in touched
            BY <3>1 DEF NetInv, NicsInv
        <3>3. QED
            BY <3>1, <3>2
    <2>3. QED
        BY <2>1, <2>2
<1>3. /\ \A i \in Iface \ touched' : (i \in kernel' <=> i \in kernel) /\ master'[i] = master[i]
      /\ \A i \in Iface : master'[i] \in {master[i], None}
    BY <1>2
<1>4. LinkJobsInv'
    BY <1>1, <1>3, SameLinkJobs
<1>5. BareInv'
    BY <1>1, <1>2, <1>3 DEF NetInv, BareInv
<1>6. \A i, b : /\ VlanJob(i) => VlanJob(i)'
                /\ BridgeJob(i) => BridgeJob(i)'
                /\ MemberJob(i, b) => MemberJob(i, b)'
    BY <1>1 DEF VlanJob, BridgeJob, MemberJob
<1>7. \A i \in (DOMAIN portals \cup Legacy(vlans)) \ touched' : master[i] = None => master'[i] = None
    <2>1. DOMAIN portals \cup Legacy(vlans) \subseteq Iface
        BY ConfIs, MigratedConf, Sets DEF FilesOK, PortalConf
    <2>2. QED
        BY <1>3, <2>1
<1>8. QED
    BY <1>1, <1>3, <1>4, <1>5, <1>6, <1>7, NetStays

\* What was in flight is lost, and the interfaces it was about are touched.
LEMMA Interruption ==
    ASSUME Cut
    PROVE  /\ \A u \in Worker : job'[u] = Idle
           /\ touched \subseteq touched' /\ UNCHANGED <<vlans, bridges, rows, portals>>
           /\ \A i \in Iface \ touched' : \A b : ~VlanJob(i) /\ ~BridgeJob(i) /\ ~MemberJob(i, b)
<1>1. \A w \in Worker : {job[w].i, job[w].arg} \cap Iface \subseteq touched'
    BY DEF Cut, Interrupted, Concerns
<1>2. QED
    BY <1>1 DEF Cut, linkConf, portalConf, VlanJob, BridgeJob, MemberJob

\* A crash of the API touches what was under way.
LEMMA NetApiCrash ==
    ASSUME FilesOK, NetInv, ApiCrash
    PROVE  NetInv'
<1>1. /\ \A u \in Worker : job'[u] = Idle
      /\ touched \subseteq touched' /\ UNCHANGED <<vlans, bridges, rows, portals>>
      /\ \A i \in Iface \ touched' : \A b : ~VlanJob(i) /\ ~BridgeJob(i) /\ ~MemberJob(i, b)
    BY Interruption DEF ApiCrash
<1>2. UNCHANGED <<kernel, master, script>> /\ api' = "boot"
    BY DEF ApiCrash, hostVars
<1>3. LinkJobsInv'
    BY <1>1, IdleLinkJobs
<1>4. BareInv'
    BY <1>2 DEF NetInv, BareInv
<1>5. QED
    BY <1>1, <1>2, <1>3, <1>4, NetStays

\* A power cut leaves the files, with all that is needed to rebuild the links.
LEMMA NetPowerCut ==
    ASSUME FilesOK, NetInv, PowerCut
    PROVE  NetInv'
<1>1. /\ \A u \in Worker : job'[u] = Idle
      /\ touched \subseteq touched' /\ UNCHANGED <<vlans, bridges, rows, portals>>
      /\ \A i \in Iface \ touched' : \A b : ~VlanJob(i) /\ ~BridgeJob(i) /\ ~MemberJob(i, b)
    BY Interruption DEF PowerCut
<1>2. /\ kernel' = kernel \cap Nic /\ script' /\ api' = "boot"
      /\ \A i \in Iface : master'[i] = None
    BY DEF PowerCut
<1>3. \A b : Saved(b)' = Saved(b) /\ Rowed(b)' = Rowed(b)
    BY <1>1, SavedStays
<1>4. DOMAIN portals \cup Legacy(vlans) \subseteq Iface
    BY ConfIs, MigratedConf, Sets DEF FilesOK, PortalConf
<1>5. NicsInv' /\ BareInv' /\ VlansInv' /\ MastersInv' /\ LegacyInv'
    BY <1>1, <1>2 DEF NetInv, NicsInv, BareInv, VlansInv, MastersInv, LegacyInv, Legacy
<1>6. BridgesInv' /\ RowsInv' /\ OwnersInv'
    BY <1>1, <1>2, <1>3, Sets
    DEF NetInv, BridgesInv, RowsInv, OwnersInv, BridgeAgrees, RowAgrees
<1>7. FreeInv'
    BY <1>1, <1>2, <1>3, <1>4 DEF NetInv, FreeInv, Legacy
<1>8. LinkJobsInv'
    BY <1>1, IdleLinkJobs
<1>9. QED
    BY <1>5, <1>6, <1>7, <1>8 DEF NetInv

\* The API starts, and the old format becomes entries.
LEMMA NetApiBoot ==
    ASSUME FilesOK, JobsOK, OneRequest, NetInv, ApiBoot
    PROVE  NetInv'
<1>1. /\ UNCHANGED <<kernel, master, bridges, rows, job, script>> /\ touched \subseteq touched'
      /\ portals' = Final /\ vlans' = Rewritten(vlans) /\ api' = "up"
    BY DEF ApiBoot, Final, Fault, NoFault
<1>2. \A u \in Worker : job[u] = Idle
    BY DEF ApiBoot, OneRequest
<1>3. /\ DOMAIN portals' = DOMAIN portals \cup Legacy(vlans)
      /\ DOMAIN vlans' = DOMAIN vlans /\ Legacy(vlans') = {}
    BY <1>1, MigratedConf, RewrittenConf DEF FilesOK
<1>4. \A b : Saved(b)' = Saved(b) /\ Rowed(b)' = Rowed(b)
    BY <1>1, SavedStays
<1>5. \A i, b : ~VlanJob(i) /\ ~BridgeJob(i) /\ ~MemberJob(i, b)
    BY <1>2, QuietLinkJobs
<1>6. NicsInv' /\ BareInv' /\ VlansInv' /\ MastersInv' /\ LegacyInv'
    BY <1>1, <1>3, <1>4, <1>5
    DEF NetInv, NicsInv, BareInv, VlansInv, MastersInv, LegacyInv, VlanAgrees, MemberAgrees
<1>7. BridgesInv' /\ RowsInv' /\ OwnersInv'
    BY <1>1, <1>3, <1>4, <1>5
    DEF NetInv, BridgesInv, RowsInv, OwnersInv, BridgeAgrees, RowAgrees
<1>8. FreeInv'
    <2>1. \A i \in (DOMAIN portals \cup Legacy(vlans)) \ touched :
            master[i] = None /\ \A b \in Bridge : i \notin Saved(b)
        BY DEF NetInv, FreeInv
    <2>2. DOMAIN portals' \cup Legacy(vlans') = DOMAIN portals \cup Legacy(vlans)
        BY <1>3
    <2>3. \A i \in (DOMAIN portals' \cup Legacy(vlans')) \ touched' :
            master'[i] = None /\ \A b \in Bridge : i \notin Saved(b)'
        BY <1>1, <1>4, <2>1, <2>2
    <2>4. QED
        BY <2>3 DEF FreeInv
<1>9. LinkJobsInv'
    BY <1>1, <1>2, IdleLinkJobs
<1>10. QED
    BY <1>6, <1>7, <1>8, <1>9 DEF NetInv

\* The script rebuilds links and memberships from the files.
LEMMA NetBootScript ==
    ASSUME HostOK, FilesOK, JobsOK, OneRequest, NetInv, BootScript
    PROVE  NetInv'
<1>1. PICK V \in SUBSET DOMAIN vlans :
        /\ touched \subseteq touched' /\ DOMAIN vlans \ V \subseteq touched'
        /\ kernel' = ScriptLinks(V) /\ master' = ScriptMaster(V)
    BY DEF BootScript, NoFault, Fault
<1>2. /\ UNCHANGED <<vlans, bridges, rows, portals, job, api>> /\ script /\ ~script'
      /\ \A u \in Worker : job[u] = Idle
    BY DEF BootScript, linkConf, portalConf, OneRequest
<1>3. /\ kernel' = kernel \cup V \cup DOMAIN bridges
      /\ \A i \in Iface :
           IF i \in kernel' \ Bridge /\ master[i] = None /\ \E b \in DOMAIN bridges : i \in bridges[b]
           THEN master'[i] \in DOMAIN bridges /\ i \in bridges[master'[i]] ELSE master'[i] = master[i]
    BY <1>1, ScriptMasterIs
<1>4. kernel \subseteq Nic /\ \A i \in Iface : master[i] = None
    BY <1>2 DEF NetInv, BareInv
<1>5. \A b : Saved(b)' = Saved(b) /\ Rowed(b)' = Rowed(b)
    BY <1>2, SavedStays
<1>6. \A i, b : ~VlanJob(i) /\ ~BridgeJob(i) /\ ~MemberJob(i, b)
    BY <1>2, QuietLinkJobs
<1>7. DOMAIN vlans \subseteq Vlan /\ DOMAIN bridges \subseteq Bridge /\ DOMAIN portals \cup Legacy(vlans) \subseteq Iface
    BY ConfIs, MigratedConf, Sets DEF FilesOK, VlanConf, BridgeConf, PortalConf
<1>8. \A i \in Iface \ touched', c \in Bridge : i \in Saved(c) <=> master'[i] = c
    <2>1. SUFFICES ASSUME NEW i \in Iface \ touched', NEW c \in Bridge
                   PROVE  i \in Saved(c) <=> master'[i] = c
        OBVIOUS
    <2>2. ASSUME i \in Saved(c)
          PROVE  master'[i] = c
        <3>1. c \in DOMAIN bridges /\ i \in bridges[c]
            BY <2>2 DEF Saved
        <3>2. i \in Nic \cup DOMAIN vlans /\ \A d \in Bridge : i \in Saved(d) => d = c
            BY <1>1, <2>1, <2>2 DEF NetInv, OwnersInv
        <3>3. i \in kernel' \ Bridge
            BY <1>1, <1>3, <1>7, <2>1, <3>2, Sets DEF NetInv, NicsInv
        <3>4. master'[i] \in DOMAIN bridges /\ i \in bridges[master'[i]]
            BY <1>3, <1>4, <2>1, <3>1, <3>3
        <3>5. PICK d : d = master'[i]
            OBVIOUS
        <3>6. d \in Bridge /\ i \in Saved(d)
            BY <1>7, <3>4, <3>5 DEF Saved
        <3>7. QED
            BY <3>2, <3>5, <3>6
    <2>3. ASSUME master'[i] = c
          PROVE  i \in Saved(c)
        <3>1. master'[i] # master[i]
            BY <1>4, <2>1, <2>3, Sets
        <3>2. c \in DOMAIN bridges /\ i \in bridges[c]
            BY <1>3, <2>1, <2>3, <3>1
        <3>3. QED
            BY <3>2 DEF Saved
    <2>4. QED
        BY <2>2, <2>3
<1>9. NicsInv' /\ BareInv' /\ LegacyInv'
    BY <1>1, <1>2, <1>3 DEF NetInv, NicsInv, BareInv, LegacyInv, Legacy
<1>10. VlansInv'
    BY <1>1, <1>2, <1>3, <1>4, <1>7, Sets DEF VlansInv, VlanAgrees
<1>11. BridgesInv'
    BY <1>1, <1>2, <1>3, <1>4, <1>6, <1>7, Sets DEF NetInv, BridgesInv, BridgeAgrees
<1>12. MastersInv'
    BY <1>5, <1>8 DEF MastersInv, MemberAgrees
<1>13. RowsInv' /\ OwnersInv'
    BY <1>1, <1>2, <1>5, <1>6 DEF NetInv, RowsInv, OwnersInv, RowAgrees
<1>14. FreeInv'
    <2>1. SUFFICES ASSUME NEW i \in (DOMAIN portals \cup Legacy(vlans)) \ touched'
                   PROVE  master'[i] = None /\ \A b \in Bridge : i \notin Saved(b)
        BY <1>2, <1>5 DEF FreeInv, Legacy
    <2>2. \A b \in Bridge : i \notin Saved(b)
        BY <1>1, <2>1 DEF NetInv, FreeInv
    <2>3. \A b \in DOMAIN bridges : i \notin bridges[b]
        BY <1>7, <2>2 DEF Saved
    <2>4. QED
        BY <1>3, <1>4, <1>7, <2>1, <2>2, <2>3
<1>15. LinkJobsInv'
    BY <1>2, IdleLinkJobs
<1>16. QED
    BY <1>9, <1>10, <1>11, <1>12, <1>13, <1>14, <1>15 DEF NetInv

\* Every step keeps kernel, files and rows in agreement.
LEMMA NetKept ==
    ASSUME Careful, HostOK, FilesOK, JobsOK, OneRequest, SettingsInv, NetInv, [Next]_vars
    PROVE  NetInv'
<1>1. ASSUME NEW w \in Worker, NEW v \in Vlan, NEW t \in Cidr \cup {Plain},
             VLANCreate(w, v, t)
      PROVE  NetInv'
    BY <1>1, NetVLANCreate
<1>2. ASSUME NEW w \in Worker, NEW v \in Vlan,
             VLANDelete(w, v)
      PROVE  NetInv'
    BY <1>2, NetVLANDelete
<1>3. ASSUME NEW w \in Worker,
             VLANLink(w)
      PROVE  NetInv'
    BY <1>3, NetVLANLink
<1>4. ASSUME NEW w \in Worker,
             VLANUnlink(w)
      PROVE  NetInv'
    BY <1>4, NetVLANUnlink
<1>5. ASSUME NEW w \in Worker,
             VLANRead(w)
      PROVE  NetInv'
    BY <1>5, NetVLANRead
<1>6. ASSUME NEW w \in Worker,
             VLANWrite(w)
      PROVE  NetInv'
    BY <1>6, NetVLANWrite
<1>7. ASSUME NEW w \in Worker,
             VLANList(w)
      PROVE  NetInv'
    BY <1>7, NetVLANList
<1>8. ASSUME NEW w \in Worker,
             \/ \E b \in Bridge : BridgeCreate(w, b)
             \/ \E b \in Bridge : BridgeDelete(w, b)
      PROVE  NetInv'
    BY <1>8, NetBridgeCreate
<1>9. ASSUME NEW w \in Worker,
             \/ \E b \in Bridge, m \in Iface : BridgeAddMember(w, b, m)
             \/ \E b \in Bridge, m \in Iface : BridgeRemoveMember(w, b, m)
      PROVE  NetInv'
    BY <1>9, NetBridgeMember
<1>10. ASSUME NEW w \in Worker,
              BridgeLink(w)
       PROVE  NetInv'
    BY <1>10, NetBridgeLink
<1>11. ASSUME NEW w \in Worker,
              BridgeUnlink(w)
       PROVE  NetInv'
    BY <1>11, NetBridgeUnlink
<1>12. ASSUME NEW w \in Worker,
              BridgeEnslave(w) \/ BridgeRelease(w)
       PROVE  NetInv'
    BY <1>12, NetBridgeEnslave
<1>13. ASSUME NEW w \in Worker,
              BridgeRow(w)
       PROVE  NetInv'
    BY <1>13, NetBridgeRow
<1>14. ASSUME NEW w \in Worker,
              BridgeRead(w)
       PROVE  NetInv'
    BY <1>14, NetBridgeRead
<1>15. ASSUME NEW w \in Worker,
              BridgeWrite(w)
       PROVE  NetInv'
    BY <1>15, NetBridgeWrite
<1>16. ASSUME NEW w \in Worker,
              BridgeList(w)
       PROVE  NetInv'
    BY <1>16, NetBridgeList
<1>17. ASSUME NEW w \in Worker,
              \/ \E i \in Iface, c \in Cidr, anti \in BOOLEAN : PortalCreate(w, i, c, anti)
              \/ \E i \in Iface, c \in Cidr, anti \in BOOLEAN : PortalUpdate(w, i, c, anti)
              \/ \E i \in Iface : PortalEnable(w, i)
              \/ \E i \in Iface : PortalDisable(w, i)
       PROVE  NetInv'
    BY <1>17, NetPortalBegun
<1>18. ASSUME NEW w \in Worker, NEW i \in Iface,
              PortalDelete(w, i)
       PROVE  NetInv'
    BY <1>18, NetPortalDelete
<1>19. ASSUME NEW w \in Worker,
              PortalList(w)
       PROVE  NetInv'
    BY <1>19, NetPortalList
<1>20. ASSUME NEW w \in Worker,
              \/ Teardown(w) \/ Provision(w) \/ ProvisionFails(w) \/ PortalRead(w)
              \/ PortalMirror(w)
       PROVE  NetInv'
    BY <1>20, NetPortalStep
<1>21. ASSUME NEW w \in Worker,
              PortalWrite(w)
       PROVE  NetInv'
    BY <1>21, NetPortalWrite
<1>22. CASE BootScript
    BY <1>22, NetBootScript
<1>23. CASE ApiBoot
    BY <1>23, NetApiBoot
<1>24. CASE ApiCrash
    BY <1>24, NetApiCrash
<1>25. CASE PowerCut
    BY <1>25, NetPowerCut
<1>26. ASSUME NEW n \in Nic,
              Unplug(n)
       PROVE  NetInv'
    BY <1>26, NetPlugged
<1>27. ASSUME NEW n \in Nic,
              Plug(n)
       PROVE  NetInv'
    BY <1>27, NetPlugged
<1>28. CASE UNCHANGED vars
    BY <1>28, NetSame DEF vars, portalConf
<1>29. QED
    BY <1>1, <1>2, <1>3, <1>4, <1>5, <1>6, <1>7, <1>8, <1>9, <1>10, <1>11, <1>12, <1>13,
       <1>14, <1>15, <1>16, <1>17, <1>18, <1>19, <1>20, <1>21, <1>22, <1>23, <1>24,
       <1>25, <1>26, <1>27, <1>28
    DEF Next, LinkRequest, LinkStep, PortalRequest, PortalStep

\* Kernel, files and rows agree at first.
LEMMA InitNet == Init => NetInv
<1> SUFFICES ASSUME Init PROVE NetInv
    OBVIOUS
<1>1. PICK old \in [Vlan -> Cidr \cup {Plain, None}], B \in SUBSET Bridge :
        LET V == {v \in Vlan : old[v] # None}
        IN /\ vlans = Restrict(old, V) /\ bridges = [b \in B |-> {}] /\ rows = bridges
           /\ kernel = Nic \cup V \cup B
    BY DEF Init
<1> DEFINE V == {v \in Vlan : old[v] # None}
<1>2. DOMAIN vlans = V
    BY <1>1 DEF Restrict
<1>3. /\ DOMAIN bridges = B /\ rows = bridges /\ kernel = Nic \cup V \cup B /\ V \subseteq Vlan
      /\ \A b : Saved(b) = {} /\ Rowed(b) = {}
    BY <1>1 DEF Saved, Rowed
<1>4. /\ \A i \in Iface : master[i] = None
      /\ \A w \in Worker : job[w] = Idle
      /\ api = "boot" /\ ~script /\ DOMAIN portals = {} /\ touched = {}
    <2>1. portals = <<>>
        BY DEF Init
    <2>2. DOMAIN portals = {}
        BY <2>1
    <2>3. QED
        BY <2>2 DEF Init
<1>5. Legacy(vlans) \subseteq Iface
    BY <1>2, Sets DEF Legacy
<1> HIDE DEF V
<1>6. NicsInv /\ BareInv /\ LegacyInv
    BY <1>3, <1>4 DEF NicsInv, BareInv, LegacyInv
<1>7. VlansInv /\ BridgesInv
    BY <1>2, <1>3, Sets DEF VlansInv, BridgesInv, VlanAgrees, BridgeAgrees
<1>8. MastersInv /\ RowsInv /\ OwnersInv
    BY <1>3, <1>4, Sets DEF MastersInv, RowsInv, OwnersInv, MemberAgrees, RowAgrees
<1>9. FreeInv
    BY <1>3, <1>4, <1>5 DEF FreeInv
<1>10. LinkJobsInv
    BY <1>4 DEF LinkJobsInv, LinksJob, Idle, PortalOps
<1>11. QED
    BY <1>6, <1>7, <1>8, <1>9, <1>10 DEF NetInv

\* With what the requests have in hand, file, kernel and database agree all the time.
LEMMA NetInvAlways == ASSUME Careful PROVE Spec => [](TypeInv /\ OneRequest /\ SettingsInv /\ NetInv)
<1> DEFINE Inv == TypeInv /\ OneRequest /\ SettingsInv /\ NetInv
<1>1. Init => Inv
    BY InitTypes, InitSettings, InitNet
<1>2. Inv /\ [Next]_vars => Inv'
    BY TypesKept, OneKept, SettingsKeptOn, NetKept DEF TypeInv
<1>3. QED
    BY <1>1, <1>2, PTL DEF Spec

\* No interface with a portal is a member of a bridge, in the kernel, however requests,
\* faults and restarts follow each other, while the operator lets a request end before
\* the next one starts.
THEOREM PortalsStandAlone == ASSUME Careful PROVE Spec => []PortalNotEnslaved
<1>1. FilesOK /\ NetInv => PortalNotEnslaved
    BY DEF NetInv, FreeInv, PortalNotEnslaved
<1>2. QED
    BY <1>1, NetInvAlways, PTL DEF TypeInv

\* Once nothing is under way kernel, bridges.conf and database agree on every bridge
\* and on its members, but for what a fault or a cut has touched.
THEOREM MembersAgree == ASSUME Careful PROVE Spec => []BridgesAgree
<1>1. ASSUME HostOK, FilesOK, NetInv
      PROVE  BridgesAgree
    <2>1. SUFFICES ASSUME Settled, NEW b \in (kernel \cap Bridge) \ touched
                   PROVE  /\ b \in DOMAIN bridges /\ b \in DOMAIN rows
                          /\ bridges[b] \ touched = Members(b) \ touched
                          /\ rows[b] \ touched = Members(b) \ touched
        BY DEF BridgesAgree
    <2>2. ~script /\ \A u \in Worker : job[u] = Idle
        BY <2>1 DEF Settled, Quiet
    <2>3. \A i, c : ~VlanJob(i) /\ ~BridgeJob(i) /\ ~MemberJob(i, c)
        BY <2>2, QuietLinkJobs
    <2>4. b \in Bridge \ touched /\ b \in kernel
        BY <2>1
    <2>5. b \in DOMAIN bridges /\ b \in DOMAIN rows
        BY <1>1, <2>2, <2>3, <2>4, Agreed
    <2>6. \A i \in Iface \ touched : (i \in Saved(b) <=> master[i] = b) /\ (i \in Rowed(b) <=> i \in Saved(b))
        BY <1>1, <2>2, <2>3, <2>4, Agreed
    <2>7. bridges[b] \subseteq Iface /\ rows[b] \subseteq Iface
        <3>1. \A c \in DOMAIN bridges : bridges[c] \in SUBSET Iface
            BY <1>1, ConfIs DEF FilesOK, BridgeConf
        <3>2. \A c \in DOMAIN rows : rows[c] \in SUBSET Iface
            BY <1>1, ConfIs DEF FilesOK, BridgeConf
        <3>3. QED
            BY <2>5, <3>1, <3>2
    <2>8. Saved(b) = bridges[b] /\ Rowed(b) = rows[b]
        BY <2>5 DEF Saved, Rowed
    <2>9. QED
        BY <2>5, <2>6, <2>7, <2>8 DEF Members
<1>2. QED
    BY <1>1, NetInvAlways, PTL DEF TypeInv

-----------------------------------------------------------------------------
\* The stack of a portal

\* Without the old format the entries are those of the file.
LEMMA FinalIs ==
    ASSUME portals \in PortalConf, Legacy(vlans) = {}
    PROVE  /\ Enabled(Final) = Enabled(portals)
           /\ \A i \in Enabled(portals) : Final[i] = portals[i]
    BY DEF Final, Migrated, Enabled

\* ... also after a step.
LEMMA FinalIsNext ==
    ASSUME portals' \in PortalConf, Legacy(vlans)' = {}
    PROVE  /\ Enabled(Final)' = Enabled(portals)'
           /\ \A i \in Enabled(portals)' : Final'[i] = portals'[i]
    BY DEF Final, Migrated, Enabled

\* While the API is up and the script has run, what is kept is what is served.
LEMMA FitsUp ==
    ASSUME portals \in PortalConf, Legacy(vlans) = {}, api = "up", ~script, NEW i
    PROVE  Fits(i) <=> Served(i)
<1>1. i \in Enabled(portals) => (Ready(i, portals[i]) <=> Serving(i, portals[i]))
    BY DEF Ready, Serving
<1>2. QED
    BY <1>1, FinalIs DEF Fits, Served

\* ... also after a step.
LEMMA FitsUpNext ==
    ASSUME portals' \in PortalConf, Legacy(vlans)' = {}, api' = "up", ~script', NEW i
    PROVE  Fits(i)' <=> Served(i)'
<1>1. \A e : Ready(i, e)' <=> Serving(i, e)'
    BY DEF Ready, Serving
<1>2. i \in Enabled(portals)' => (Ready(i, Final[i])' <=> Serving(i, portals[i])')
    BY <1>1, FinalIsNext
<1>3. i \in Enabled(Final)' <=> i \in Enabled(portals)'
    BY FinalIsNext
<1>4. QED
    BY <1>2, <1>3 DEF Fits, Served

\* What requests find.
LEMMA StackUp ==
    ASSUME FilesOK, NetInv, StackInv, api = "up", ~script
    PROVE  /\ Legacy(vlans) = {}
           /\ \A i \in Iface \ touched : Served(i) \/ PortalJob(i)
<1>1. Legacy(vlans) = {}
    BY DEF NetInv, LegacyInv
<1>2. QED
    BY <1>1, FitsUp DEF StackInv, FilesOK

\* ... and leave.
LEMMA StackLeft ==
    ASSUME FilesOK', NetInv', api' = "up", ~script',
           \A i \in Iface \ touched' : Served(i)' \/ PortalJob(i)', \A w \in Worker : StackJob(w)'
    PROVE  StackInv'
<1>1. Legacy(vlans)' = {}
    BY DEF NetInv, LegacyInv
<1>2. QED
    BY <1>1, FitsUpNext DEF StackInv, FilesOK

\* Where no request is past its teardown, no stack is between two states.
LEMMA NoPortalJobs ==
    ASSUME NEW w \in Worker, \A u \in Worker \ {w} : job[u] = Idle,
           job[w].op \notin PortalOps \/ job[w].pc = "teardown"
    PROVE  \A i : ~PortalJob(i)
    BY DEF PortalJob, PortalOps, Idle

\* What the one request has done is all there is to know of the requests.
LEMMA IdleStackJobs ==
    ASSUME NEW w \in Worker, \A u \in Worker \ {w} : job'[u] = Idle,
           job'[w].op \notin PortalOps \/ StackJob(w)'
    PROVE  \A u \in Worker : StackJob(u)'
    BY DEF StackJob, Idle, PortalOps

\* A stack, its interface and its entry stay as they are.
LEMMA ServedStays ==
    ASSUME NEW i, stack'[i] = stack[i], portals' = portals, i \in kernel' <=> i \in kernel
    PROVE  Served(i)' <=> Served(i)
    BY DEF Served, Serving, Plainly, Enabled

\* A request on VLANs or bridges, or a listing, leaves the stacks as they are.
LEMMA StackLinks ==
    ASSUME FilesOK, FilesOK', NetInv, NetInv', StackInv, api = "up", ~script, UNCHANGED <<portals, script, api>>,
           NEW w \in Worker, \A u \in Worker \ {w} : job[u] = Idle /\ job'[u] = Idle,
           job[w].op \notin PortalOps, job'[w].op \notin PortalOps, touched \subseteq touched',
           \A i \in Iface \ touched' : Served(i) => Served(i)'
    PROVE  StackInv'
<1>1. \A i \in Iface \ touched' : Served(i)
    BY StackUp, NoPortalJobs
<1>2. \A u \in Worker : StackJob(u)'
    BY IdleStackJobs
<1>3. QED
    BY <1>1, <1>2, StackLeft

\* A request on a VLAN, a bridge or a member begins.
LEMMA StackLinkBegun ==
    ASSUME Careful, FilesOK, FilesOK', JobsOK, NetInv, NetInv', StackInv, NEW w \in Worker,
           \/ \E v \in Vlan, t \in Cidr \cup {Plain} : VLANCreate(w, v, t)
           \/ \E v \in Vlan : VLANDelete(w, v)
           \/ \E b \in Bridge : BridgeCreate(w, b) \/ BridgeDelete(w, b)
           \/ \E b \in Bridge, m \in Iface : BridgeAddMember(w, b, m) \/ BridgeRemoveMember(w, b, m)
    PROVE  StackInv'
<1>1. \E j : Begin(w, j) /\ portals' = portals /\ j.op \in VlanOps \cup BridgeOps
    <2>1. ASSUME NEW v \in Vlan, NEW t \in Cidr \cup {Plain}, VLANCreate(w, v, t)
          PROVE  \E j : Begin(w, j) /\ UNCHANGED portalConf /\ j.op = "vlan+"
        BY <2>1, VLANCreateIs
    <2>2. ASSUME NEW v \in Vlan, VLANDelete(w, v)
          PROVE  \E j : Begin(w, j) /\ UNCHANGED portalConf /\ j.op = "vlan-"
        BY <2>2, VLANDeleteIs
    <2>3. ASSUME NEW b \in Bridge, BridgeCreate(w, b) \/ BridgeDelete(w, b)
          PROVE  \E j : Begin(w, j) /\ UNCHANGED portalConf /\ j.op \in {"bridge+", "bridge-"}
        BY <2>3, BridgeCreateIs, BridgeDeleteIs
    <2>4. ASSUME NEW b \in Bridge, NEW m \in Iface, BridgeAddMember(w, b, m) \/ BridgeRemoveMember(w, b, m)
          PROVE  \E j : Begin(w, j) /\ UNCHANGED portalConf /\ j.op \in {"member+", "member-"}
        BY <2>4, BridgeAddMemberIs, BridgeRemoveMemberIs
    <2>5. QED
        BY <2>1, <2>2, <2>3, <2>4 DEF portalConf, VlanOps, BridgeOps
<1>2. PICK j : Begin(w, j) /\ portals' = portals /\ j.op \in VlanOps \cup BridgeOps
    BY <1>1
<1>3. /\ job'[w] = j /\ job[w] = Idle /\ \A u \in Worker \ {w} : job[u] = Idle /\ job'[u] = Idle
      /\ UNCHANGED <<kernel, stack, script, api, touched>> /\ api = "up" /\ ~script
    BY <1>2, BegunIs DEF hostVars, lifeVars
<1>4. job[w].op \notin PortalOps /\ job'[w].op \notin PortalOps
    BY <1>2, <1>3 DEF Idle, PortalOps, VlanOps, BridgeOps
<1>5. \A i : Served(i)' <=> Served(i)
    BY <1>2, <1>3, ServedStays
<1>6. QED
    BY <1>2, <1>3, <1>4, <1>5, StackLinks

\* What a request on VLANs or bridges becomes.
LEMMA LinkStepIs ==
    ASSUME JobsOK, OneRequest, NEW w \in Worker,
           \/ VLANLink(w) \/ VLANUnlink(w) \/ VLANRead(w) \/ VLANWrite(w)
           \/ BridgeLink(w) \/ BridgeUnlink(w) \/ BridgeEnslave(w) \/ BridgeRelease(w)
           \/ BridgeRow(w) \/ BridgeRead(w) \/ BridgeWrite(w)
    PROVE  /\ \A u \in Worker \ {w} : job[u] = Idle /\ job'[u] = Idle
           /\ api = "up" /\ ~script /\ UNCHANGED <<portals, script, api>>
           /\ job[w].op \notin PortalOps /\ job'[w].op \notin PortalOps /\ touched \subseteq touched'
<1>1. job[w].op \in VlanOps \cup BridgeOps /\ job[w].op # "none"
    BY DEF VLANLink, VLANUnlink, VLANRead, VLANWrite, BridgeLink, BridgeUnlink, BridgeEnslave,
       BridgeRelease, BridgeRow, BridgeRead, BridgeWrite, At, VlanOps, BridgeOps
<1>2. \E j : job' = [job EXCEPT ![w] = j]
    BY DEF VLANLink, VLANUnlink, VLANRead, VLANWrite, BridgeLink, BridgeUnlink, BridgeEnslave,
       BridgeRelease, BridgeRow, BridgeRead, BridgeWrite, Goto, Answer
<1>3. /\ \A u \in Worker \ {w} : job[u] = Idle /\ job'[u] = Idle
      /\ api = "up" /\ ~script
    BY <1>1, <1>2, StepIs
<1>4. (\E pc : Goto(w, pc)) \/ Answer(w) \/ VLANRead(w) \/ BridgeRead(w) \/ BridgeWrite(w)
    BY DEF VLANLink, VLANUnlink, VLANWrite, BridgeLink, BridgeUnlink, BridgeEnslave, BridgeRelease, BridgeRow
<1>5. job'[w].op = job[w].op \/ job'[w] = Idle
    BY <1>1, <1>4, GotoIs, AnswerIs, VLANReadIs, BridgeReadIs, BridgeWriteIs
<1>6. UNCHANGED <<portals, script, api>>
    BY DEF VLANLink, VLANUnlink, VLANRead, VLANWrite, BridgeLink, BridgeUnlink, BridgeEnslave,
       BridgeRelease, BridgeRow, BridgeRead, BridgeWrite, portalConf, lifeVars
<1>7. touched \subseteq touched'
    BY DEF VLANLink, VLANUnlink, VLANRead, VLANWrite, BridgeLink, BridgeUnlink, BridgeEnslave,
       BridgeRelease, BridgeRow, BridgeRead, BridgeWrite, Fault, NoFault
<1>8. job[w].op \notin PortalOps /\ job'[w].op \notin PortalOps
    BY <1>1, <1>5 DEF VlanOps, BridgeOps, PortalOps, Idle
<1>9. QED
    BY <1>3, <1>6, <1>7, <1>8

\* Its steps on files, rows and masters leave stacks and interfaces alone.
LEMMA StackSame ==
    ASSUME FilesOK, FilesOK', JobsOK, OneRequest, NetInv, NetInv', StackInv, NEW w \in Worker,
           \/ VLANRead(w) \/ VLANWrite(w) \/ BridgeEnslave(w) \/ BridgeRelease(w)
           \/ BridgeRow(w) \/ BridgeRead(w) \/ BridgeWrite(w)
    PROVE  StackInv'
<1>1. UNCHANGED <<kernel, stack>>
    BY DEF VLANRead, VLANWrite, BridgeEnslave, BridgeRelease, BridgeRow, BridgeRead, BridgeWrite, hostVars
<1>2. \A i : Served(i)' <=> Served(i)
    BY <1>1, LinkStepIs, ServedStays
<1>3. QED
    BY <1>2, LinkStepIs, StackLinks

\* An interface that appears or goes has no portal, or was touched.
LEMMA BareAppears ==
    ASSUME HostOK, NEW i \in Iface \ kernel, Served(i), portals' = portals,
           stack'[i] = [stack[i] EXCEPT !.ip = stack[i].file]
    PROVE  Served(i)'
<1>1. i \notin Enabled(portals) /\ Plainly(i)
    BY DEF Served, Serving
<1>2. stack[i] \in Stack
    BY DEF HostOK
<1>3. stack[i].ip = None /\ stack[i].file = None
    BY <1>1, <1>2 DEF Plainly, Blank
<1>4. stack'[i] = stack[i]
    BY <1>2, <1>3 DEF Stack
<1>5. QED
    BY <1>1, <1>4 DEF Served, Plainly, Enabled

\* ... and one that goes without an enabled portal is as bare as it was.
LEMMA BareGoes ==
    ASSUME HostOK, NEW i \in Iface, Served(i), portals' = portals, i \notin Enabled(portals),
           stack'[i] = [stack[i] EXCEPT !.ip = None]
    PROVE  Served(i)'
<1>1. i \notin Enabled(portals) /\ Plainly(i)
    BY DEF Served
<1>2. stack[i] \in Stack
    BY DEF HostOK
<1>3. stack[i].ip = None
    BY <1>1, <1>2 DEF Plainly, Blank
<1>4. stack'[i] = stack[i]
    BY <1>2, <1>3 DEF Stack
<1>5. QED
    BY <1>1, <1>4 DEF Served, Plainly, Enabled

\* A VLAN or a bridge is added, or fails and is touched.
LEMMA StackLink ==
    ASSUME HostOK, FilesOK, FilesOK', JobsOK, OneRequest, NetInv, NetInv', StackInv, NEW w \in Worker,
           VLANLink(w) \/ BridgeLink(w)
    PROVE  StackInv'
<1>0. PICK v : v = job[w].i
    OBVIOUS
<1>1. v \in Iface
    BY <1>0, Sets DEF VLANLink, BridgeLink, At, JobsOK, JobOK, VlanOps, BridgeOps
<1>2. portals' = portals
    BY LinkStepIs
<1>3. ASSUME kernel' = kernel \cup {v}, stack' = Appeared({v} \ kernel)
      PROVE  \A i \in Iface : Served(i) => Served(i)'
    <2>1. \A i \in Iface : i # v => (i \in kernel' <=> i \in kernel) /\ stack'[i] = stack[i]
        BY <1>3, AppearedIs
    <2>2. \A i \in Iface : i # v => (Served(i)' <=> Served(i))
        BY <1>2, <2>1, ServedStays
    <2>3. CASE v \in kernel
        <3>1. v \in kernel' /\ stack'[v] = stack[v]
            BY <1>1, <1>3, <2>3, AppearedIs
        <3>2. Served(v)' <=> Served(v)
            BY <1>2, <2>3, <3>1, ServedStays
        <3>3. QED
            BY <2>2, <3>2
    <2>4. CASE v \notin kernel
        <3>1. stack'[v] = [stack[v] EXCEPT !.ip = stack[v].file]
            <4>1. PICK S : S = {v} \ kernel
                OBVIOUS
            <4>2. v \in S /\ stack' = Appeared(S)
                BY <1>3, <2>4, <4>1
            <4>3. QED
                BY <1>1, <4>2, AppearedIs
        <3>2. Served(v) => Served(v)'
            BY <1>1, <1>2, <2>4, <3>1, BareAppears
        <3>3. QED
            BY <2>2, <3>2
    <2>5. QED
        BY <2>3, <2>4
<1>4. ASSUME UNCHANGED hostVars
      PROVE  \A i \in Iface : Served(i) => Served(i)'
    BY <1>2, <1>4, ServedStays DEF hostVars
<1>5. ASSUME Vanish(v), v \in touched'
      PROVE  \A i \in Iface \ touched' : Served(i) => Served(i)'
    <2>1. \A i \in Iface \ touched' : (i \in kernel' <=> i \in kernel) /\ stack'[i] = stack[i]
        BY <1>1, <1>5, VanishIs
    <2>2. QED
        BY <1>2, <2>1, ServedStays
<1>6. \/ kernel' = kernel \cup {v} /\ stack' = Appeared({v} \ kernel)
      \/ UNCHANGED hostVars
      \/ Vanish(v) /\ v \in touched'
    <2>1. CASE VLANLink(w)
        BY <1>0, <2>1 DEF VLANLink, Fault
    <2>2. CASE BridgeLink(w)
        <3>1. v \notin kernel => {v} \ kernel = {v}
            OBVIOUS
        <3>2. QED
            BY <1>0, <2>2, <3>1 DEF BridgeLink
    <2>3. QED
        BY <2>1, <2>2
<1>7. \A i \in Iface \ touched' : Served(i) => Served(i)'
    BY <1>3, <1>4, <1>5, <1>6
<1>8. QED
    BY <1>7, LinkStepIs, StackLinks

\* A VLAN or a bridge is deleted, which has no portal.
LEMMA StackUnlink ==
    ASSUME HostOK, FilesOK, FilesOK', JobsOK, OneRequest, NetInv, NetInv', StackInv, NEW w \in Worker,
           VLANUnlink(w) \/ BridgeUnlink(w)
    PROVE  StackInv'
<1>0. PICK v : v = job[w].i
    OBVIOUS
<1>1. v \in Iface /\ job[w].op \in {"vlan-", "bridge-"}
    BY <1>0, Sets DEF VLANUnlink, BridgeUnlink, At, JobsOK, JobOK, VlanOps, BridgeOps
<1>2. portals' = portals /\ touched \subseteq touched'
    BY LinkStepIs
<1>3. v \notin touched => v \notin DOMAIN portals
    BY <1>0, <1>1 DEF NetInv, LinkJobsInv, LinksJob, VlanGone, BridgeGone
<1>4. \A i \in Iface \ touched' : Served(i) => Served(i)'
    <2>1. CASE UNCHANGED hostVars
        BY <1>2, <2>1, ServedStays DEF hostVars
    <2>2. CASE Vanish(v)
        <3>1. /\ kernel' = kernel \ {v}
              /\ \A k \in Iface \ {v} : stack'[k] = stack[k]
              /\ stack'[v] = [stack[v] EXCEPT !.ip = None]
            BY <1>1, <2>2, VanishIs
        <3>2. \A i \in Iface : i # v => (Served(i)' <=> Served(i))
            BY <1>2, <3>1, ServedStays
        <3>3. v \notin touched' => (Served(v) => Served(v)')
            BY <1>1, <1>2, <1>3, <3>1, BareGoes DEF Enabled
        <3>4. QED
            BY <3>2, <3>3
    <2>3. QED
        BY <1>0, <2>1, <2>2 DEF VLANUnlink, BridgeUnlink
<1>5. QED
    BY <1>4, LinkStepIs, StackLinks

\* Interfaces that appear in a listing were missing, so they were touched.
LEMMA StackAppeared ==
    ASSUME Careful, HostOK, FilesOK, FilesOK', JobsOK, NetInv, NetInv', StackInv, NEW w \in Worker,
           MayServe(w), UNCHANGED <<job, portals, script, api>>, touched \subseteq touched',
           \A i \in Iface \ touched' : (i \in kernel' <=> i \in kernel) /\ stack'[i] = stack[i]
    PROVE  StackInv'
<1>1. /\ \A u \in Worker : job[u] = Idle /\ job'[u] = Idle
      /\ api = "up" /\ ~script
    BY DEF MayServe, Quiet
<1>2. job[w].op \notin PortalOps /\ job'[w].op \notin PortalOps
    BY <1>1 DEF Idle, PortalOps
<1>3. \A i \in Iface \ touched' : Served(i) => Served(i)'
    BY ServedStays
<1>4. QED
    BY <1>1, <1>2, <1>3, StackLinks

\* A listing of VLANs brings back only what was touched.
LEMMA StackVLANList ==
    ASSUME Careful, HostOK, FilesOK, FilesOK', JobsOK, NetInv, NetInv', StackInv, NEW w \in Worker,
           VLANList(w)
    PROVE  StackInv'
<1>1. MayServe(w) /\ UNCHANGED <<job, portals, script, api>>
    BY DEF VLANList, portalConf, lifeVars
<1>2. PICK back \in SUBSET (DOMAIN vlans \ kernel) :
        /\ kernel' = kernel \cup back /\ stack' = Appeared(back)
        /\ touched \subseteq touched' /\ (DOMAIN vlans \ kernel) \ back \subseteq touched'
    BY DEF VLANList, NoFault, Fault
<1>3. DOMAIN vlans \subseteq Vlan
    BY ConfIs DEF FilesOK, VlanConf
<1>4. back \subseteq touched'
    BY <1>1, <1>2, <1>3, QuietAgreed
<1>5. \A i \in Iface \ touched' : (i \in kernel' <=> i \in kernel) /\ stack'[i] = stack[i]
    BY <1>2, <1>4, AppearedIs
<1>6. QED
    BY <1>1, <1>2, <1>5, StackAppeared

\* A listing of bridges brings back only what was touched.
LEMMA StackBridgeList ==
    ASSUME Careful, HostOK, FilesOK, FilesOK', JobsOK, NetInv, NetInv', StackInv, NEW w \in Worker,
           BridgeList(w)
    PROVE  StackInv'
<1>1. MayServe(w) /\ UNCHANGED <<job, portals, script, api>>
    BY DEF BridgeList, portalConf, lifeVars
<1>2. PICK back \in SUBSET Bridge, stay \in SUBSET Iface :
        /\ Listed(back, stay) /\ back \subseteq DOMAIN bridges \ kernel
        /\ touched' = touched \cup ((DOMAIN bridges \ kernel) \ back) \cup stay
    BY BridgeListIs
<1>3. kernel' = kernel \cup back /\ stack' = Appeared(back)
    BY <1>2, ListedKernel
<1>4. back \subseteq touched'
    BY <1>1, <1>2, QuietAgreed
<1>5. \A i \in Iface \ touched' : (i \in kernel' <=> i \in kernel) /\ stack'[i] = stack[i]
    BY <1>3, <1>4, AppearedIs
<1>6. QED
    BY <1>1, <1>2, <1>5, StackAppeared

\* A stack that is bare, torn down, provisioned or healed.
LEMMA SameStack ==
    ASSUME NEW s \in Stack, NEW t \in Stack, s.ip = t.ip, s.file = t.file, s.conf = t.conf,
           s.run = t.run, s.captive = t.captive, s.ttl = t.ttl
    PROVE  s = t
    BY DEF Stack

\* A blank stack is the bare one, but for the TTL.
LEMMA BlankIs ==
    ASSUME NEW s \in Stack, Blank(s)
    PROVE  [s EXCEPT !.ttl = FALSE] = Bare
<1>1. PICK t : t = [s EXCEPT !.ttl = FALSE]
    OBVIOUS
<1>2. /\ t \in Stack /\ t.ip = s.ip /\ t.file = s.file /\ t.conf = s.conf
      /\ t.run = s.run /\ t.captive = s.captive /\ t.ttl = FALSE
    BY <1>1 DEF Stack
<1>3. s.run = FALSE /\ s.captive = FALSE
    BY DEF Stack, Blank
<1>4. /\ Bare \in Stack /\ Bare.ip = None /\ Bare.file = None /\ Bare.conf = None
      /\ Bare.run = FALSE /\ Bare.captive = FALSE /\ Bare.ttl = FALSE
    BY DEF Bare, Stack
<1>5. t = Bare
    BY <1>2, <1>3, <1>4, SameStack DEF Blank
<1>6. QED
    BY <1>1, <1>5

\* A teardown leaves a blank stack.
LEMMA TornDownIs ==
    ASSUME NEW s \in Stack, NEW e \in Entry
    PROVE  Blank(TornDown(s, e))
    BY DEF TornDown, Released, Stack, Entry, Blank

\* Provisioning, when no step fails, leaves a whole one.
LEMMA ProvisionedIs ==
    ASSUME NEW s \in Stack, NEW e \in Entry
    PROVE  Whole(Provisioned(s, e), e)
    BY DEF Provisioned, Captured, Leasing, Stack, Entry, Whole

\* So does healing, where the networkd file has no other address.
LEMMA HealedIs ==
    ASSUME NEW s \in Stack, NEW e \in Entry, s.file \in {None, e.cidr}
    PROVE  Whole(Healed(s, e), e)
    BY DEF Healed, Captured, Leasing, Stack, Entry, Whole

\* A portal is served by a whole stack on an interface that exists.
LEMMA WholeServes ==
    /\ \A i, e : Serving(i, e) <=> i \in kernel /\ Whole(stack[i], e)
    /\ \A i, e : Serving(i, e)' <=> i \in kernel' /\ Whole(stack'[i], e)
    BY DEF Serving, Whole

\* A listing heals what is served already.
LEMMA StackPortalList ==
    ASSUME Careful, HostOK, FilesOK, FilesOK', JobsOK, NetInv, NetInv', StackInv, NEW w \in Worker,
           PortalList(w)
    PROVE  StackInv'
<1>1. MayServe(w) /\ UNCHANGED <<job, portals, script, api, kernel>>
    BY DEF PortalList, portalConf, lifeVars
<1>2. /\ \A u \in Worker : job[u] = Idle /\ job'[u] = Idle
      /\ api = "up" /\ ~script
    BY <1>1 DEF MayServe, Quiet
<1>3. portals \in PortalConf
    BY DEF FilesOK
<1>4. touched \subseteq touched' /\ \A k \in Iface \ touched' : stack'[k] = HealAll(portals)[k]
    <2>1. CASE stack' = HealAll(portals) /\ NoFault
        BY <2>1 DEF NoFault
    <2>2. ASSUME NEW i \in ToHeal(portals), NEW s \in HalfHealed(stack[i], portals[i]),
                 stack' = [HealAll(portals) EXCEPT ![i] = s], Fault({i})
          PROVE  touched \subseteq touched' /\ \A k \in Iface \ touched' : stack'[k] = HealAll(portals)[k]
        BY <1>3, <2>2, HealAllIs DEF Fault
    <2>3. QED
        BY <2>1, <2>2 DEF PortalList
<1>5. ASSUME NEW k \in Iface \ touched', Served(k)
      PROVE  Served(k)'
    <2>1. CASE k \in ToHeal(portals)
        <3>1. k \in Enabled(portals) /\ k \in kernel
            BY <2>1 DEF ToHeal
        <3>2. Whole(stack[k], portals[k])
            BY <1>5, <3>1, WholeServes DEF Served
        <3>3. stack[k] \in Stack /\ portals[k] \in Entry
            BY <1>3, <2>1, HealAllIs DEF HostOK
        <3>4. Whole(Healed(stack[k], portals[k]), portals[k])
            BY <3>2, <3>3, HealedIs DEF Whole
        <3>5. stack'[k] = Healed(stack[k], portals[k])
            BY <1>3, <1>4, <2>1, HealAllIs
        <3>6. QED
            BY <1>1, <3>1, <3>4, <3>5, WholeServes DEF Served
    <2>2. CASE k \notin ToHeal(portals)
        <3>1. stack'[k] = stack[k]
            BY <1>3, <1>4, <2>2, HealAllIs
        <3>2. QED
            BY <1>1, <1>5, <3>1, ServedStays
    <2>3. QED
        BY <2>1, <2>2
<1>6. job[w].op \notin PortalOps /\ job'[w].op \notin PortalOps
    BY <1>2 DEF Idle, PortalOps
<1>7. QED
    BY <1>1, <1>2, <1>4, <1>5, <1>6, StackLinks

\* A request on a portal begins with the stack as it is served.
LEMMA StackBegun ==
    ASSUME Careful, FilesOK, FilesOK', JobsOK, NetInv, NetInv', StackInv, NEW w \in Worker,
           NEW j, Begin(w, j), portals' = portals, j.i \in Iface,
           j.i \notin touched /\ Served(j.i)' => PortalStage(w, j.i, j.want, j.old)'
    PROVE  StackInv'
<1>1. /\ job'[w] = j /\ job[w] = Idle /\ \A u \in Worker \ {w} : job[u] = Idle /\ job'[u] = Idle
      /\ UNCHANGED <<kernel, stack, script, api, touched>> /\ api = "up" /\ ~script
    BY BegunIs DEF hostVars, lifeVars
<1>2. job[w].op \notin PortalOps
    BY <1>1 DEF Idle, PortalOps
<1>3. \A i \in Iface \ touched' : Served(i)'
    BY <1>1, <1>2, StackUp, NoPortalJobs, ServedStays
<1>4. StackJob(w)'
    BY <1>1, <1>3 DEF StackJob
<1>5. QED
    BY <1>1, <1>3, <1>4, IdleStackJobs, StackLeft

\* Creating, enabling, disabling or changing a portal begins.
LEMMA StackPortalBegun ==
    ASSUME Careful, FilesOK, FilesOK', JobsOK, NetInv, NetInv', StackInv, NEW w \in Worker, NEW i \in Iface,
           \/ PortalEnable(w, i) \/ PortalDisable(w, i)
           \/ \E c \in Cidr, anti \in BOOLEAN : PortalCreate(w, i, c, anti) \/ PortalUpdate(w, i, c, anti)
    PROVE  StackInv'
<1>1. \A k \in DOMAIN portals : portals[k] \in Entry
    BY ConfIs DEF FilesOK, PortalConf
<1>2. ASSUME NEW c \in Cidr, NEW anti \in BOOLEAN, PortalCreate(w, i, c, anti)
      PROVE  StackInv'
    <2>1. PICK j : /\ Begin(w, j) /\ UNCHANGED <<portalConf, promised>>
                   /\ j.op = "create" /\ j.pc = "provision" /\ j.i = i
                   /\ j.want = [cidr |-> c, on |-> TRUE, anti |-> anti] /\ j.old = NoEntry
        BY <1>2, PortalCreateIs
    <2>2. job'[w] = j /\ j.want.on
        BY <2>1, BegunIs
    <2>3. Served(j.i)' => PortalStage(w, j.i, j.want, j.old)'
        BY <2>1, <2>2 DEF PortalStage
    <2>4. QED
        BY <2>1, <2>3, StackBegun DEF portalConf
<1>3. CASE PortalEnable(w, i)
    <2>1. PICK j : /\ Begin(w, j) /\ UNCHANGED <<portalConf, promised>>
                   /\ j.op = "enable" /\ j.pc = "provision" /\ j.i = i
                   /\ j.want = [portals[i] EXCEPT !.on = TRUE] /\ j.old = NoEntry
        BY <1>3, PortalEnableIs
    <2>2. portals[i] \in Entry
        BY <1>1, <1>3 DEF PortalEnable
    <2>3. job'[w] = j /\ j.want.on
        BY <2>1, <2>2, BegunIs DEF Entry
    <2>4. Served(j.i)' => PortalStage(w, j.i, j.want, j.old)'
        BY <2>1, <2>3 DEF PortalStage
    <2>5. QED
        BY <2>1, <2>4, StackBegun DEF portalConf
<1>4. CASE PortalDisable(w, i)
    <2>1. PICK j : /\ Begin(w, j) /\ UNCHANGED <<portalConf, promised>>
                   /\ j.op = "disable" /\ j.pc = "teardown" /\ j.i = i
                   /\ j.want = [portals[i] EXCEPT !.on = FALSE] /\ j.old = portals[i]
        BY <1>4, PortalDisableIs
    <2>2. portals[i] \in Entry
        BY <1>1, <1>4 DEF PortalDisable
    <2>3. job'[w] = j /\ ~j.want.on
        BY <2>1, <2>2, BegunIs DEF Entry
    <2>4. PortalStage(w, j.i, j.want, j.old)'
        BY <2>1, <2>3 DEF PortalStage
    <2>5. QED
        BY <2>1, <2>4, StackBegun DEF portalConf
<1>5. ASSUME NEW c \in Cidr, NEW anti \in BOOLEAN, PortalUpdate(w, i, c, anti)
      PROVE  StackInv'
    <2>1. PICK j : /\ Begin(w, j) /\ UNCHANGED <<portalConf, promised>>
                   /\ j.op = "update" /\ j.pc = "teardown" /\ j.i = i
                   /\ j.want = [cidr |-> c, on |-> portals[i].on, anti |-> anti] /\ j.old = portals[i]
        BY <1>5, PortalUpdateIs
    <2>2. job'[w] = j /\ j.want.on = j.old.on
        BY <2>1, BegunIs
    <2>3. i \in DOMAIN portals /\ portals' = portals
        BY <1>5, <2>1 DEF PortalUpdate, portalConf
    <2>4. PortalStage(w, j.i, j.want, j.old)'
        BY <2>1, <2>2, <2>3 DEF PortalStage
    <2>5. QED
        BY <2>1, <2>4, StackBegun DEF portalConf
<1>6. QED
    BY <1>2, <1>3, <1>4, <1>5

\* Deleting a portal begins, or drops a row of the mirror.
LEMMA StackPortalDelete ==
    ASSUME Careful, FilesOK, FilesOK', JobsOK, NetInv, NetInv', StackInv, NEW w \in Worker, NEW i \in Iface,
           PortalDelete(w, i)
    PROVE  StackInv'
<1>1. CASE \E j : /\ Begin(w, j) /\ promised' = Without(promised, i) /\ UNCHANGED portalConf
                  /\ j.op = "delete" /\ j.pc = "teardown" /\ j.i = i /\ j.want = NoEntry
                  /\ j.old = portals[i] /\ i \in DOMAIN portals
    <2>1. PICK j : Begin(w, j) /\ UNCHANGED portalConf /\ j.op = "delete" /\ j.pc = "teardown" /\ j.i = i
        BY <1>1
    <2>2. job'[w] = j
        BY <2>1, BegunIs
    <2>3. PortalStage(w, j.i, j.want, j.old)'
        BY <2>1, <2>2 DEF PortalStage
    <2>4. QED
        BY <2>1, <2>3, StackBegun DEF portalConf
<1>2. CASE /\ mirror' = mirror \ {i} /\ MayServe(w) /\ i \notin DOMAIN portals
           /\ UNCHANGED <<hostVars, linkConf, portals, job, lifeVars, faults, touched, promised>>
    <2>1. /\ \A u \in Worker : job[u] = Idle /\ job'[u] = Idle
          /\ api = "up" /\ ~script /\ UNCHANGED <<kernel, stack, portals, api, script, touched>>
        BY <1>2 DEF MayServe, Quiet, hostVars, lifeVars
    <2>2. job[w].op \notin PortalOps /\ job'[w].op \notin PortalOps
        BY <2>1 DEF Idle, PortalOps
    <2>3. \A k : Served(k)' <=> Served(k)
        BY <2>1, ServedStays
    <2>4. QED
        BY <2>1, <2>2, <2>3, StackLinks
<1>3. QED
    BY <1>1, <1>2, PortalDeleteIs

\* A request on portal i goes on: the stacks, entries and interfaces of others stay.
LEMMA StackStep ==
    ASSUME FilesOK, FilesOK', JobsOK, OneRequest, NetInv, NetInv', StackInv, NEW w \in Worker, NEW i,
           i = job[w].i, job[w].op # "none", NEW j, job' = [job EXCEPT ![w] = j],
           UNCHANGED <<kernel, api, script>>, touched \subseteq touched',
           \A k \in Iface \ {i} : /\ stack'[k] = stack[k] /\ (k \in DOMAIN portals' <=> k \in DOMAIN portals)
                                  /\ k \in DOMAIN portals => portals'[k] = portals[k],
           i \in Iface \ touched' => Served(i)' \/ PortalJob(i)',
           j.op \notin PortalOps \/ StackJob(w)'
    PROVE  StackInv'
<1>1. /\ job'[w] = j /\ \A u \in Worker \ {w} : job[u] = Idle /\ job'[u] = Idle
      /\ api = "up" /\ ~script
    BY StepIs
<1>2. ASSUME NEW k \in Iface \ touched', k # i
      PROVE  Served(k)'
    <2>1. ~PortalJob(k)
        BY <1>1, <1>2 DEF PortalJob, PortalOps, Idle
    <2>2. Served(k)
        BY <1>1, <1>2, <2>1, StackUp
    <2>3. k \in Enabled(portals)' <=> k \in Enabled(portals)
        BY <1>2 DEF Enabled
    <2>4. k \in Enabled(portals) => portals'[k] = portals[k]
        BY <1>2 DEF Enabled
    <2>5. stack'[k] = stack[k] /\ kernel' = kernel
        BY <1>2
    <2>6. QED
        BY <2>2, <2>3, <2>4, <2>5, WholeServes DEF Served, Plainly
<1>3. \A u \in Worker : StackJob(u)'
    BY <1>1, IdleStackJobs
<1>4. QED
    BY <1>1, <1>2, <1>3, StackLeft

\* What the step on portal i finds of it.
LEMMA StackFound ==
    ASSUME FilesOK, JobsOK, OneRequest, NetInv, StackInv, NEW w \in Worker, job[w].op \in PortalOps
    PROVE  /\ job[w].i \in Iface /\ \A u \in Worker \ {w} : job[u] = Idle
           /\ api = "up" /\ ~script
           /\ job[w].i \notin touched => PortalStage(w, job[w].i, job[w].want, job[w].old)
           /\ job[w].i \notin touched /\ job[w].pc = "teardown" => Served(job[w].i)
<1>1. job[w].i \in Iface
    BY DEF JobsOK, JobOK
<1>2. job[w] # Idle
    BY DEF Idle, PortalOps
<1>3. \A u \in Worker \ {w} : job[u] = Idle
    BY <1>2 DEF OneRequest
<1>4. api = "up" /\ ~script
    BY <1>2 DEF OneRequest
<1>5. job[w].i \notin touched => PortalStage(w, job[w].i, job[w].want, job[w].old)
    BY DEF StackInv, StackJob
<1>6. job[w].pc = "teardown" => \A i : ~PortalJob(i)
    BY <1>3, NoPortalJobs
<1>7. QED
    BY <1>1, <1>3, <1>4, <1>5, <1>6, StackUp

\* The old stack is torn down.
LEMMA StackTeardown ==
    ASSUME HostOK, FilesOK, FilesOK', JobsOK, OneRequest, NetInv, NetInv', StackInv, NEW w \in Worker,
           Teardown(w)
    PROVE  StackInv'
<1>0. PICK i, e, old : i = job[w].i /\ e = job[w].want /\ old = job[w].old
    OBVIOUS
<1>1. job[w].op \in {"disable", "delete", "update"} /\ job[w].pc = "teardown"
    BY DEF Teardown, At
<1>2. job[w].op \in PortalOps /\ job[w].op # "none"
    BY <1>1 DEF PortalOps
<1>3. /\ i \in Iface
      /\ i \notin touched => PortalStage(w, i, e, old) /\ Served(i)
    BY <1>0, <1>1, <1>2, StackFound
<1>4. old \in Entry /\ stack[i] \in Stack /\ (job[w].op = "delete" => ~e.on)
    BY <1>0, <1>1, <1>2, <1>3 DEF JobsOK, JobOK, HostOK
<1>5. /\ stack' = [stack EXCEPT ![i] = TornDown(@, old)] /\ Goto(w, IF e.on THEN "provision" ELSE "read")
      /\ UNCHANGED <<kernel, portals, api, script, touched>>
    BY <1>0 DEF Teardown, portalConf, lifeVars
<1>6. Plainly(i)'
    BY <1>3, <1>4, <1>5, TornDownIs DEF Plainly, HostOK
<1>7. /\ job'[w].op = job[w].op /\ job'[w].pc = (IF e.on THEN "provision" ELSE "read")
      /\ job'[w].i = i /\ job'[w].want = e /\ job'[w].old = old
    BY <1>0, <1>2, <1>5, GotoIs
<1>8. ASSUME i \notin touched
      PROVE  PortalStage(w, i, e, old)'
    <2>1. job[w].op = "disable" => ~e.on
        BY <1>3, <1>8 DEF PortalStage
    <2>2. job[w].op = "update" => i \in DOMAIN portals /\ portals[i] = old /\ e.on = old.on
        BY <1>1, <1>3, <1>8 DEF PortalStage
    <2>3. CASE e.on
        <3>1. job[w].op = "update"
            BY <1>1, <1>4, <2>1, <2>3
        <3>2. i \in Enabled(portals)
            BY <2>2, <2>3, <3>1 DEF Enabled
        <3>3. i \in kernel
            BY <1>3, <1>8, <3>2 DEF Served, Serving
        <3>4. QED
            BY <1>5, <1>6, <1>7, <2>2, <2>3, <3>1, <3>3 DEF PortalStage
    <2>4. CASE ~e.on
        BY <1>5, <1>6, <1>7, <2>2, <2>4 DEF PortalStage
    <2>5. QED
        BY <2>3, <2>4
<1>9. StackJob(w)'
    BY <1>5, <1>7, <1>8 DEF StackJob
<1>10. PortalJob(i)'
    BY <1>2, <1>7 DEF PortalJob
<1>11. \A k \in Iface \ {i} : stack'[k] = stack[k]
    BY <1>5
<1>12. QED
    BY <1>0, <1>2, <1>5, <1>9, <1>10, <1>11, StackStep DEF Goto

\* The new stack is set up, or a step fails and the interface is touched.
LEMMA StackProvision ==
    ASSUME HostOK, FilesOK, FilesOK', JobsOK, OneRequest, NetInv, NetInv', StackInv, NEW w \in Worker,
           Provision(w)
    PROVE  StackInv'
<1>0. PICK i, e, old : i = job[w].i /\ e = job[w].want /\ old = job[w].old
    OBVIOUS
<1>1. job[w].op \in {"create", "enable", "update"} /\ job[w].pc = "provision"
    BY DEF Provision, At
<1>2. job[w].op \in PortalOps /\ job[w].op # "none"
    BY <1>1 DEF PortalOps
<1>3. /\ i \in Iface
      /\ i \notin touched => PortalStage(w, i, e, old)
    BY <1>0, <1>2, StackFound
<1>4. e \in Entry /\ stack[i] \in Stack
    BY <1>0, <1>1, <1>2, <1>3 DEF JobsOK, JobOK, HostOK
<1>5. /\ i \in kernel /\ Goto(w, "read") /\ touched \subseteq touched'
      /\ UNCHANGED <<kernel, portals, api, script>>
      /\ \A k \in Iface \ {i} : stack'[k] = stack[k]
      /\ i \in touched' \/ stack' = [stack EXCEPT ![i] = Provisioned(@, e)]
    <2>1. /\ i \in kernel /\ Goto(w, "read") /\ UNCHANGED <<kernel, portals, api, script>>
          /\ \/ stack' = [stack EXCEPT ![i] = Provisioned(@, e)] /\ NoFault
             \/ /\ \E s \in HalfProvisioned(stack[i], e) : stack' = [stack EXCEPT ![i] = s]
                /\ Fault({i})
        BY <1>0 DEF Provision, portalConf, lifeVars
    <2>2. \E s : stack' = [stack EXCEPT ![i] = s]
        BY <2>1
    <2>3. QED
        BY <2>1, <2>2 DEF Fault, NoFault, HostOK
<1>6. /\ job'[w].op = job[w].op /\ job'[w].pc = "read"
      /\ job'[w].i = i /\ job'[w].want = e /\ job'[w].old = old
    BY <1>0, <1>2, <1>5, GotoIs
<1>7. ASSUME i \notin touched'
      PROVE  PortalStage(w, i, e, old)'
    <2>1. e.on
        BY <1>1, <1>3, <1>5, <1>7 DEF PortalStage
    <2>2. stack'[i] = Provisioned(stack[i], e)
        BY <1>3, <1>5, <1>7 DEF HostOK
    <2>3. Serving(i, e)'
        BY <1>4, <1>5, <2>2, ProvisionedIs, WholeServes
    <2>4. QED
        BY <1>1, <1>6, <2>1, <2>3 DEF PortalStage
<1>8. StackJob(w)'
    BY <1>6, <1>7 DEF StackJob
<1>9. PortalJob(i)'
    BY <1>2, <1>6 DEF PortalJob
<1>10. QED
    BY <1>0, <1>2, <1>5, <1>8, <1>9, StackStep DEF Goto

\* The address cannot be set: an update serves the old entry again, and what was not served is not.
LEMMA StackProvisionFails ==
    ASSUME HostOK, FilesOK, FilesOK', JobsOK, OneRequest, NetInv, NetInv', StackInv, NEW w \in Worker,
           ProvisionFails(w)
    PROVE  StackInv'
<1>0. PICK i, e, old : i = job[w].i /\ e = job[w].want /\ old = job[w].old
    OBVIOUS
<1>1. job[w].op \in {"create", "enable", "update"} /\ job[w].pc = "provision"
    BY DEF ProvisionFails, At
<1>2. job[w].op \in PortalOps /\ job[w].op # "none"
    BY <1>1 DEF PortalOps
<1>3. /\ i \in Iface
      /\ i \notin touched => PortalStage(w, i, e, old)
    BY <1>0, <1>2, StackFound
<1>4. stack[i] \in Stack /\ (job[w].op = "update" => old \in Entry)
    BY <1>0, <1>1, <1>2, <1>3 DEF JobsOK, JobOK, HostOK
<1>5. /\ Answer(w) /\ touched \subseteq touched'
      /\ UNCHANGED <<kernel, portals, api, script>>
      /\ \A k \in Iface \ {i} : stack'[k] = stack[k]
      /\ stack'[i] = IF job[w].op = "update" /\ i \in kernel THEN Provisioned(stack[i], old)
                     ELSE [stack[i] EXCEPT !.ip = None]
      /\ i \in kernel /\ job[w].op # "update" => i \in touched'
    <2>1. stack' = [stack EXCEPT ![i] = IF job[w].op = "update" /\ i \in kernel THEN Provisioned(@, old)
                                       ELSE [@ EXCEPT !.ip = None]]
        BY <1>0 DEF ProvisionFails
    <2>2. /\ Answer(w) /\ UNCHANGED <<kernel, portals, api, script>>
        BY DEF ProvisionFails, portalConf, lifeVars
    <2>3. touched \subseteq touched' /\ (i \in kernel /\ job[w].op # "update" => i \in touched')
        BY <1>0 DEF ProvisionFails, Fault, NoFault
    <2>4. QED
        BY <1>3, <2>1, <2>2, <2>3 DEF HostOK
<1>6. ASSUME i \notin touched'
      PROVE  Served(i)'
    <2>1. PortalStage(w, i, e, old)
        BY <1>3, <1>5, <1>6
    <2>2. CASE job[w].op = "update"
        <3>1. i \in kernel /\ i \in DOMAIN portals /\ portals[i] = old /\ old.on
            BY <1>1, <2>1, <2>2 DEF PortalStage
        <3>2. Serving(i, old)'
            BY <1>4, <1>5, <2>2, <3>1, ProvisionedIs, WholeServes
        <3>3. QED
            BY <1>5, <3>1, <3>2 DEF Served, Enabled
    <2>3. CASE job[w].op # "update"
        <3>1. Served(i) /\ i \notin kernel
            BY <1>1, <1>5, <1>6, <2>1, <2>3 DEF PortalStage
        <3>2. i \notin Enabled(portals)
            BY <3>1 DEF Served, Serving
        <3>3. QED
            BY <1>3, <1>5, <2>3, <3>1, <3>2, BareGoes
    <2>4. QED
        BY <2>2, <2>3
<1>7. Idle.op \notin PortalOps
    BY DEF Idle, PortalOps
<1>8. QED
    BY <1>0, <1>2, <1>5, <1>6, <1>7, StackStep DEF Answer

\* The file is read and written, stacks as they were.
LEMMA StackPortalSaved ==
    ASSUME HostOK, FilesOK, FilesOK', JobsOK, OneRequest, SettingsInv, NetInv, NetInv', StackInv,
           NEW w \in Worker, PortalRead(w) \/ PortalWrite(w)
    PROVE  StackInv'
<1>0. PICK i, e, old : i = job[w].i /\ e = job[w].want /\ old = job[w].old
    OBVIOUS
<1>1. /\ job[w].op \in PortalOps /\ job[w].pc \in {"read", "write"} /\ job[w].op # "none"
      /\ job'[w].op = job[w].op /\ job'[w].pc \in {"write", "mirror"}
      /\ job'[w].i = i /\ job'[w].want = e /\ job'[w].old = old
    BY <1>0, PortalReadIs, PortalWriteIs DEF PortalOps
<1>2. /\ i \in Iface
      /\ i \notin touched => PortalStage(w, i, e, old)
    BY <1>0, <1>1, StackFound
<1>3. \E j : job' = [job EXCEPT ![w] = j]
    BY DEF PortalRead, PortalWrite
<1>4. UNCHANGED <<kernel, stack, api, script, touched>>
    BY DEF PortalRead, PortalWrite, hostVars, lifeVars
<1>5. \A k \in Iface \ {i} : /\ k \in DOMAIN portals' <=> k \in DOMAIN portals
                             /\ k \in DOMAIN portals => portals'[k] = portals[k]
    <2>1. CASE PortalRead(w)
        BY <2>1 DEF PortalRead, portalConf
    <2>2. CASE PortalWrite(w)
        <3>1. portals' = Entries(portals, job[w])
            BY <2>2 DEF PortalWrite, SettingsInv, SettingsJob, At, PortalOps
        <3>2. portals' = Without(portals, i) \/ portals' = With(portals, i, e)
            BY <1>0, <3>1 DEF Entries
        <3>3. \A k \in Iface \ {i} :
                /\ k \in DOMAIN Without(portals, i) <=> k \in DOMAIN portals
                /\ k \in DOMAIN portals => Without(portals, i)[k] = portals[k]
            BY WithoutIs
        <3>4. \A k \in Iface \ {i} :
                /\ k \in DOMAIN With(portals, i, e) <=> k \in DOMAIN portals
                /\ k \in DOMAIN portals => With(portals, i, e)[k] = portals[k]
            BY WithIs
        <3>5. QED
            BY <3>2, <3>3, <3>4
    <2>3. QED
        BY <2>1, <2>2
<1>6. ASSUME i \notin touched
      PROVE  PortalStage(w, i, e, old)'
    <2>1. /\ job[w].op = "disable" => ~e.on
          /\ IF e.on THEN Serving(i, e) ELSE Plainly(i)
        BY <1>1, <1>2, <1>6 DEF PortalStage
    <2>2. IF e.on THEN Serving(i, e)' ELSE Plainly(i)'
        BY <1>4, <2>1, WholeServes DEF Plainly
    <2>3. QED
        BY <1>1, <2>1, <2>2 DEF PortalStage
<1>7. StackJob(w)'
    BY <1>1, <1>4, <1>6 DEF StackJob
<1>8. PortalJob(i)'
    BY <1>1 DEF PortalJob
<1>9. QED
    BY <1>0, <1>1, <1>3, <1>4, <1>5, <1>7, <1>8, StackStep

\* The answer: what was saved is what is served.
LEMMA StackPortalMirror ==
    ASSUME HostOK, FilesOK, FilesOK', JobsOK, OneRequest, SettingsInv, NetInv, NetInv', StackInv,
           NEW w \in Worker, PortalMirror(w)
    PROVE  StackInv'
<1>0. PICK i, e, old : i = job[w].i /\ e = job[w].want /\ old = job[w].old
    OBVIOUS
<1>1. job[w].op \in PortalOps /\ job[w].pc = "mirror" /\ job[w].op # "none"
    BY DEF PortalMirror, At, PortalOps
<1>2. /\ i \in Iface
      /\ i \notin touched => PortalStage(w, i, e, old)
    BY <1>0, <1>1, StackFound
<1>3. /\ Answer(w) /\ UNCHANGED <<kernel, stack, portals, api, script>>
      /\ touched \subseteq touched'
    BY DEF PortalMirror, hostVars, lifeVars, Fault, NoFault
<1>4. /\ job[w].op = "delete" => ~e.on /\ i \notin DOMAIN portals
      /\ job[w].op # "delete" => i \in DOMAIN portals /\ portals[i] = e
    BY <1>0, <1>1 DEF SettingsInv, SettingsJob, JobsOK, JobOK
<1>5. ASSUME i \notin touched'
      PROVE  Served(i)'
    <2>1. IF e.on THEN Serving(i, e) ELSE Plainly(i)
        BY <1>1, <1>2, <1>3, <1>5 DEF PortalStage
    <2>2. Served(i)
        BY <1>4, <2>1 DEF Served, Enabled
    <2>3. QED
        BY <1>3, <2>2, ServedStays
<1>6. Idle.op \notin PortalOps
    BY DEF Idle, PortalOps
<1>7. QED
    BY <1>0, <1>1, <1>3, <1>5, <1>6, StackStep DEF Answer

\* The entries P there are to be, by name.
LEMMA FitsIs ==
    ASSUME NEW P
    PROVE  /\ P = Final => \A i : Fits(i) <=> IF i \in Enabled(P) THEN Ready(i, P[i]) ELSE Plainly(i)
           /\ P = Final' => \A i : Fits(i)' <=> IF i \in Enabled(P) THEN Ready(i, P[i])' ELSE Plainly(i)'
<1>1. P = Final => \A i : Fits(i) <=> IF i \in Enabled(P) THEN Ready(i, P[i]) ELSE Plainly(i)
    BY DEF Fits
<1>2. ASSUME P = Final'
      PROVE  \A i : Fits(i)' <=> IF i \in Enabled(P) THEN Ready(i, P[i])' ELSE Plainly(i)'
    <2>1. Enabled(Final)' = Enabled(P)
        BY <1>2 DEF Enabled
    <2>2. \A i : Ready(i, Final[i])' <=> Ready(i, P[i])'
        BY <1>2 DEF Ready, Serving
    <2>3. QED
        BY <2>1, <2>2 DEF Fits
<1>3. QED
    BY <1>1, <1>2

\* The entries there are to be stay with the two files.
LEMMA SameFinal ==
    ASSUME portals' = portals, vlans' = vlans
    PROVE  Final' = Final
    BY DEF Final, Migrated, Legacy

\* Whatever happens to a touched interface leaves the stacks of the others as they are.
LEMMA StackElsewhere ==
    ASSUME JobsOK, StackInv, UNCHANGED <<job, portals, vlans, bridges, api, script>>, touched \subseteq touched',
           \A i \in Iface \ touched' : stack'[i] = stack[i] /\ (i \in kernel' <=> i \in kernel)
    PROVE  StackInv'
<1>1. PICK P : P = Final
    OBVIOUS
<1>2. P = Final'
    BY <1>1, SameFinal
<1>3. ASSUME NEW i \in Iface \ touched', Fits(i)
      PROVE  Fits(i)'
    <2>1. stack'[i] = stack[i] /\ (i \in kernel' <=> i \in kernel)
        BY <1>3
    <2>2. \A e : Ready(i, e)' <=> Ready(i, e)
        BY <2>1 DEF Ready, Serving
    <2>3. Plainly(i)' <=> Plainly(i)
        BY <2>1 DEF Plainly
    <2>4. QED
        BY <1>1, <1>2, <1>3, <2>2, <2>3, FitsIs
<1>4. \A i : PortalJob(i)' <=> PortalJob(i)
    BY DEF PortalJob
<1>5. ASSUME NEW w \in Worker
      PROVE  StackJob(w)'
    <2>1. PICK i, e, old : i = job[w].i /\ e = job[w].want /\ old = job[w].old
        OBVIOUS
    <2>2. SUFFICES ASSUME job[w].op \in PortalOps, i \notin touched'
                   PROVE  PortalStage(w, i, e, old)'
        BY <2>1 DEF StackJob
    <2>3. i \in Iface
        BY <2>1, <2>2, JobIs
    <2>4. stack'[i] = stack[i] /\ (i \in kernel' <=> i \in kernel)
        BY <2>2, <2>3
    <2>5. PortalStage(w, i, e, old)
        BY <2>1, <2>2 DEF StackInv, StackJob
    <2>6. (Served(i)' <=> Served(i)) /\ (Plainly(i)' <=> Plainly(i)) /\ (Serving(i, e)' <=> Serving(i, e))
        BY <2>4, ServedStays, WholeServes DEF Plainly
    <2>7. QED
        BY <2>4, <2>5, <2>6 DEF PortalStage
<1>6. QED
    BY <1>3, <1>4, <1>5 DEF StackInv

\* An adapter that is pulled or plugged in is touched.
LEMMA StackPlugged ==
    ASSUME HostOK, JobsOK, NetInv, StackInv, NEW n \in Nic, Unplug(n) \/ Plug(n)
    PROVE  StackInv'
<1>1. /\ UNCHANGED <<job, portals, vlans, bridges, api, script>> /\ touched \subseteq touched'
      /\ n \in Iface
    BY Sets DEF Unplug, Plug, linkConf, portalConf, lifeVars, Fault
<1>2. n \in touched' /\ \A i \in Iface : i # n => (i \in kernel' <=> i \in kernel) /\ stack'[i] = stack[i]
    <2>1. CASE Unplug(n)
        BY <1>1, <2>1, VanishIs DEF Unplug, Fault
    <2>2. CASE Plug(n)
        <3>1. kernel' = kernel \cup {n} /\ stack' = Appeared({n}) /\ touched' = touched /\ n \notin kernel
            BY <2>2 DEF Plug
        <3>2. n \in touched
            BY <3>1 DEF NetInv, NicsInv
        <3>3. PICK S : S = {n}
            OBVIOUS
        <3>4. stack' = Appeared(S) /\ \A i : i # n => i \notin S
            BY <3>1, <3>3
        <3>5. \A i \in Iface : Appeared(S)[i] = IF i \in S THEN [stack[i] EXCEPT !.ip = stack[i].file] ELSE stack[i]
            BY AppearedIs
        <3>6. \A i \in Iface : i # n => stack'[i] = stack[i]
            BY <3>4, <3>5
        <3>7. QED
            BY <3>1, <3>2, <3>6
    <2>3. QED
        BY <2>1, <2>2
<1>3. QED
    BY <1>1, <1>2, StackElsewhere

\* After a cut no request is under way, and what none of them was about is as it was.
LEMMA StackCut ==
    ASSUME FilesOK, StackInv, Cut
    PROVE  /\ \A w \in Worker : StackJob(w)'
           /\ \A i \in Iface \ touched' : Fits(i)
           /\ Final' = Final /\ touched \subseteq touched'
<1>1. \A w \in Worker : {job[w].i, job[w].arg} \cap Iface \subseteq touched'
    BY DEF Cut, Interrupted, Concerns
<1>2. \A i \in Iface \ touched' : ~PortalJob(i)
    BY <1>1 DEF PortalJob
<1>3. /\ \A w \in Worker : job'[w] = Idle
      /\ touched \subseteq touched' /\ UNCHANGED <<portals, vlans>>
    BY DEF Cut, linkConf, portalConf
<1>4. \A w \in Worker : StackJob(w)'
    BY <1>3 DEF StackJob, Idle, PortalOps
<1>5. QED
    BY <1>2, <1>3, <1>4, SameFinal DEF StackInv

\* A crash of the API leaves the stacks of what was not under way.
LEMMA StackApiCrash ==
    ASSUME FilesOK, StackInv, ApiCrash
    PROVE  StackInv'
<1>1. PICK P : P = Final
    OBVIOUS
<1>2. /\ \A w \in Worker : StackJob(w)'
      /\ \A i \in Iface \ touched' : Fits(i)
      /\ P = Final'
    BY <1>1, StackCut DEF ApiCrash
<1>3. UNCHANGED <<kernel, stack, script, vlans, bridges>> /\ api' = "boot"
    BY DEF ApiCrash, Cut, hostVars, linkConf
<1>4. \A i, e : Ready(i, e) => Ready(i, e)'
    BY <1>3 DEF Ready
<1>5. \A i : Plainly(i)' <=> Plainly(i)
    BY <1>3 DEF Plainly
<1>6. \A i \in Iface \ touched' : Fits(i)'
    BY <1>1, <1>2, <1>4, <1>5, FitsIs
<1>7. QED
    BY <1>2, <1>6 DEF StackInv

\* A power cut leaves the files a portal is rebuilt from.
LEMMA StackPowerCut ==
    ASSUME HostOK, FilesOK, NetInv, StackInv, PowerCut
    PROVE  StackInv'
<1>1. PICK P : P = Final
    OBVIOUS
<1>2. /\ \A w \in Worker : StackJob(w)'
      /\ \A i \in Iface \ touched' : Fits(i)
      /\ P = Final' /\ touched \subseteq touched'
    BY <1>1, StackCut DEF PowerCut
<1>3. /\ \A i \in Iface \ touched' : \A b : ~VlanJob(i) /\ ~BridgeJob(i) /\ ~MemberJob(i, b)
      /\ UNCHANGED <<vlans, bridges>>
    BY Interruption DEF PowerCut
<1>4. kernel' = kernel \cap Nic /\ api' = "boot" /\ script'
    BY DEF PowerCut
<1>5. \A i \in Iface : /\ stack'[i].file = stack[i].file /\ stack'[i].conf = stack[i].conf
                       /\ stack'[i].ip \in {stack[i].file, None} /\ ~stack'[i].run /\ ~stack'[i].captive
    <2>1. SUFFICES ASSUME NEW i \in Iface
                   PROVE  /\ stack'[i].file = stack[i].file /\ stack'[i].conf = stack[i].conf
                          /\ stack'[i].ip \in {stack[i].file, None} /\ ~stack'[i].run /\ ~stack'[i].captive
        OBVIOUS
    <2>2. PICK a, f, c : a = (IF i \in kernel \cap Nic THEN stack[i].file ELSE None) /\ f = stack[i].file /\ c = stack[i].conf
        OBVIOUS
    <2>3. stack'[i] = [Bare EXCEPT !.file = f, !.conf = c, !.ip = a]
        BY <2>2 DEF PowerCut
    <2>4. QED
        BY <2>2, <2>3 DEF Bare
<1>6. ASSUME NEW i \in Iface \ touched', NEW e, Ready(i, e)
      PROVE  Ready(i, e)'
    <2>1. stack'[i].file \in {None, e.cidr} /\ stack'[i].conf = e.cidr
        BY <1>5, <1>6 DEF Ready
    <2>2. i \in kernel \/ (script /\ i \in DOMAIN vlans \cup DOMAIN bridges)
        BY <1>6 DEF Ready
    <2>3. i \in kernel => i \in Nic \/ i \in DOMAIN vlans \cup DOMAIN bridges
        <3>1. CASE script
            BY <3>1 DEF NetInv, BareInv
        <3>2. CASE ~script
            <4>1. i \in Vlan => (i \in DOMAIN vlans <=> i \in kernel)
                BY <1>2, <1>3, <3>2 DEF NetInv, VlansInv, VlanAgrees
            <4>2. i \in Bridge => (i \in DOMAIN bridges <=> i \in kernel)
                BY <1>2, <1>3, <3>2 DEF NetInv, BridgesInv, BridgeAgrees
            <4>3. QED
                BY <4>1, <4>2, Sets
        <3>3. QED
            BY <3>1, <3>2
    <2>4. i \in kernel' \/ (script' /\ i \in DOMAIN vlans' \cup DOMAIN bridges')
        BY <1>3, <1>4, <2>2, <2>3
    <2>5. QED
        BY <1>4, <2>1, <2>4 DEF Ready
<1>7. ASSUME NEW i \in Iface \ touched', Plainly(i)
      PROVE  Plainly(i)'
    BY <1>5, <1>7 DEF Plainly, Blank
<1>8. \A i \in Iface \ touched' : Fits(i)'
    BY <1>1, <1>2, <1>6, <1>7, FitsIs
<1>9. QED
    BY <1>2, <1>8 DEF StackInv

\* The script serves what is ready, and leaves what is bare.
LEMMA ScriptPortalIs ==
    ASSUME NEW s \in Stack, NEW e \in Entry, NEW known \in BOOLEAN,
           s.file \in {None, e.cidr}, s.conf = e.cidr
    PROVE  LET t == ScriptPortal(s, e.cidr, known)
           IN /\ t.ip = e.cidr /\ t.file = e.cidr /\ t.conf = e.cidr /\ t.run /\ t.captive
              /\ t.ttl = s.ttl
<1>1. e.cidr \in Cidr /\ e.cidr # None
    BY Sets DEF Entry
<1>2. QED
    BY <1>1 DEF ScriptPortal, Stack

\* What the script leaves of a stack before it serves a portal.
LEMMA ScriptBareIs ==
    ASSUME HostOK, NEW V, NEW i \in Iface
    PROVE  LET t == ScriptBare(V, i)
           IN /\ t.ip \in {stack[i].ip, stack[i].file} /\ t.file \in {stack[i].file, None}
              /\ t.conf = stack[i].conf /\ t.run = stack[i].run /\ t.captive = stack[i].captive
              /\ t.ttl = stack[i].ttl
<1>1. stack[i] \in Stack
    BY DEF HostOK
<1>2. QED
    BY <1>1 DEF ScriptBare, Stack

\* The script serves every enabled portal, whether the API is up or not.
LEMMA StackBootScript ==
    ASSUME HostOK, FilesOK, OneRequest, NetInv, StackInv, BootScript
    PROVE  StackInv'
<1>1. PICK V \in SUBSET DOMAIN vlans :
        /\ touched \subseteq touched' /\ DOMAIN vlans \ V \subseteq touched'
        /\ kernel' = ScriptLinks(V) /\ stack' = ScriptStack(V)
    BY DEF BootScript, NoFault, Fault
<1>2. /\ UNCHANGED <<vlans, bridges, portals, job, api>> /\ script /\ ~script'
      /\ \A u \in Worker : job[u] = Idle
    BY DEF BootScript, linkConf, portalConf, OneRequest
<1>3. PICK P : P = Final
    OBVIOUS
<1>4. P = Final'
    BY <1>2, <1>3, SameFinal
<1>5. \A w \in Worker : StackJob(w)'
    BY <1>2 DEF StackJob, Idle, PortalOps
<1>6. \A i : ~PortalJob(i)
    BY <1>2 DEF PortalJob, Idle, PortalOps
<1>7. kernel' = kernel \cup V \cup DOMAIN bridges
    BY <1>1 DEF ScriptLinks
<1>8. /\ P \in PortalConf /\ DOMAIN P = DOMAIN portals \cup Legacy(vlans)
      /\ \A i \in DOMAIN portals : P[i] = portals[i]
      /\ \A i \in Legacy(vlans) \ DOMAIN portals : P[i] = LegacyEntry(i)
    BY <1>3, MigratedConf
<1>9. \A i \in DOMAIN P : P[i] \in Entry
    BY <1>8, ConfIs DEF PortalConf
<1>10. Legacy(vlans) # {} => DOMAIN portals = {}
    BY DEF NetInv, LegacyInv
<1>11. \A i : i \in Enabled(P) <=> i \in Enabled(portals) \/ (DOMAIN portals = {} /\ i \in Legacy(vlans))
    BY <1>8, <1>10 DEF Enabled, LegacyEntry
<1>12. ASSUME NEW i \in Iface \ touched', i \in Enabled(P), Ready(i, P[i])
       PROVE  Ready(i, P[i])'
    <2>1. PICK e : e = P[i]
        OBVIOUS
    <2>2. e \in Entry /\ Ready(i, e)
        BY <1>9, <1>12, <2>1 DEF Enabled
    <2>3. i \in kernel'
        BY <1>1, <1>7, <1>12, <2>2 DEF Ready
    <2>4. PICK t : t = ScriptBare(V, i)
        OBVIOUS
    <2>5. t \in Stack /\ t.file \in {None, e.cidr} /\ t.conf = e.cidr /\ t.ttl = stack[i].ttl
        BY <2>2, <2>4, ScriptBareIs, ScriptStackIs DEF Ready
    <2>6. stack'[i] = ScriptPortal(t, e.cidr, TRUE) \/ stack'[i] = ScriptPortal(t, e.cidr, FALSE)
        <3>1. CASE i \in Enabled(portals)
            <4>1. e = portals[i]
                BY <1>8, <2>1, <3>1 DEF Enabled
            <4>2. ScriptStack(V)[i] = ScriptPortal(ScriptBare(V, i), portals[i].cidr, TRUE)
                BY <1>1, <2>3, <3>1, ScriptStackIs
            <4>3. QED
                BY <1>1, <2>4, <4>1, <4>2
        <3>2. CASE DOMAIN portals = {} /\ i \in Legacy(vlans)
            <4>1. e.cidr = vlans[i]
                BY <1>8, <2>1, <3>2 DEF LegacyEntry
            <4>2. ScriptStack(V)[i] = ScriptPortal(ScriptBare(V, i), vlans[i], FALSE)
                BY <1>1, <2>3, <3>2, ScriptStackIs
            <4>3. QED
                BY <1>1, <2>4, <4>1, <4>2
        <3>3. QED
            BY <1>11, <1>12, <3>1, <3>2
    <2>7. /\ stack'[i].ip = e.cidr /\ stack'[i].file = e.cidr /\ stack'[i].conf = e.cidr
          /\ stack'[i].run /\ stack'[i].captive /\ stack'[i].ttl = stack[i].ttl
        <3>1. PICK known \in BOOLEAN : stack'[i] = ScriptPortal(t, e.cidr, known)
            BY <2>6
        <3>2. QED
            BY <2>2, <2>5, <3>1, ScriptPortalIs
    <2>8. Ready(i, e)'
        BY <1>2, <2>2, <2>3, <2>7 DEF Ready, Serving
    <2>9. QED
        BY <1>3, <1>4, <2>1, <2>8 DEF Ready, Serving
<1>13. ASSUME NEW i \in Iface \ touched', i \notin Enabled(P), Plainly(i)
       PROVE  Plainly(i)'
    <2>1. stack'[i] = ScriptBare(V, i)
        BY <1>1, <1>11, <1>13, ScriptStackIs
    <2>2. QED
        BY <1>13, <2>1, ScriptBareIs DEF Plainly, Blank
<1>14. \A i \in Iface \ touched' : Fits(i)
    BY <1>1, <1>6 DEF StackInv
<1>15. \A i \in Iface \ touched' : Fits(i)'
    BY <1>3, <1>4, <1>12, <1>13, <1>14, FitsIs
<1>16. QED
    BY <1>5, <1>15 DEF StackInv

\* The API serves every enabled portal whose interface exists, before or after the script.
LEMMA StackApiBoot ==
    ASSUME HostOK, FilesOK, FilesOK', OneRequest, NetInv, NetInv', StackInv, ApiBoot
    PROVE  StackInv'
<1>1. /\ UNCHANGED <<kernel, bridges, job, script>> /\ touched \subseteq touched'
      /\ portals' = Final /\ vlans' = Rewritten(vlans) /\ api # "up" /\ api' = "up"
    BY DEF ApiBoot, Final, Fault, NoFault
<1>2. \A u \in Worker : job[u] = Idle
    BY DEF ApiBoot, OneRequest
<1>3. PICK P : P = Final
    OBVIOUS
<1>4. P \in PortalConf
    BY <1>3, MigratedConf
<1>5. Legacy(vlans') = {} /\ DOMAIN vlans' = DOMAIN vlans
    BY <1>1, RewrittenConf DEF FilesOK
<1>6. /\ Enabled(Final)' = Enabled(P)
      /\ \A i \in Enabled(P) : Final'[i] = P[i]
    <2>1. portals' \in PortalConf /\ Legacy(vlans)' = {}
        BY <1>5 DEF FilesOK, Legacy
    <2>2. Enabled(portals)' = Enabled(P)
        BY <1>1, <1>3 DEF Enabled
    <2>3. QED
        BY <1>1, <1>3, <2>1, <2>2, FinalIsNext
<1>7. \A w \in Worker : StackJob(w)'
    BY <1>1, <1>2 DEF StackJob, Idle, PortalOps
<1>8. \A i : ~PortalJob(i)
    BY <1>2 DEF PortalJob, Idle, PortalOps
<1>9. \A i \in Iface \ touched' :
        stack'[i] = [HealAll(P)[i] EXCEPT !.ttl = @ \/ (i \in DOMAIN P /\ P[i].anti)]
    <2>1. CASE /\ NoFault
               /\ stack' = [i \in Iface |-> [HealAll(Final)[i] EXCEPT !.ttl = @ \/ (i \in DOMAIN Final /\ Final[i].anti)]]
        BY <1>3, <2>1
    <2>2. ASSUME NEW k, NEW s, Fault({k}),
                 stack' = [i \in Iface |-> [[HealAll(Final) EXCEPT ![k] = s][i] EXCEPT
                                              !.ttl = @ \/ (i \in DOMAIN Final /\ Final[i].anti)]]
          PROVE  \A i \in Iface \ touched' :
                   stack'[i] = [HealAll(P)[i] EXCEPT !.ttl = @ \/ (i \in DOMAIN P /\ P[i].anti)]
        <3>1. k \in touched'
            BY <2>2 DEF Fault
        <3>2. PICK S : S = [HealAll(P) EXCEPT ![k] = s]
            OBVIOUS
        <3>3. \A i \in Iface \ touched' : S[i] = HealAll(P)[i]
            BY <1>4, <3>1, <3>2, HealAllIs
        <3>4. \A i \in Iface : stack'[i] = [S[i] EXCEPT !.ttl = @ \/ (i \in DOMAIN P /\ P[i].anti)]
            BY <1>3, <2>2, <3>2
        <3>5. QED
            BY <3>3, <3>4
    <2>3. \/ /\ stack' = [i \in Iface |-> [HealAll(Final)[i] EXCEPT !.ttl = @ \/ (i \in DOMAIN Final /\ Final[i].anti)]]
             /\ NoFault
          \/ \E k \in ToHeal(Final) : \E s \in HalfHealed(stack[k], Final[k]) :
               /\ stack' = [i \in Iface |-> [[HealAll(Final) EXCEPT ![k] = s][i] EXCEPT
                                                !.ttl = @ \/ (i \in DOMAIN Final /\ Final[i].anti)]]
               /\ Fault({k})
        BY DEF ApiBoot, Final
    <2>4. QED
        BY <2>1, <2>2, <2>3
<1>10. ASSUME NEW i \in Iface \ touched', i \in Enabled(P), NEW e, e = P[i], Ready(i, e)
       PROVE  Ready(i, e)'
    <2>1. e \in Entry /\ i \in DOMAIN P /\ stack[i] \in Stack /\ (e.anti \in BOOLEAN)
        <3>1. \A k \in DOMAIN P : P[k] \in Entry
            BY <1>4, ConfIs DEF PortalConf
        <3>2. QED
            BY <1>10, <3>1 DEF Enabled, HostOK, Entry
    <2>2. CASE i \in kernel
        <3>1. i \in ToHeal(P)
            BY <1>10, <2>2 DEF ToHeal
        <3>2. HealAll(P)[i] = Healed(stack[i], e)
            BY <1>4, <1>10, <3>1, HealAllIs
        <3>3. PICK h : h = Healed(stack[i], e)
            OBVIOUS
        <3>4. h \in Stack /\ Whole(h, e)
            BY <1>10, <2>1, <3>3, Stacks, HealedIs DEF Ready
        <3>5. stack'[i] = [h EXCEPT !.ttl = @ \/ e.anti]
            BY <1>9, <1>10, <2>1, <3>2, <3>3
        <3>6. Whole(stack'[i], e)
            BY <2>1, <3>4, <3>5 DEF Whole, Stack
        <3>7. QED
            BY <1>1, <2>2, <3>6, WholeServes DEF Ready, Whole
    <2>3. CASE i \notin kernel
        <3>1. HealAll(P)[i] = stack[i]
            BY <1>4, <1>10, <2>3, HealAllIs DEF ToHeal
        <3>2. PICK h : h = stack[i]
            OBVIOUS
        <3>3. stack'[i] = [h EXCEPT !.ttl = @ \/ e.anti] /\ h \in Stack
            BY <1>9, <1>10, <2>1, <3>1, <3>2
        <3>4. /\ stack'[i].file = h.file /\ stack'[i].conf = h.conf
              /\ e.anti => stack'[i].ttl
            BY <2>1, <3>3 DEF Stack
        <3>5. h.file \in {None, e.cidr} /\ h.conf = e.cidr /\ script /\ i \in DOMAIN vlans \cup DOMAIN bridges
            BY <1>10, <2>3, <3>2 DEF Ready
        <3>6. QED
            BY <1>1, <1>5, <2>3, <3>4, <3>5 DEF Ready
    <2>4. QED
        BY <2>2, <2>3
<1>11. ASSUME NEW i \in Iface \ touched', i \notin Enabled(P), Plainly(i)
       PROVE  Plainly(i)'
    <2>1. HealAll(P)[i] = stack[i]
        BY <1>4, <1>11, HealAllIs DEF ToHeal
    <2>2. PICK h, b : h = stack[i] /\ b = (i \in DOMAIN P /\ P[i].anti)
        OBVIOUS
    <2>3. stack'[i] = [h EXCEPT !.ttl = @ \/ b] /\ h \in Stack
        BY <1>9, <1>11, <2>1, <2>2 DEF HostOK
    <2>4. /\ stack'[i].ip = h.ip /\ stack'[i].file = h.file /\ stack'[i].conf = h.conf
          /\ stack'[i].run = h.run /\ stack'[i].captive = h.captive
        BY <2>3 DEF Stack
    <2>5. QED
        BY <1>11, <2>2, <2>4 DEF Plainly, Blank
<1>12. ASSUME NEW i \in Iface \ touched'
       PROVE  Fits(i)'
    <2>1. Fits(i)
        BY <1>1, <1>8 DEF StackInv
    <2>2. CASE i \in Enabled(P)
        <3>1. PICK e : e = P[i]
            OBVIOUS
        <3>2. Ready(i, e)
            BY <1>3, <2>1, <2>2, <3>1, FitsIs
        <3>3. Ready(i, e)'
            BY <1>10, <2>2, <3>1, <3>2
        <3>4. e = Final'[i] /\ i \in Enabled(Final)'
            BY <1>6, <2>2, <3>1
        <3>5. QED
            BY <3>3, <3>4 DEF Fits, Ready, Serving
    <2>3. CASE i \notin Enabled(P)
        <3>1. Plainly(i)
            BY <1>3, <2>1, <2>3, FitsIs
        <3>2. QED
            BY <1>6, <1>11, <2>3, <3>1 DEF Fits
    <2>4. QED
        BY <2>2, <2>3
<1>13. QED
    BY <1>7, <1>12 DEF StackInv

\* Every step keeps the stacks as they are to be, or as the request has left them.
LEMMA StackKept ==
    ASSUME Careful, HostOK, FilesOK, FilesOK', JobsOK, OneRequest, SettingsInv, NetInv, NetInv', StackInv,
           [Next]_vars
    PROVE  StackInv'
<1>1. ASSUME NEW w \in Worker,
             \/ \E v \in Vlan, t \in Cidr \cup {Plain} : VLANCreate(w, v, t)
             \/ \E v \in Vlan : VLANDelete(w, v)
             \/ \E b \in Bridge : BridgeCreate(w, b)
             \/ \E b \in Bridge : BridgeDelete(w, b)
             \/ \E b \in Bridge, m \in Iface : BridgeAddMember(w, b, m)
             \/ \E b \in Bridge, m \in Iface : BridgeRemoveMember(w, b, m)
      PROVE  StackInv'
    BY <1>1, StackLinkBegun
<1>2. ASSUME NEW w \in Worker,
             VLANLink(w) \/ BridgeLink(w)
      PROVE  StackInv'
    BY <1>2, StackLink
<1>3. ASSUME NEW w \in Worker,
             VLANUnlink(w) \/ BridgeUnlink(w)
      PROVE  StackInv'
    BY <1>3, StackUnlink
<1>4. ASSUME NEW w \in Worker,
             \/ VLANRead(w) \/ VLANWrite(w) \/ BridgeEnslave(w) \/ BridgeRelease(w)
             \/ BridgeRow(w) \/ BridgeRead(w) \/ BridgeWrite(w)
      PROVE  StackInv'
    BY <1>4, StackSame
<1>5. ASSUME NEW w \in Worker,
             VLANList(w)
      PROVE  StackInv'
    BY <1>5, StackVLANList
<1>6. ASSUME NEW w \in Worker,
             BridgeList(w)
      PROVE  StackInv'
    BY <1>6, StackBridgeList
<1>7. ASSUME NEW w \in Worker,
             \/ \E i \in Iface, c \in Cidr, anti \in BOOLEAN : PortalCreate(w, i, c, anti)
             \/ \E i \in Iface, c \in Cidr, anti \in BOOLEAN : PortalUpdate(w, i, c, anti)
      PROVE  StackInv'
    BY <1>7, StackPortalBegun
<1>8. ASSUME NEW w \in Worker,
             \/ \E i \in Iface : PortalEnable(w, i)
             \/ \E i \in Iface : PortalDisable(w, i)
      PROVE  StackInv'
    BY <1>8, StackPortalBegun
<1>9. ASSUME NEW w \in Worker, NEW i \in Iface,
             PortalDelete(w, i)
      PROVE  StackInv'
    BY <1>9, StackPortalDelete
<1>10. ASSUME NEW w \in Worker,
              PortalList(w)
       PROVE  StackInv'
    BY <1>10, StackPortalList
<1>11. ASSUME NEW w \in Worker,
              Teardown(w)
       PROVE  StackInv'
    BY <1>11, StackTeardown
<1>12. ASSUME NEW w \in Worker,
              Provision(w)
       PROVE  StackInv'
    BY <1>12, StackProvision
<1>13. ASSUME NEW w \in Worker,
              ProvisionFails(w)
       PROVE  StackInv'
    BY <1>13, StackProvisionFails
<1>14. ASSUME NEW w \in Worker,
              PortalRead(w) \/ PortalWrite(w)
       PROVE  StackInv'
    BY <1>14, StackPortalSaved
<1>15. ASSUME NEW w \in Worker,
              PortalMirror(w)
       PROVE  StackInv'
    BY <1>15, StackPortalMirror
<1>16. CASE BootScript
    BY <1>16, StackBootScript
<1>17. CASE ApiBoot
    BY <1>17, StackApiBoot
<1>18. CASE ApiCrash
    BY <1>18, StackApiCrash
<1>19. CASE PowerCut
    BY <1>19, StackPowerCut
<1>20. ASSUME NEW n \in Nic,
              Unplug(n)
       PROVE  StackInv'
    BY <1>20, StackPlugged
<1>21. ASSUME NEW n \in Nic,
              Plug(n)
       PROVE  StackInv'
    BY <1>21, StackPlugged
<1>22. CASE UNCHANGED vars
    BY <1>22, StackElsewhere DEF vars, hostVars, linkConf, portalConf, lifeVars
<1>23. QED
    BY <1>1, <1>2, <1>3, <1>4, <1>5, <1>6, <1>7, <1>8, <1>9, <1>10, <1>11, <1>12, <1>13,
       <1>14, <1>15, <1>16, <1>17, <1>18, <1>19, <1>20, <1>21, <1>22
    DEF Next, LinkRequest, LinkStep, PortalRequest, PortalStep

\* The stacks are as they are to be at first, also those of the old format.
LEMMA InitStack == Init => StackInv
<1> SUFFICES ASSUME Init PROVE StackInv
    OBVIOUS
<1>1. PICK old \in [Vlan -> Cidr \cup {Plain, None}], B \in SUBSET Bridge :
        LET V == {v \in Vlan : old[v] # None}
            L == {v \in V : old[v] # Plain}
        IN /\ vlans = Restrict(old, V) /\ kernel = Nic \cup V \cup B
           /\ stack = [i \in Iface |->
                         IF i \in L THEN [Bare EXCEPT !.ip = old[i], !.conf = old[i],
                                                      !.run = TRUE, !.captive = TRUE]
                         ELSE Bare]
    BY DEF Init
<1> DEFINE V == {v \in Vlan : old[v] # None}
           L == {v \in V : old[v] # Plain}
<1>2. DOMAIN vlans = V /\ \A v \in V : vlans[v] = old[v]
    BY <1>1 DEF Restrict
<1>3. Legacy(vlans) = L /\ L \subseteq kernel /\ L \subseteq Iface
    <2>1. \A v \in V : vlans[v] \in Cidr <=> old[v] # Plain
        BY <1>2, Sets
    <2>2. Legacy(vlans) = {v \in V : vlans[v] \in Cidr}
        BY <1>2 DEF Legacy
    <2>3. V \subseteq kernel /\ V \subseteq Iface
        BY <1>1, Sets
    <2>4. QED
        BY <2>1, <2>2, <2>3
<1>4. \A i \in L : vlans[i] = old[i]
    BY <1>2
<1>5. \A i \in Iface : stack[i] = IF i \in L THEN [Bare EXCEPT !.ip = old[i], !.conf = old[i],
                                                             !.run = TRUE, !.captive = TRUE]
                                   ELSE Bare
    BY <1>1
<1> HIDE DEF V, L
<1>6. DOMAIN portals = {} /\ api = "boot" /\ \A w \in Worker : job[w] = Idle
    <2>1. portals = <<>>
        BY DEF Init
    <2>2. DOMAIN portals = {}
        BY <2>1
    <2>3. QED
        BY <2>2 DEF Init
<1>7. /\ DOMAIN Final = L
      /\ \A i \in L : Final[i] = LegacyEntry(i)
    BY <1>3, <1>6, InitTypes, MigratedConf DEF TypeInv
<1>8. ASSUME NEW i \in L
      PROVE  Ready(i, Final[i])
    <2>1. PICK s, a : s = stack[i] /\ a = old[i]
        OBVIOUS
    <2>2. s = [Bare EXCEPT !.ip = a, !.conf = a, !.run = TRUE, !.captive = TRUE]
        BY <1>3, <1>5, <2>1
    <2>3. s.file = None /\ s.conf = a
        BY <2>2 DEF Bare
    <2>4. Final[i].cidr = a
        BY <1>4, <1>7, <2>1 DEF LegacyEntry
    <2>5. QED
        BY <1>3, <1>6, <2>1, <2>3, <2>4 DEF Ready
<1>9. ASSUME NEW i \in Iface \ L
      PROVE  Plainly(i)
    <2>1. stack[i] = Bare
        BY <1>5
    <2>2. Blank(Bare)
        BY DEF Blank, Bare
    <2>3. QED
        BY <2>1, <2>2 DEF Plainly
<1>10. \A i \in Iface : Fits(i)
    BY <1>7, <1>8, <1>9 DEF Fits, Enabled, LegacyEntry
<1>11. \A w \in Worker : StackJob(w)
    BY <1>6 DEF StackJob, Idle, PortalOps
<1>12. QED
    BY <1>10, <1>11 DEF StackInv

\* The stacks are as they are to be in every reachable state.
LEMMA StackInvAlways ==
    ASSUME Careful PROVE Spec => [](TypeInv /\ OneRequest /\ SettingsInv /\ NetInv /\ StackInv)
<1> DEFINE Inv == TypeInv /\ OneRequest /\ SettingsInv /\ NetInv /\ StackInv
<1>1. Init => Inv
    BY InitTypes, InitSettings, InitNet, InitStack
<1>2. Inv /\ [Next]_vars => Inv'
    BY TypesKept, OneKept, SettingsKeptOn, NetKept, StackKept DEF TypeInv
<1>3. QED
    BY <1>1, <1>2, PTL DEF Spec

\* Once nothing is under way every stack is as it is to be.
LEMMA SettledStacks ==
    ASSUME FilesOK, NetInv, StackInv, Settled
    PROVE  \A i \in Iface \ touched : Served(i)
<1>1. \A i : ~PortalJob(i)
    BY DEF Settled, Quiet, PortalJob, Idle, PortalOps
<1>2. QED
    BY <1>1, StackUp DEF Settled

\* An enabled portal on an interface nothing went wrong on is served as it was saved,
\* with address, networkd file, DHCP, rules and TTL, once all requests are answered, after
\* any history of requests, faults, unplugged adapters, crashes and power cuts, and whether
\* aircoins-vlan-apply or the API came first after a boot, while the operator lets a
\* request end before the next one starts (provisionPortal, healPortal).
THEOREM SavedPortalsServe == ASSUME Careful PROVE Spec => []ServedAsSaved
<1>1. ASSUME FilesOK, NetInv, StackInv
      PROVE  ServedAsSaved
    <2>1. DOMAIN portals \subseteq Iface
        BY <1>1, ConfIs DEF FilesOK, PortalConf
    <2>2. QED
        BY <1>1, <2>1, SettledStacks DEF ServedAsSaved, Served, Enabled
<1>2. QED
    BY <1>1, StackInvAlways, PTL DEF TypeInv

\* ... and where no portal is enabled nothing of one is left on the interface, but for its
\* TTL: neither a disabled, deleted or refused portal nor a boot leaves an address, a file,
\* a DHCP server or captive rules (teardownPortal, and the revert in the handlers).
THEOREM NothingLeftElsewhere == ASSUME Careful PROVE Spec => []PlainElsewhere
<1>1. ASSUME HostOK, FilesOK, NetInv, StackInv
      PROVE  PlainElsewhere
    <2>1. SUFFICES ASSUME Settled, NEW i \in Iface \ (Enabled(portals) \cup touched)
                   PROVE  [stack[i] EXCEPT !.ttl = FALSE] = Bare
        BY DEF PlainElsewhere
    <2>2. Plainly(i)
        BY <1>1, <2>1, SettledStacks DEF Served
    <2>3. PICK s : s = stack[i]
        OBVIOUS
    <2>4. s \in Stack /\ Blank(s)
        BY <1>1, <2>1, <2>2, <2>3 DEF HostOK, Plainly
    <2>5. [s EXCEPT !.ttl = FALSE] = Bare
        BY <2>4, BlankIs
    <2>6. QED
        BY <2>3, <2>5
<1>2. QED
    BY <1>1, StackInvAlways, PTL DEF TypeInv
=============================================================================
