------------------------------ MODULE NetState ------------------------------
(***************************************************************************)
(* What the handlers of VLANs, bridges and portals share: the interfaces   *)
(* of the kernel, the portal stack each of them carries, the requests the  *)
(* API is serving, and the configuration they write to three text files    *)
(* and, as a mirror, to the database.  No lock orders any of it.           *)
(*                                                                         *)
(* Nic is the set of wired LAN adapters; the uplink, which carries the     *)
(* default route and is the parent of every VLAN, is in none of the sets.  *)
(***************************************************************************)
EXTENDS Naturals, FiniteSets, Functions

CONSTANTS Nic, Vlan, Bridge,    \* interfaces: adapters, end0.22 ..., br0 ...
          Br0,                  \* the bridge free adapters are added to
          Cidr,                 \* portal addresses, each with its DHCP range
          Plain,                \* a description that does not begin with an address
          None,
          Worker,               \* requests the API serves at the same time
          Careful,              \* does the operator keep to the rules of the README?
          MaxRequests, MaxFaults, MaxCuts    \* bounds

Iface == Nic \cup Vlan \cup Bridge

ASSUME NetAssumption ==
    /\ Nic \cap Vlan = {} /\ Nic \cap Bridge = {} /\ Vlan \cap Bridge = {}
    /\ Br0 \in Bridge /\ None \notin Iface \cup Cidr /\ Plain \notin Cidr /\ Careful \in BOOLEAN
    /\ MaxRequests \in Nat /\ MaxFaults \in Nat /\ MaxCuts \in Nat

VARIABLES kernel,    \* interfaces that exist
          master,    \* master[i]: the bridge i is enslaved to
          stack,     \* stack[i]: what is left or set up of a portal on i
          vlans,     \* vlans.conf: VLAN -> description
          bridges,   \* bridges.conf: bridge -> members
          rows,      \* bridge_config and bridge_members: bridge -> members
          portals,   \* portals.conf: interface -> entry
          mirror,    \* interfaces with a row in portal_servers
          job,       \* job[w]: what request w is doing
          api,       \* "off", "boot" or "up"
          script,    \* is aircoins-vlan-apply still to run after this boot?
          used, faults, cuts,
          touched,   \* history: interfaces something went wrong on
          promised   \* history: interface -> the portal the last answer confirmed

hostVars == <<kernel, master, stack>>
linkConf == <<vlans, bridges, rows>>
portalConf == <<portals, mirror>>
lifeVars == <<api, script, cuts>>
vars == <<hostVars, linkConf, portalConf, job, lifeVars, used, faults, touched, promised>>

-----------------------------------------------------------------------------
\* Values

\* file: the address in the networkd file; conf: the one in dnsmasq's.
Bare == [ip |-> None, file |-> None, conf |-> None,
         run |-> FALSE, captive |-> FALSE, ttl |-> FALSE]
Stack == [ip: Cidr \cup {None}, file: Cidr \cup {None}, conf: Cidr \cup {None},
          run: BOOLEAN, captive: BOOLEAN, ttl: BOOLEAN]
Entry == [cidr: Cidr, on: BOOLEAN, anti: BOOLEAN]
NoEntry == [cidr |-> None, on |-> FALSE, anti |-> FALSE]
Idle == [op |-> "none", pc |-> "idle", i |-> None, arg |-> None,
         want |-> NoEntry, old |-> NoEntry, snap |-> <<>>]

Without(f, x) == Restrict(f, DOMAIN f \ {x})
With(f, x, y) == [z \in DOMAIN f \cup {x} |-> IF z = x THEN y ELSE f[z]]

\* getBridgeMembersFromKernel
Members(b) == {i \in Iface : master[i] = b}
\* portalAttached: the file, or the mirror in case the file was lost.
PortalAttached(i) == i \in DOMAIN portals \/ i \in mirror

\* An interface that appears gets the address of its networkd file; with one that
\* goes, its address and its place in a bridge go, and the rest stays behind.
Appeared(S) == [i \in Iface |-> IF i \in S THEN [stack[i] EXCEPT !.ip = stack[i].file]
                                ELSE stack[i]]
Vanish(i) ==
    /\ kernel' = kernel \ {i}
    /\ master' = [j \in Iface |-> IF j = i \/ master[j] = i THEN None ELSE master[j]]
    /\ stack' = [stack EXCEPT ![i].ip = None]

-----------------------------------------------------------------------------
\* Requests

At(w, op, pc) == api = "up" /\ job[w].op \in op /\ job[w].pc = pc
Goto(w, pc) == job' = [job EXCEPT ![w].pc = pc]
Answer(w) == job' = [job EXCEPT ![w] = Idle]
Quiet == \A w \in Worker : job[w] = Idle
MayServe(w) == api = "up" /\ job[w] = Idle /\ (Careful => Quiet /\ ~script)
Begin(w, j) ==
    /\ MayServe(w)
    /\ used < MaxRequests /\ used' = used + 1
    /\ job' = [job EXCEPT ![w] = j]
    /\ UNCHANGED <<hostVars, linkConf, lifeVars, faults, touched>>

\* A command fails that a handler runs on i.
Fault(S) == faults < MaxFaults /\ faults' = faults + 1 /\ touched' = touched \cup S
NoFault == UNCHANGED <<faults, touched>>
\* The interfaces request w is working on.
Concerns(w) == {job[w].i, job[w].arg} \cap Iface
=============================================================================
