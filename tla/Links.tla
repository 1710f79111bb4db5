-------------------------------- MODULE Links --------------------------------
(***************************************************************************)
(* VLANs and bridges (handlers/vlan.go, handlers/bridge.go): a request     *)
(* changes the kernel first, then the database, then rewrites its text     *)
(* file from what it has just read there; listing them repairs the kernel  *)
(* from the file.                                                          *)
(***************************************************************************)
EXTENDS NetState

\* readVLANConfig takes a description that begins with an address for a line of
\* the old format, and the next rewrite drops the address from it.
Legacy(f) == {v \in DOMAIN f : f[v] \in Cidr}
Rewritten(f) == [v \in DOMAIN f |-> IF v \in Legacy(f) THEN Plain ELSE f[v]]

-----------------------------------------------------------------------------
\* VLANs

VLANCreate(w, v, text) ==
    /\ Careful => text = Plain
    /\ Begin(w, [Idle EXCEPT !.op = "vlan+", !.pc = "link", !.i = v, !.arg = text])
    /\ UNCHANGED <<portalConf, promised>>

\* ip link add, if there is none, and ip link set up; a link that cannot be set
\* up is deleted, also when it was there before.
VLANLink(w) ==
    /\ At(w, {"vlan+"}, "link")
    /\ LET v == job[w].i
       IN \/ /\ kernel' = kernel \cup {v} /\ stack' = Appeared({v} \ kernel)
             /\ Goto(w, "read")
             /\ NoFault /\ UNCHANGED master
          \/ /\ v \notin kernel
             /\ Fault({v})
             /\ Answer(w) /\ UNCHANGED hostVars
          \/ Fault({v}) /\ Vanish(v) /\ Answer(w)
    /\ UNCHANGED <<linkConf, portalConf, lifeVars, used, promised>>

VLANDelete(w, v) ==
    /\ Careful => master[v] = None
    /\ ~PortalAttached(v)
    /\ Begin(w, [Idle EXCEPT !.op = "vlan-", !.pc = "unlink", !.i = v])
    /\ UNCHANGED <<portalConf, promised>>

VLANUnlink(w) ==
    /\ At(w, {"vlan-"}, "unlink")
    /\ LET v == job[w].i
       IN \/ /\ IF v \in kernel THEN Vanish(v) ELSE UNCHANGED hostVars
             /\ Goto(w, "read") /\ NoFault
          \/ /\ v \in kernel
             /\ Fault({v}) /\ Answer(w) /\ UNCHANGED hostVars
    /\ UNCHANGED <<linkConf, portalConf, lifeVars, used, promised>>

VLANRead(w) ==
    /\ At(w, {"vlan+", "vlan-"}, "read")
    /\ LET j == job[w]
           rest == Without(Rewritten(vlans), j.i)
       IN job' = [job EXCEPT ![w].pc = "write",
                    ![w].snap = IF j.op = "vlan+" THEN With(rest, j.i, j.arg) ELSE rest]
    /\ UNCHANGED <<hostVars, linkConf, portalConf, lifeVars, used, faults, touched, promised>>

VLANWrite(w) ==
    /\ At(w, {"vlan+", "vlan-"}, "write")
    /\ vlans' = job[w].snap
    /\ Answer(w)
    /\ UNCHANGED <<hostVars, bridges, rows, portalConf, lifeVars, used, faults, touched,
                   promised>>

\* VLANList recreates the saved VLANs the kernel does not have; a failure is logged.
VLANList(w) ==
    /\ MayServe(w)
    /\ LET missing == DOMAIN vlans \ kernel
       IN /\ missing # {}
          /\ \E back \in SUBSET missing :
               /\ IF back = missing THEN NoFault ELSE Fault(missing \ back)
               /\ kernel' = kernel \cup back
               /\ stack' = Appeared(back)
    /\ UNCHANGED <<master, linkConf, portalConf, job, lifeVars, used, promised>>

-----------------------------------------------------------------------------
\* Bridges

BridgeCreate(w, b) ==
    /\ b \notin kernel /\ b \notin DOMAIN rows
    /\ Begin(w, [Idle EXCEPT !.op = "bridge+", !.pc = "link", !.i = b])
    /\ UNCHANGED <<portalConf, promised>>

BridgeLink(w) ==
    /\ At(w, {"bridge+"}, "link")
    /\ LET b == job[w].i
       IN \/ /\ b \notin kernel
             /\ kernel' = kernel \cup {b} /\ stack' = Appeared({b})
             /\ Goto(w, "row")
             /\ NoFault /\ UNCHANGED master
          \/ /\ \/ b \in kernel /\ NoFault
                \/ Fault({b})
             /\ Answer(w) /\ UNCHANGED hostVars
    /\ UNCHANGED <<linkConf, portalConf, lifeVars, used, promised>>

\* Refused while a portal is attached or while database or kernel know a member.
BridgeDelete(w, b) ==
    /\ ~PortalAttached(b)
    /\ b \in DOMAIN rows => rows[b] = {}
    /\ Members(b) = {}
    /\ Begin(w, [Idle EXCEPT !.op = "bridge-", !.pc = "unlink", !.i = b])
    /\ UNCHANGED <<portalConf, promised>>

BridgeUnlink(w) ==
    /\ At(w, {"bridge-"}, "unlink")
    /\ LET b == job[w].i
       IN \/ /\ IF b \in kernel THEN Vanish(b) ELSE UNCHANGED hostVars
             /\ Goto(w, "read") /\ NoFault
          \/ /\ b \in kernel
             /\ Fault({b}) /\ Answer(w) /\ UNCHANGED hostVars
    /\ UNCHANGED <<linkConf, portalConf, lifeVars, used, promised>>

\* Mutant: an interface that has an address or a portal may become a member.
BridgeAddAnyMember(w, b, m) ==
    /\ b \in kernel /\ m \in kernel \ Bridge
    /\ master[m] = None
    /\ Begin(w, [Idle EXCEPT !.op = "member+", !.pc = "link", !.i = b, !.arg = m])
    /\ UNCHANGED <<portalConf, promised>>

BridgeAddMember(w, b, m) ==
    /\ b \in kernel /\ m \in kernel
    /\ stack[m].ip = None
    /\ ~PortalAttached(m)
    /\ master[m] = None
    /\ Begin(w, [Idle EXCEPT !.op = "member+", !.pc = "link", !.i = b, !.arg = m])
    /\ UNCHANGED <<portalConf, promised>>

\* The kernel enslaves no bridge to a bridge.
BridgeEnslave(w) ==
    /\ At(w, {"member+"}, "link")
    /\ LET b == job[w].i  m == job[w].arg
       IN \/ /\ b \in kernel /\ m \in kernel \ Bridge
             /\ master' = [master EXCEPT ![m] = b]
             /\ Goto(w, "row") /\ NoFault
          \/ /\ \/ (m \in Bridge \/ {b, m} \notin SUBSET kernel) /\ NoFault
                \/ Fault({b, m})
             /\ Answer(w) /\ UNCHANGED master
    /\ UNCHANGED <<kernel, stack, linkConf, portalConf, lifeVars, used, promised>>

\* Neither the bridge nor the membership is looked at.
BridgeRemoveMember(w, b, m) ==
    /\ Careful => b \in DOMAIN bridges /\ m \in bridges[b] /\ master[m] \in {b, None}
    /\ Begin(w, [Idle EXCEPT !.op = "member-", !.pc = "link", !.i = b, !.arg = m])
    /\ UNCHANGED <<portalConf, promised>>

BridgeRelease(w) ==
    /\ At(w, {"member-"}, "link")
    /\ LET b == job[w].i  m == job[w].arg
       IN \/ /\ master' = [master EXCEPT ![m] = None]
             /\ Goto(w, "row") /\ NoFault
          \/ m \in kernel /\ Fault({b, m}) /\ Answer(w) /\ UNCHANGED master
    /\ UNCHANGED <<kernel, stack, linkConf, portalConf, lifeVars, used, promised>>

\* Mutant: the row of a member stays when it is removed.
RowsKept(r, j) ==
    CASE j.op = "bridge+" -> With(r, j.i, {})
      [] j.op = "bridge-" -> Without(r, j.i)
      [] j.op = "member+" /\ j.i \in DOMAIN r -> [r EXCEPT ![j.i] = @ \cup {j.arg}]
      [] OTHER -> r
\* The rows of a request; a database error is logged and nothing else.
RowsAfter(r, j) ==
    CASE j.op = "bridge+" -> With(r, j.i, {})
      [] j.op = "bridge-" -> Without(r, j.i)
      [] j.op = "member+" /\ j.i \in DOMAIN r -> [r EXCEPT ![j.i] = @ \cup {j.arg}]
      [] j.op = "member-" /\ j.i \in DOMAIN r -> [r EXCEPT ![j.i] = @ \ {j.arg}]
      [] OTHER -> r

BridgeRow(w) ==
    /\ At(w, {"bridge+", "bridge-", "member+", "member-"}, "row")
    /\ \/ rows' = RowsAfter(rows, job[w]) /\ NoFault
       \/ UNCHANGED rows /\ Fault(Concerns(w))
    /\ IF job[w].op = "bridge-" THEN Answer(w) ELSE Goto(w, "read")
    /\ UNCHANGED <<hostVars, vlans, bridges, portalConf, lifeVars, used, promised>>

\* updateBridgeConfigMembers writes the members the kernel has, and adds the
\* bridge to the file when it is not there.
BridgeRead(w) ==
    /\ At(w, {"bridge+", "bridge-", "member+", "member-"}, "read")
    /\ LET j == job[w]
       IN job' = [job EXCEPT ![w].pc = "write",
                    ![w].snap = CASE j.op = "bridge+" -> With(bridges, j.i, {})
                                  [] j.op = "bridge-" -> Without(bridges, j.i)
                                  [] OTHER -> With(bridges, j.i, Members(j.i))]
    /\ UNCHANGED <<hostVars, linkConf, portalConf, lifeVars, used, faults, touched, promised>>

BridgeWrite(w) ==
    /\ At(w, {"bridge+", "bridge-", "member+", "member-"}, "write")
    /\ bridges' = job[w].snap
    /\ IF job[w].op = "bridge-"
       THEN job' = [job EXCEPT ![w].pc = "row", ![w].snap = <<>>] ELSE Answer(w)
    /\ UNCHANGED <<hostVars, vlans, rows, portalConf, lifeVars, used, faults, touched, promised>>

\* The saved bridge that is missing in the kernel and lists i, if any.
Reclaims(missing, i) == {b \in missing : i \in bridges[b]}
\* autoEnslavePhysicalMembers: free adapters without address and portal.
Free(n, m) == n \in kernel /\ m[n] = None /\ ~PortalAttached(n) /\ stack[n].ip = None

\* BridgeList recreates the saved bridges that are missing, enslaves their saved
\* members again, wherever these are by now, and adds every free adapter to Br0.
\* A bridge that cannot be added and an interface that stays out are logged.
Listed(back, stay) ==
    LET taken == [i \in Iface |->
                    IF i \in kernel \ (Bridge \cup stay) /\ Reclaims(back, i) # {}
                    THEN CHOOSE b \in Reclaims(back, i) : TRUE ELSE master[i]]
        added == IF Br0 \in kernel \cup back THEN {n \in Nic \ stay : Free(n, taken)} ELSE {}
        after == [i \in Iface |-> IF i \in added THEN Br0 ELSE taken[i]]
    IN /\ back \cup added \cup stay # {}
       /\ kernel' = kernel \cup back
       /\ stack' = Appeared(back)
       /\ master' = after
       /\ rows' = IF Br0 \in DOMAIN rows THEN [rows EXCEPT ![Br0] = @ \cup added] ELSE rows
       /\ bridges' = IF added = {} THEN bridges
                     ELSE With(bridges, Br0, {i \in Iface : after[i] = Br0})
BridgeList(w) ==
    /\ MayServe(w)
    /\ LET missing == DOMAIN bridges \ kernel
       IN \/ Listed(missing, {}) /\ NoFault
          \/ \E b \in missing : Listed(missing \ {b}, {}) /\ Fault({b})
          \/ \E i \in kernel \ Bridge :
               /\ Reclaims(missing, i) # {} \/ (i \in Nic /\ Free(i, master))
               /\ Listed(missing, {i})
               /\ Fault({i})
    /\ UNCHANGED <<vlans, portalConf, job, lifeVars, used, promised>>
=============================================================================
