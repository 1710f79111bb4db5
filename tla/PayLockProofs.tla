--------------------------- MODULE PayLockProofs ---------------------------
(***************************************************************************)
(* Proofs about PayLock for any number of clients, VLANs and goroutines,   *)
(* any number of acquisitions and any number of restarts.                  *)
(***************************************************************************)
EXTENDS PayLock, TLAPS

\* The empty ticket is not one that an acquisition draws.
LEMMA NoTicketIsNoTicket == NoTicket \notin Tickets
BY DEF NoTicket, Tickets

\* Replacing the state of one goroutine keeps th well typed.
LEMMA ThreadType ==
  ASSUME TypeOK, NEW t \in Threads, NEW r \in Goroutine,
         Proper(r), th' = [th EXCEPT ![t] = r]
  PROVE  /\ th' \in [Threads -> Goroutine]
         /\ \A s \in Threads : Proper(th'[s])
BY DEF TypeOK

\* Moving a goroutine on inside its handler keeps th well typed.
LEMMA GotoType ==
  ASSUME TypeOK, NEW t \in Threads, NEW pc \in PCs \ {"validated"}, th[t].pc # "idle", Goto(t, pc)
  PROVE  /\ th' \in [Threads -> Goroutine]
         /\ \A s \in Threads : Proper(th'[s])
<1> DEFINE r == [th[t] EXCEPT !.pc = pc]
<1>1. r \in Goroutine /\ Proper(r)
  BY DEF TypeOK, Goroutine, Proper
<1>2. th' = [th EXCEPT ![t] = r]
  BY DEF Goto
<1> QED BY <1>1, <1>2, ThreadType

\* Ending a request keeps th well typed.
LEMMA EndType ==
  ASSUME TypeOK, NEW t \in Threads, End(t)
  PROVE  /\ th' \in [Threads -> Goroutine]
         /\ \A s \in Threads : Proper(th'[s])
<1>1. Idle \in Goroutine /\ Proper(Idle)
  BY DEF Idle, Goroutine, PCs, Proper
<1> QED BY <1>1, ThreadType DEF End

\* Starting a request on a goroutine keeps th well typed.
LEMMA ServeType ==
  ASSUME TypeOK, NEW t \in Threads, NEW pc \in PCs, NEW c \in Clients,
         NEW op \in {"arm", "canstart", "start", "disarm"},
         NEW tk \in Tickets \cup {NoTicket}, pc = "validated" => tk # NoTicket, Serve(t, pc, op, c, tk)
  PROVE  /\ th' \in [Threads -> Goroutine]
         /\ \A s \in Threads : Proper(th'[s])
<1> DEFINE r == [pc |-> pc, op |-> op, cl |-> c, tk |-> tk]
<1>1. r \in Goroutine /\ Proper(r)
  BY DEF Goroutine, Proper
<1>2. th' = [th EXCEPT ![t] = r]
  BY DEF Serve
<1> QED BY <1>1, <1>2, ThreadType

\* Type correctness: every handler step keeps the fields of the lock entry,
\* the goroutines and the watchdogs within their types.
THEOREM TypeCorrect == Spec => []TypeOK
<1> USE DEF PCs
<1>1. Init => TypeOK
  BY DEF Init, TypeOK, Idle, Goroutine, Proper
<1>2. TypeOK /\ [Next]_vars => TypeOK'
  <2> SUFFICES ASSUME TypeOK, [Next]_vars
               PROVE  TypeOK'
    OBVIOUS
  <2> USE VlanOfAssumption DEF lockVars
  <2>1. ASSUME NEW t \in Threads, NEW c \in Clients, Request(t, c)
        PROVE  TypeOK'
    <3>1. ASSUME NEW op \in {"arm", "canstart"}, Acquire(t, c, op)
          PROVE  TypeOK'
      BY <3>1, ServeType DEF Acquire, TypeOK
    <3>2. CASE FindFull(t, c)
      BY <3>2, ServeType DEF FindFull, TypeOK
    <3>3. CASE Disarm(t, c)
      BY <3>3, ServeType DEF Disarm, TypeOK
    <3>4. ASSUME NEW k \in got[c], Validate(t, c, k)
          PROVE  TypeOK'
      <4>1. k \in Tickets
        BY DEF TypeOK
      <4> QED BY <3>4, <4>1, ServeType DEF Validate, TypeOK
    <3> QED BY <2>1, <3>1, <3>2, <3>3, <3>4 DEF Request
  <2>2. ASSUME NEW t \in Threads, Continue(t)
        PROVE  TypeOK'
    <3> DEFINE c == th[t].cl
               v == VlanOf[c]
    <3>0. th[t].pc # "idle" /\ c \in Clients /\ v \in Vlans /\ th[t] \in Goroutine
      BY <2>2 DEF Continue, Register, ReadHolder, ArmAnswer, Reissue, GiveBack,
                  DrainValidated, Drain, Clear, Forget, TypeOK, Proper
    <3>a. th[t].tk \in Tickets \cup {NoTicket}
      BY <3>0 DEF Goroutine
    <3>1. CASE Register(t)
      <4> DEFINE k == [boot |-> boot, vlan |-> v, no |-> gen[v] + 1, to |-> c]
                 r == [th[t] EXCEPT !.pc = "granted", !.tk = k]
      <4>1. k \in Tickets
        BY <3>0 DEF Tickets, TypeOK
      <4>2. [vlan |-> v, gen |-> gen[v] + 1, at |-> "asleep"] \in Watchdog
        BY <3>0 DEF Watchdog, TypeOK
      <4>3. th' = [th EXCEPT ![t] = r] /\ ticket' = [ticket EXCEPT ![v] = k]
        BY <3>1 DEF Register
      <4> HIDE DEF k
      <4>4. r \in Goroutine /\ Proper(r)
        BY <3>0, <4>1 DEF Goroutine, Proper
      <4>5. /\ th' \in [Threads -> Goroutine]
            /\ \A s \in Threads : Proper(th'[s])
        BY <4>3, <4>4, ThreadType
      <4> QED BY <3>0, <3>1, <4>1, <4>2, <4>3, <4>5 DEF Register, Spawn, TypeOK
    <3>2. CASE ReadHolder(t)
      BY <3>0, <3>2, GotoType, EndType DEF ReadHolder, TypeOK
    <3>3. CASE ArmAnswer(t)
      BY <3>0, <3>a, <3>3, EndType DEF ArmAnswer, Give, TypeOK
    <3>4. CASE Reissue(t)
      BY <3>0, <3>4, EndType DEF Reissue, Give, TypeOK
    <3>5. CASE GiveBack(t)
      <4> DEFINE r == [th[t] EXCEPT !.pc = "drain", !.op = "giveback", !.tk = NoTicket]
      <4>1. r \in Goroutine /\ Proper(r)
        BY <3>0 DEF Goroutine, Proper
      <4>2. th' = [th EXCEPT ![t] = r]
        BY <3>5 DEF GiveBack
      <4> QED BY <3>5, <4>1, <4>2, ThreadType DEF GiveBack, TypeOK
    <3>6. CASE DrainValidated(t)
      <4>1. th[t].tk # NoTicket
        BY <3>6 DEF DrainValidated, TypeOK, Proper
      <4> QED BY <3>0, <3>a, <3>6, <4>1, GotoType DEF DrainValidated, TypeOK
    <3>7. CASE Drain(t)
      BY <3>0, <3>7, GotoType, EndType DEF Drain, TypeOK
    <3>8. CASE Clear(t)
      BY <3>0, <3>8, EndType DEF Clear, ClearFields, TypeOK
    <3>9. CASE Forget(t)
      BY <3>0, <3>9, EndType DEF Forget, TypeOK
    <3> QED BY <2>2, <3>1, <3>2, <3>3, <3>4, <3>5, <3>6, <3>7, <3>8, <3>9 DEF Continue
  <2>3. ASSUME NEW w \in watchdogs, WatchdogStep(w)
        PROVE  TypeOK'
    <3>0. /\ w \in Watchdog /\ w.vlan \in Vlans
          /\ \A at \in {"asleep", "checked", "drained"} : [w EXCEPT !.at = at] \in Watchdog
      BY DEF TypeOK, Watchdog
    <3>1. CASE WatchdogCheck(w)
      BY <3>0, <3>1 DEF WatchdogCheck, Move, Stop, TypeOK
    <3>2. CASE WatchdogDrain(w)
      BY <3>0, <3>2 DEF WatchdogDrain, Move, Stop, TypeOK
    <3>3. CASE WatchdogClear(w)
      BY <3>0, <3>3 DEF WatchdogClear, ClearFields, Stop, TypeOK
    <3> QED BY <2>3, <3>1, <3>2, <3>3 DEF WatchdogStep
  <2>4. CASE Restart
    BY <2>4 DEF Restart, Idle, Goroutine, TypeOK, Proper
  <2>5. CASE UNCHANGED vars
    BY <2>5 DEF vars, TypeOK
  <2> QED BY <2>1, <2>2, <2>3, <2>4, <2>5 DEF Next
<1> QED BY <1>1, <1>2, PTL DEF Spec

----------------------------------------------------------------------------
\* A step of one goroutine leaves the others where they are.
LEMMA OtherThreads ==
  ASSUME TypeOK, NEW t \in Threads, NEW s \in Threads \ {t},
         (\E c \in Clients : Request(t, c)) \/ Continue(t)
  PROVE  th'[s] = th[s]
BY DEF TypeOK, Request, Acquire, FindFull, Disarm, Validate, Serve, Continue, Register,
       ReadHolder, ArmAnswer, Reissue, GiveBack, DrainValidated, Drain, Clear, Forget,
       Goto, End

\* A full channel is covered by a goroutine that will start a watchdog or by
\* the watchdog of the current generation: no VLAN can be wedged.
THEOREM NeverWedged == Spec => []WatchdogCovers
<1>1. Init => WatchdogCovers
  BY DEF Init, WatchdogCovers
<1>2. TypeOK /\ WatchdogCovers /\ [Next]_vars => WatchdogCovers'
  <2> SUFFICES ASSUME TypeOK, WatchdogCovers, [Next]_vars, NEW u \in Vlans, sem'[u] = 1
               PROVE  \/ \E t \in Threads : th'[t].pc = "set" /\ VlanOf[th'[t].cl] = u
                      \/ \E w \in watchdogs' : w.vlan = u /\ w.gen = gen'[u] /\ w.at # "drained"
    BY DEF WatchdogCovers, At
  <2> DEFINE Setting == \E t \in Threads : th[t].pc = "set" /\ VlanOf[th[t].cl] = u
             Guarded == \E w \in watchdogs : w.vlan = u /\ w.gen = gen[u] /\ w.at # "drained"
             Goal    == \/ \E t \in Threads : th'[t].pc = "set" /\ VlanOf[th'[t].cl] = u
                        \/ \E w \in watchdogs' : w.vlan = u /\ w.gen = gen'[u] /\ w.at # "drained"
  <2>0. sem[u] = 1 => Setting \/ Guarded
    BY DEF WatchdogCovers, At
  <2>1. ASSUME NEW t \in Threads, NEW c \in Clients, Request(t, c)
        PROVE  Goal
    <3>0. \A s \in Threads \ {t} : th'[s] = th[s]
      BY <2>1, OtherThreads
    <3>1. ASSUME NEW op \in {"arm", "canstart"}, Acquire(t, c, op)
          PROVE  Goal
      <4>1. th'[t].pc = "set" /\ VlanOf[th'[t].cl] = VlanOf[c] /\ th[t].pc = "idle"
        BY <3>1 DEF Acquire, Serve, TypeOK
      <4>2. CASE u = VlanOf[c]
        BY <4>1, <4>2
      <4>3. CASE u # VlanOf[c]
        <5>1. sem[u] = 1 /\ watchdogs' = watchdogs /\ gen' = gen
          BY <3>1, <4>3, VlanOfAssumption DEF Acquire, TypeOK
        <5> QED BY <2>0, <3>0, <4>1, <5>1
      <4> QED BY <4>2, <4>3
    <3>2. CASE FindFull(t, c) \/ Disarm(t, c) \/ \E k \in got[c] : Validate(t, c, k)
      <4>1. th[t].pc = "idle" /\ sem' = sem /\ watchdogs' = watchdogs /\ gen' = gen
        BY <3>2 DEF FindFull, Disarm, Validate, Serve, lockVars
      <4> QED BY <2>0, <3>0, <4>1
    <3> QED BY <2>1, <3>1, <3>2 DEF Request
  <2>2. ASSUME NEW t \in Threads, Continue(t)
        PROVE  Goal
    <3>0. \A s \in Threads \ {t} : th'[s] = th[s]
      BY <2>2, OtherThreads
    <3>1. CASE Register(t)
      <4> DEFINE v == VlanOf[th[t].cl]
                 w == [vlan |-> v, gen |-> gen[v] + 1, at |-> "asleep"]
      <4>1. v \in Vlans /\ sem' = sem
        BY <3>1, VlanOfAssumption DEF Register, TypeOK, Proper
      <4>2. watchdogs' = watchdogs \cup {w} /\ gen' = [gen EXCEPT ![v] = gen[v] + 1]
        BY <3>1 DEF Register, Spawn
      <4>3. CASE u = v
        <5>1. w \in watchdogs' /\ w.vlan = u /\ w.gen = gen'[u] /\ w.at # "drained"
          BY <4>1, <4>2, <4>3 DEF TypeOK
        <5> QED BY <5>1
      <4>4. CASE u # v
        <5>1. gen'[u] = gen[u]
          BY <4>1, <4>2, <4>4 DEF TypeOK
        <5> QED BY <2>0, <3>0, <4>1, <4>2, <4>4, <5>1
      <4> QED BY <4>3, <4>4
    <3>2. CASE ~Register(t)
      <4>1. th[t].pc # "set" /\ watchdogs' = watchdogs /\ gen' = gen
        BY <2>2, <3>2 DEF Continue, ReadHolder, ArmAnswer, Reissue, GiveBack, DrainValidated,
                          Drain, Clear, Forget, lockVars
      <4>2. sem[u] = 1
        BY <2>2, <3>2 DEF Continue, ReadHolder, ArmAnswer, Reissue, GiveBack, DrainValidated,
                          Drain, Clear, Forget, lockVars, TypeOK
      <4> QED BY <2>0, <3>0, <4>1, <4>2
    <3> QED BY <3>1, <3>2
  <2>3. ASSUME NEW w \in watchdogs, WatchdogStep(w)
        PROVE  Goal
    <3>0. th' = th /\ gen' = gen /\ w \in Watchdog
      BY <2>3 DEF WatchdogStep, WatchdogCheck, WatchdogDrain, WatchdogClear, TypeOK, lockVars
    <3>1. CASE WatchdogCheck(w)
      <4>1. sem[u] = 1
        BY <3>1 DEF WatchdogCheck, lockVars
      <4>2. CASE gen[w.vlan] = w.gen
        <5> DEFINE x == [w EXCEPT !.at = "checked"]
        <5>1. x \in watchdogs' /\ x.vlan = w.vlan /\ x.gen = w.gen /\ x.at # "drained"
          BY <3>0, <3>1, <4>2 DEF WatchdogCheck, Move, Watchdog
        <5>2. \A y \in watchdogs : y = w \/ y \in watchdogs'
          BY <3>1, <4>2 DEF WatchdogCheck, Move
        <5> HIDE DEF x
        <5> QED BY <2>0, <3>0, <4>1, <5>1, <5>2
      <4>3. CASE gen[w.vlan] # w.gen
        <5>1. watchdogs' = watchdogs \ {w}
          BY <3>1, <4>3 DEF WatchdogCheck, Stop
        <5> QED BY <2>0, <3>0, <4>1, <4>3, <5>1
      <4> QED BY <4>2, <4>3
    <3>2. CASE WatchdogDrain(w)
      <4>1. u # w.vlan /\ sem[u] = 1
        BY <3>0, <3>2 DEF WatchdogDrain, TypeOK
      <4>2. \A y \in watchdogs : y = w \/ y \in watchdogs'
        BY <3>2 DEF WatchdogDrain, Move, Stop
      <4> QED BY <2>0, <3>0, <4>1, <4>2
    <3>3. CASE WatchdogClear(w)
      <4>1. sem[u] = 1 /\ w.at = "drained" /\ watchdogs' = watchdogs \ {w}
        BY <3>3 DEF WatchdogClear, Stop
      <4> QED BY <2>0, <3>0, <4>1
    <3> QED BY <2>3, <3>1, <3>2, <3>3 DEF WatchdogStep
  <2>4. CASE Restart
    BY <2>4 DEF Restart
  <2>5. CASE UNCHANGED vars
    BY <2>0, <2>5 DEF vars
  <2> QED BY <2>1, <2>2, <2>3, <2>4, <2>5 DEF Next
<1> QED BY <1>1, <1>2, TypeCorrect, PTL DEF Spec

----------------------------------------------------------------------------
\* The recorded ticket is the one of the last registered acquisition and
\* belongs to the recorded holder.
THEOREM CurrentTicket == Spec => []TicketIsCurrent
<1>1. Init => TicketIsCurrent
  BY DEF Init, TicketIsCurrent
<1>2. TypeOK /\ TicketIsCurrent /\ [Next]_vars => TicketIsCurrent'
  <2> SUFFICES ASSUME TypeOK, TicketIsCurrent, [Next]_vars, NEW u \in Vlans, ticket'[u] # NoTicket
               PROVE  /\ ticket'[u].boot = boot'
                      /\ ticket'[u].vlan = u
                      /\ ticket'[u].no = gen'[u]
                      /\ ticket'[u].to = holder'[u]
    BY DEF TicketIsCurrent
  <2> DEFINE Goal == /\ ticket'[u].boot = boot'
                     /\ ticket'[u].vlan = u
                     /\ ticket'[u].no = gen'[u]
                     /\ ticket'[u].to = holder'[u]
             Same == boot' = boot /\ ticket'[u] = ticket[u] /\ gen'[u] = gen[u] /\ holder'[u] = holder[u]
  <2>0. Same => Goal
    BY DEF TicketIsCurrent
  <2>1. ASSUME NEW t \in Threads, NEW c \in Clients, Request(t, c)
        PROVE  Same
    BY <2>1 DEF Request, Acquire, FindFull, Disarm, Validate, lockVars
  <2>2. ASSUME NEW t \in Threads, Continue(t), ~Register(t)
        PROVE  Same
    BY <2>2 DEF Continue, ReadHolder, ArmAnswer, Reissue, GiveBack, DrainValidated, Drain,
                Clear, ClearFields, Forget, lockVars, TypeOK
  <2>3. ASSUME NEW t \in Threads, Register(t)
        PROVE  Goal
    <3> DEFINE v == VlanOf[th[t].cl]
               k == [boot |-> boot, vlan |-> v, no |-> gen[v] + 1, to |-> th[t].cl]
    <3>1. /\ ticket' = [ticket EXCEPT ![v] = k] /\ boot' = boot
          /\ holder' = [holder EXCEPT ![v] = th[t].cl] /\ gen' = [gen EXCEPT ![v] = gen[v] + 1]
      BY <2>3 DEF Register
    <3>2. CASE u = v
      BY <3>1, <3>2 DEF TypeOK
    <3>3. CASE u # v
      BY <2>0, <3>1, <3>3 DEF TypeOK
    <3> QED BY <3>2, <3>3
  <2>4. ASSUME NEW w \in watchdogs, WatchdogStep(w)
        PROVE  Same
    BY <2>4 DEF WatchdogStep, WatchdogCheck, WatchdogDrain, WatchdogClear, ClearFields, lockVars, TypeOK
  <2>5. ~Restart
    BY DEF Restart
  <2>6. UNCHANGED vars => Same
    BY DEF vars
  <2> QED BY <2>0, <2>1, <2>2, <2>3, <2>4, <2>5, <2>6 DEF Next
<1> QED BY <1>1, <1>2, TypeCorrect, PTL DEF Spec

----------------------------------------------------------------------------
(***************************************************************************)
(* AcceptedIsLeaving is not inductive by itself: a new ticket must differ  *)
(* from every accepted one, which follows from the numbers tickets carry,  *)
(* and a goroutine must work on the VLAN its ticket was issued for.        *)
(***************************************************************************)
IssuedBy(k, b, g) == k.boot < b \/ (k.boot = b /\ k.no <= g[k.vlan])
Issued(k)         == IssuedBy(k, boot, gen)

TicketsIssued ==
  /\ \A k \in accepted : Issued(k)
  /\ \A t \in Threads : th[t].tk # NoTicket =>
       th[t].tk.vlan = VlanOf[th[t].cl] /\ Issued(th[t].tk)

\* A ticket once drawn stays drawn: generations and boots only grow.
LEMMA IssuedStaysIssued ==
  ASSUME TypeOK, TypeOK', [Next]_vars, NEW k \in Tickets, Issued(k)
  PROVE  IssuedBy(k, boot', gen')
<1> USE DEF Issued, IssuedBy
<1>1. CASE Restart
  BY <1>1 DEF Restart, Tickets, TypeOK
<1>2. CASE ~Restart
  <2>1. boot' = boot /\ (gen' = gen \/ \E v \in Vlans : gen' = [gen EXCEPT ![v] = gen[v] + 1])
    <3>1. ASSUME NEW t \in Threads, Register(t)
          PROVE  boot' = boot /\ \E v \in Vlans : gen' = [gen EXCEPT ![v] = gen[v] + 1]
      BY <3>1, VlanOfAssumption DEF Register, TypeOK, Proper
    <3> QED BY <1>2, <3>1 DEF Next, Request, Acquire, FindFull, Disarm, Validate, Continue,
              ReadHolder, ArmAnswer, Reissue, GiveBack, DrainValidated, Drain, Clear, Forget,
              WatchdogStep, WatchdogCheck, WatchdogDrain, WatchdogClear, lockVars, vars
  <2> QED BY <2>1 DEF Tickets, TypeOK
<1> QED BY <1>1, <1>2

\* TicketsIssued is inductive beside the types and TicketIsCurrent: no ticket
\* is accepted, or carried by a goroutine, before its generation was reached.
LEMMA TicketsIssuedInductive ==
  ASSUME TypeOK, TypeOK', TicketIsCurrent, TicketsIssued, [Next]_vars
  PROVE  TicketsIssued'
<1> USE DEF Issued
<1>a. \A k \in Tickets : Issued(k) => IssuedBy(k, boot', gen')
  BY IssuedStaysIssued
<1>b. \A t \in Threads : th[t].tk # NoTicket => th[t].tk \in Tickets
  BY DEF TypeOK, Goroutine
<1>0. /\ \A k \in accepted : IssuedBy(k, boot', gen')
      /\ \A t \in Threads : th[t].tk # NoTicket => IssuedBy(th[t].tk, boot', gen')
  BY <1>a, <1>b DEF TicketsIssued, TypeOK
<1>1. ASSUME NEW t \in Threads, NEW c \in Clients, Request(t, c)
      PROVE  TicketsIssued'
  <2>1. /\ accepted' = accepted
        /\ \A s \in Threads \ {t} : th'[s] = th[s]
    BY <1>1, OtherThreads DEF Request, Acquire, FindFull, Disarm, Validate
  <2>2. CASE th'[t].tk = NoTicket
    BY <1>0, <2>1, <2>2 DEF TicketsIssued
  <2>3. CASE th'[t].tk # NoTicket
    <3>1. PICK k \in got[c] : Validate(t, c, k)
      BY <1>1, <2>3 DEF Request, Acquire, FindFull, Disarm, Serve, TypeOK
    <3>2. th'[t].tk = k /\ th'[t].cl = c /\ k = ticket[VlanOf[c]] /\ k # NoTicket /\ gen' = gen /\ boot' = boot
      BY <3>1 DEF Validate, Serve, TypeOK, lockVars
    <3>3. k.vlan = VlanOf[c] /\ k.boot = boot /\ k.no = gen[k.vlan]
      BY <3>2, VlanOfAssumption DEF TicketIsCurrent
    <3>4. IssuedBy(k, boot', gen')
      BY <3>2, <3>3, VlanOfAssumption DEF IssuedBy, TypeOK
    <3> QED BY <1>0, <2>1, <3>2, <3>3, <3>4 DEF TicketsIssued
  <2> QED BY <2>2, <2>3
<1>2. ASSUME NEW t \in Threads, Continue(t)
      PROVE  TicketsIssued'
  <2>1. \A s \in Threads \ {t} : th'[s] = th[s]
    BY <1>2, OtherThreads
  <2>2. CASE Register(t)
    <3> DEFINE c == th[t].cl
               v == VlanOf[c]
               k == [boot |-> boot, vlan |-> v, no |-> gen[v] + 1, to |-> c]
    <3>1. th'[t].tk = k /\ th'[t].cl = c /\ accepted' = accepted /\ boot' = boot /\ gen'[v] = gen[v] + 1
      <4>1. v \in Vlans
        BY <2>2, VlanOfAssumption DEF Register, TypeOK, Proper
      <4>2. th[t] \in Goroutine /\ th \in [Threads -> Goroutine] /\ gen \in [Vlans -> Nat]
        BY DEF TypeOK
      <4>3. /\ th' = [th EXCEPT ![t].pc = "granted", ![t].tk = k]
            /\ gen' = [gen EXCEPT ![v] = gen[v] + 1]
            /\ accepted' = accepted /\ boot' = boot
        BY <2>2 DEF Register
      <4>4. gen'[v] = gen[v] + 1
        BY <4>1, <4>2, <4>3
      <4>5. th'[t] = [th[t] EXCEPT !.pc = "granted", !.tk = k]
        BY <4>2, <4>3
      <4> HIDE DEF k
      <4>6. th'[t].tk = k /\ th'[t].cl = c
        BY <4>2, <4>5 DEF Goroutine
      <4> QED BY <4>3, <4>4, <4>6
    <3>2. IssuedBy(k, boot', gen') /\ k.vlan = v
      <4>1. k.boot = boot /\ k.vlan = v /\ k.no = gen[v] + 1
        OBVIOUS
      <4>2. v \in Vlans
        BY <2>2, VlanOfAssumption DEF Register, TypeOK, Proper
      <4>3. gen[v] \in Nat
        BY <4>2 DEF TypeOK
      <4> HIDE DEF k, v
      <4> QED BY <3>1, <4>1, <4>3 DEF IssuedBy
    <3> HIDE DEF k
    <3> QED BY <1>0, <2>1, <3>1, <3>2 DEF TicketsIssued
  <2>3. CASE ~Register(t)
    <3>1. th'[t].tk = NoTicket \/ (th'[t].tk = th[t].tk /\ th'[t].cl = th[t].cl)
      BY <1>2, <2>3 DEF Continue, ReadHolder, ArmAnswer, Reissue, GiveBack, DrainValidated,
                        Drain, Clear, Forget, Goto, End, Idle, TypeOK, Goroutine
    <3>2. accepted' = accepted \/ (accepted' = accepted \cup {th[t].tk} /\ th[t].tk # NoTicket)
      BY <1>2, <2>3 DEF Continue, ReadHolder, ArmAnswer, Reissue, GiveBack, DrainValidated,
                        Drain, Clear, Forget, TypeOK, Proper
    <3> QED BY <1>0, <2>1, <3>1, <3>2 DEF TicketsIssued
  <2> QED BY <2>2, <2>3
<1>3. CASE UNCHANGED vars \/ \E w \in watchdogs : WatchdogStep(w)
  <2>1. th' = th /\ accepted' = accepted
    BY <1>3 DEF vars, WatchdogStep, WatchdogCheck, WatchdogDrain, WatchdogClear
  <2> QED BY <1>0, <2>1 DEF TicketsIssued
<1>4. CASE Restart
  BY <1>0, <1>4 DEF Restart, Idle, TicketsIssued
<1> QED BY <1>1, <1>2, <1>3, <1>4 DEF Next

\* A ticket that Start accepted is recorded only as long as the goroutine
\* that accepted it has not cleared it.
THEOREM AcceptedLeaves == Spec => []AcceptedIsLeaving
<1>1. Init => TicketsIssued /\ AcceptedIsLeaving
  BY NoTicketIsNoTicket DEF Init, TicketsIssued, AcceptedIsLeaving, Idle
<1>2. TypeOK /\ TypeOK' /\ TicketIsCurrent /\ TicketsIssued /\ [Next]_vars => TicketsIssued'
  BY TicketsIssuedInductive
<1>3. TypeOK /\ TicketIsCurrent /\ TicketsIssued /\ AcceptedIsLeaving /\ [Next]_vars => AcceptedIsLeaving'
  <2> SUFFICES ASSUME TypeOK, TicketIsCurrent, TicketsIssued, AcceptedIsLeaving, [Next]_vars,
                      NEW u \in Vlans, ticket'[u] \in accepted'
               PROVE  \E t \in Threads : At(t, u, "clear")' /\ th'[t].tk = ticket'[u]
    BY DEF AcceptedIsLeaving
  <2> USE DEF At
  <2> DEFINE Goal == \E t \in Threads : At(t, u, "clear")' /\ th'[t].tk = ticket'[u]
             Leaving(s) == At(s, u, "clear") /\ th[s].tk = ticket[u]
  <2>0. ticket[u] \in accepted => \E s \in Threads : Leaving(s)
    BY DEF AcceptedIsLeaving
  <2>a. NoTicket \notin accepted
    BY NoTicketIsNoTicket DEF TypeOK
  <2>1. ASSUME NEW t \in Threads, NEW c \in Clients, Request(t, c)
        PROVE  Goal
    <3>1. \A s \in Threads \ {t} : th'[s] = th[s]
      BY <2>1, OtherThreads
    <3>2. th[t].pc = "idle" /\ ticket' = ticket /\ accepted' = accepted
      BY <2>1 DEF Request, Acquire, FindFull, Disarm, Validate, Serve, lockVars
    <3> QED BY <2>0, <3>1, <3>2
  <2>2. ASSUME NEW t \in Threads, Continue(t)
        PROVE  Goal
    <3>1. \A s \in Threads \ {t} : th'[s] = th[s]
      BY <2>2, OtherThreads
    <3>2. CASE Register(t)
      <4> DEFINE v == VlanOf[th[t].cl]
                 k == [boot |-> boot, vlan |-> v, no |-> gen[v] + 1, to |-> th[t].cl]
      <4>1. ticket' = [ticket EXCEPT ![v] = k] /\ accepted' = accepted /\ th[t].pc = "set"
        BY <3>2 DEF Register
      <4>2. k.boot = boot /\ k.no = gen[k.vlan] + 1 /\ k.vlan = v /\ v \in Vlans
        BY <3>2, VlanOfAssumption DEF Register, TypeOK, Proper
      <4> HIDE DEF k
      <4>3. k \notin accepted
        BY <4>2 DEF TicketsIssued, Issued, IssuedBy, TypeOK
      <4>4. u # v /\ ticket'[u] = ticket[u]
        BY <4>1, <4>2, <4>3 DEF TypeOK
      <4> QED BY <2>0, <3>1, <4>1, <4>4
    <3>3. CASE DrainValidated(t)
      <4>1. CASE accepted' = accepted
        BY <2>0, <3>1, <3>3, <4>1 DEF DrainValidated
      <4>2. CASE accepted' # accepted
        <5>1. /\ accepted' = accepted \cup {th[t].tk} /\ ticket' = ticket
              /\ th'[t].pc = "clear" /\ th'[t].tk = th[t].tk /\ th'[t].cl = th[t].cl
              /\ th[t].tk # NoTicket /\ th[t].pc = "validated"
          BY <3>3, <4>2 DEF DrainValidated, Goto, TypeOK, Proper, Goroutine
        <5>2. CASE ticket[u] = th[t].tk
          <6>1. VlanOf[th[t].cl] = u
            BY <5>1, <5>2 DEF TicketsIssued, TicketIsCurrent
          <6> QED BY <5>1, <5>2, <6>1
        <5>3. CASE ticket[u] # th[t].tk
          BY <2>0, <3>1, <5>1, <5>3
        <5> QED BY <5>2, <5>3
      <4> QED BY <4>1, <4>2
    <3>4. CASE Clear(t)
      <4> DEFINE v == VlanOf[th[t].cl]
      <4>1. ticket' = [ticket EXCEPT ![v] = NoTicket] /\ accepted' = accepted
        BY <3>4 DEF Clear, ClearFields
      <4>2. u # v /\ ticket'[u] = ticket[u]
        BY <2>a, <4>1 DEF TypeOK
      <4> QED BY <2>0, <3>1, <4>1, <4>2
    <3>5. CASE Forget(t)
      <4>1. ticket' = [ticket EXCEPT ![VlanOf[th[t].cl]] = NoTicket] /\ accepted' = accepted
            /\ th[t].pc = "forget"
        BY <3>5 DEF Forget
      <4>2. ticket'[u] = ticket[u]
        BY <2>a, <4>1 DEF TypeOK
      <4> QED BY <2>0, <3>1, <4>1, <4>2
    <3>6. CASE ReadHolder(t) \/ ArmAnswer(t) \/ Reissue(t) \/ GiveBack(t) \/ Drain(t)
      <4>1. th[t].pc # "clear" /\ ticket' = ticket /\ accepted' = accepted
        BY <3>6 DEF ReadHolder, ArmAnswer, Reissue, GiveBack, Drain, lockVars
      <4> QED BY <2>0, <3>1, <4>1
    <3> QED BY <2>2, <3>2, <3>3, <3>4, <3>5, <3>6 DEF Continue
  <2>3. ASSUME NEW w \in watchdogs, WatchdogStep(w)
        PROVE  Goal
    <3>1. th' = th /\ accepted' = accepted /\ (ticket' = ticket \/ ticket' = [ticket EXCEPT ![w.vlan] = NoTicket])
      BY <2>3 DEF WatchdogStep, WatchdogCheck, WatchdogDrain, WatchdogClear, ClearFields, lockVars
    <3>2. ticket'[u] = ticket[u]
      BY <2>a, <3>1 DEF TypeOK
    <3> QED BY <2>0, <3>1, <3>2
  <2>4. CASE Restart
    BY <2>a, <2>4 DEF Restart
  <2>5. CASE UNCHANGED vars
    BY <2>0, <2>5 DEF vars
  <2> QED BY <2>1, <2>2, <2>3, <2>4, <2>5 DEF Next
<1> QED BY <1>1, <1>2, <1>3, TypeCorrect, CurrentTicket, PTL DEF Spec

----------------------------------------------------------------------------
(***************************************************************************)
(* OnePayer, in the undisturbed system.  It is far from inductive: the     *)
(* invariant says who may have a claim on a VLAN.  A client owns its VLAN  *)
(* while it has an unredeemed ticket or a goroutine that will free the     *)
(* channel; an owner finds the channel full, and there is one owner.  The  *)
(* recorded fields may be somebody else's leftovers, or be wiped by an     *)
(* earlier owner that clears late; what is needed is that a client whose   *)
(* second tap passes the comparison with the holder has the ticket already.*)
(***************************************************************************)
Claiming(t) == th[t].pc \in {"set", "granted", "drain", "validated"}
Owns(c) == Paying(c) \/ \E t \in Threads : th[t].cl = c /\ Claiming(t)

\* A client waits for one answer before it sends the next request.
Alone == \A s, t \in Threads : th[s].cl = th[t].cl /\ th[s].cl \in Clients => s = t
Exclusive == \A c, d \in Clients : Owns(c) /\ Owns(d) /\ VlanOf[c] = VlanOf[d] => c = d
ClientCalm(c) ==
  /\ Paying(c) => sem[VlanOf[c]] = 1
  /\ \A k \in got[c] : k.to = c
  /\ \A k, l \in got[c] \ accepted : k = l
ThreadCalm(t) ==
  LET c == th[t].cl
      v == VlanOf[c]
      k == th[t].tk IN
  /\ th[t].pc # "forget"
  /\ Claiming(t) => sem[v] = 1
  /\ th[t].pc \in {"set", "granted", "drain"} => ~Paying(c)
  /\ th[t].pc = "granted" =>
       /\ k # NoTicket /\ k.to = c /\ k \notin accepted
       /\ \/ holder[v] = c /\ ticket[v] = k
          \/ holder[v] = NoClient /\ ticket[v] = NoTicket
  /\ th[t].pc = "validated" => k \in got[c] \ accepted
  /\ th[t].pc = "reissue" => Paying(c) /\ (ticket[v] = NoTicket \/ ticket[v] \in got[c])
VlanCalm(v) ==
  holder[v] # NoClient =>
    /\ VlanOf[holder[v]] = v
    /\ \/ ticket[v] \in got[holder[v]] \ accepted
       \/ \E t \in Threads : th[t].cl = holder[v] /\ th[t].pc \in {"granted", "drain", "clear"}
CalmInv ==
  /\ Alone /\ Exclusive
  /\ \A c \in Clients : ClientCalm(c)
  /\ \A t \in Threads : ThreadCalm(t)
  /\ \A v \in Vlans : VlanCalm(v)

\* A handler that is entered takes over one idle thread.
LEMMA ServeThread ==
  ASSUME TypeOK, NEW t \in Threads, NEW pc, NEW op, NEW c, NEW tk, Serve(t, pc, op, c, tk)
  PROVE  /\ th[t].pc = "idle" /\ \A s \in Threads \ {t} : th'[s] = th[s]
         /\ th'[t].pc = pc /\ th'[t].cl = c /\ th'[t].tk = tk
BY DEF TypeOK, Serve

\* A thread goes on, and keeps its client and ticket; the others stay.
LEMMA GotoThread ==
  ASSUME TypeOK, NEW t \in Threads, NEW pc, Goto(t, pc)
  PROVE  /\ \A s \in Threads \ {t} : th'[s] = th[s]
         /\ th'[t].pc = pc /\ th'[t].cl = th[t].cl /\ th'[t].tk = th[t].tk
BY DEF TypeOK, Goto, Goroutine

\* A thread that ends is idle, without a client; the others stay.
LEMMA EndThread ==
  ASSUME TypeOK, NEW t \in Threads, End(t)
  PROVE  /\ \A s \in Threads \ {t} : th'[s] = th[s]
         /\ th'[t].pc = "idle" /\ th'[t].cl = NoClient
BY DEF TypeOK, End, Idle

\* What a step of t leaves alone.
LEMMA CalmKept ==
  ASSUME TypeOK, CalmInv, NEW t \in Threads, \A s \in Threads \ {t} : th'[s] = th[s],
         UNCHANGED <<sem, holder, ticket, got, accepted>>,
         th[t].pc = "idle" => Quiet(th'[t].cl), th[t].pc # "idle" => th'[t].cl \in {th[t].cl, NoClient},
         th'[t].pc \in {"set", "granted", "drain", "validated"} => Owns(th'[t].cl),
         th[t].pc \in {"granted", "drain", "clear"} =>
            th'[t].pc \in {"granted", "drain", "clear"} /\ th'[t].cl = th[t].cl,
         ThreadCalm(t)'
  PROVE  CalmInv'
<1>1. Alone'
  BY ClientsAssumption DEF CalmInv, Alone, Quiet
<1>2. \A d \in Clients : Paying(d)' <=> Paying(d)
  BY DEF Paying
<1>3. \A d \in Clients : Owns(d)' => Owns(d)
  BY <1>2 DEF Owns, Claiming
<1>4. Exclusive'
  BY <1>3 DEF CalmInv, Exclusive
<1>5. \A d \in Clients : ClientCalm(d)'
  BY DEF CalmInv, ClientCalm, Paying
<1>6. \A s \in Threads : ThreadCalm(s)'
  BY DEF CalmInv, ThreadCalm, Claiming, Paying
<1>7. \A v \in Vlans : VlanCalm(v)'
  BY DEF CalmInv, VlanCalm
<1> QED BY <1>1, <1>4, <1>5, <1>6, <1>7 DEF CalmInv

\* An owner's channel is full.
LEMMA OwnerFull ==
  ASSUME CalmInv, NEW c \in Clients, Owns(c)
  PROVE  sem[VlanOf[c]] = 1
BY DEF CalmInv, Owns, ClientCalm, ThreadCalm

\* A free channel has no owner: the client that fills it becomes the only one.
LEMMA AcquireCalm ==
  ASSUME TypeOK, CalmInv, NEW t \in Threads, NEW c \in Clients, Quiet(c),
         NEW op \in {"arm", "canstart"}, Acquire(t, c, op)
  PROVE  CalmInv'
<1> DEFINE v == VlanOf[c]
<1>0. /\ th[t].pc = "idle" /\ \A s \in Threads \ {t} : th'[s] = th[s]
      /\ th'[t].pc = "set" /\ th'[t].cl = c
  BY ServeThread DEF Acquire
<1>1. /\ v \in Vlans /\ sem[v] = 0 /\ sem'[v] = 1 /\ \A u \in Vlans \ {v} : sem'[u] = sem[u]
      /\ UNCHANGED <<holder, ticket, got, accepted>>
  BY VlanOfAssumption DEF Acquire, TypeOK
<1>2. Alone'
  BY <1>0 DEF CalmInv, Alone, Quiet
<1>3. \A d \in Clients : Paying(d)' <=> Paying(d)
  BY <1>1 DEF Paying
<1>4. \A d \in Clients : Owns(d)' => Owns(d) \/ d = c
  BY <1>0, <1>3 DEF Owns, Claiming
<1>5. \A d \in Clients : VlanOf[d] = v => ~Owns(d)
  BY <1>1, OwnerFull
<1>6. Exclusive'
  BY <1>4, <1>5 DEF CalmInv, Exclusive
<1>7. \A d \in Clients : ClientCalm(d)'
  BY <1>1, VlanOfAssumption DEF CalmInv, ClientCalm, Paying
<1>8. ASSUME NEW s \in Threads PROVE ThreadCalm(s)'
  <2>1. CASE s = t
    <3>1. ~Paying(c)
      BY <1>5 DEF Owns
    <3> QED BY <1>0, <1>1, <1>3, <2>1, <3>1 DEF ThreadCalm, Claiming
  <2>2. CASE s # t
    <3>1. th'[s] = th[s] /\ ThreadCalm(s)
      BY <1>0, <2>2 DEF CalmInv
    <3>2. Claiming(s) => VlanOf[th[s].cl] # v
      BY <1>1, <3>1 DEF ThreadCalm
    <3>3. Claiming(s) => VlanOf[th[s].cl] \in Vlans
      BY VlanOfAssumption DEF TypeOK, Proper, Claiming
    <3> QED BY <1>1, <3>1, <3>2, <3>3 DEF ThreadCalm, Claiming, Paying
  <2> QED BY <2>1, <2>2
<1>9. \A u \in Vlans : VlanCalm(u)'
  BY <1>0, <1>1 DEF CalmInv, VlanCalm
<1> QED BY <1>2, <1>6, <1>7, <1>8, <1>9 DEF CalmInv

\* The ticket a client trades in is its own and not redeemed.
LEMMA ValidateCalm ==
  ASSUME TypeOK, TicketIsCurrent, CalmInv, NEW t \in Threads, NEW c \in Clients, Quiet(c),
         NEW k \in got[c], Validate(t, c, k)
  PROVE  CalmInv'
<1> DEFINE v == VlanOf[c]
<1>0. /\ th[t].pc = "idle" /\ \A s \in Threads \ {t} : th'[s] = th[s]
      /\ th'[t].pc = "validated" /\ th'[t].cl = c /\ th'[t].tk = k
  BY ServeThread DEF Validate
<1>1. /\ v \in Vlans /\ ticket[v] = k /\ k # NoTicket
      /\ UNCHANGED <<sem, holder, ticket, got, accepted>>
  BY VlanOfAssumption DEF Validate, lockVars
<1>2. holder[v] = c
  BY <1>1 DEF TicketIsCurrent, CalmInv, ClientCalm
<1>3. k \in got[c] \ accepted
  BY <1>1, <1>2, ClientsAssumption DEF CalmInv, VlanCalm, Quiet
<1>4. Paying(c)
  BY <1>3 DEF Paying
<1>5. Owns(c) /\ sem[v] = 1
  BY <1>4, OwnerFull DEF Owns
<1>6. ThreadCalm(t)'
  BY <1>0, <1>1, <1>3, <1>5 DEF ThreadCalm, Claiming
<1> QED BY <1>0, <1>1, <1>5, <1>6, CalmKept

\* A new ticket is nobody's yet; the registering client owns the VLAN, so no second
\* tap is under way that could pick the ticket up.
LEMMA RegisterCalm ==
  ASSUME TypeOK, TicketsIssued, CalmInv, NEW t \in Threads, Register(t)
  PROVE  CalmInv'
<1> DEFINE c == th[t].cl
           v == VlanOf[c]
           k == [boot |-> boot, vlan |-> v, no |-> gen[v] + 1, to |-> c]
<1>0. c \in Clients /\ v \in Vlans /\ th[t].pc = "set" /\ ThreadCalm(t)
  BY VlanOfAssumption DEF Register, TypeOK, Proper, CalmInv
<1>1. /\ k \in Tickets /\ k.to = c /\ k \notin accepted
  <2>1. k \in Tickets /\ k.to = c /\ k.vlan = v /\ k.boot = boot /\ k.no = gen[v] + 1
    BY <1>0 DEF Tickets, TypeOK
  <2>2. gen[v] \in Nat /\ boot \in Nat
    BY <1>0 DEF TypeOK
  <2> HIDE DEF k
  <2>3. ~Issued(k)
    BY <2>1, <2>2 DEF Issued, IssuedBy
  <2> QED BY <2>1, <2>3 DEF TicketsIssued
<1>2. k # NoTicket
  BY <1>1, NoTicketIsNoTicket
<1>3. /\ holder' = [holder EXCEPT ![v] = c] /\ ticket' = [ticket EXCEPT ![v] = k]
      /\ th' = [th EXCEPT ![t].pc = "granted", ![t].tk = k]
      /\ UNCHANGED <<sem, got, accepted>>
  BY DEF Register
<1> HIDE DEF k
<1>4. /\ holder'[v] = c /\ ticket'[v] = k
      /\ \A u \in Vlans \ {v} : holder'[u] = holder[u] /\ ticket'[u] = ticket[u]
  BY <1>0, <1>3 DEF TypeOK
<1>5. /\ \A s \in Threads \ {t} : th'[s] = th[s]
      /\ th'[t].pc = "granted" /\ th'[t].cl = c /\ th'[t].tk = k
  BY <1>3 DEF TypeOK, Goroutine
<1>6. \A d \in Clients : (Paying(d)' <=> Paying(d)) /\ (Owns(d)' => Owns(d))
  BY <1>0, <1>3, <1>5 DEF Paying, Owns, Claiming
<1>7. Alone' /\ Exclusive'
  BY <1>5, <1>6 DEF CalmInv, Alone, Exclusive
<1>8. \A d \in Clients : ClientCalm(d)'
  BY <1>3 DEF CalmInv, ClientCalm, Paying
<1>9. ASSUME NEW s \in Threads PROVE ThreadCalm(s)'
  <2>1. CASE s = t
    BY <1>0, <1>1, <1>2, <1>3, <1>4, <1>5, <1>6, <2>1 DEF ThreadCalm, Claiming
  <2>2. CASE s # t
    <3> DEFINE d == th[s].cl
    <3>1. th'[s] = th[s] /\ ThreadCalm(s)
      BY <1>5, <2>2 DEF CalmInv
    <3>2. th[s].pc # "idle" => d \in Clients /\ VlanOf[d] \in Vlans
      BY VlanOfAssumption DEF TypeOK, Proper
    <3>3. th[s].pc \in {"granted", "reissue"} => Owns(d)
      BY <3>1, <3>2 DEF ThreadCalm, Owns, Claiming
    <3>4. Owns(c)
      BY <1>0 DEF Owns, Claiming
    <3>5. th[s].pc \in {"granted", "reissue"} => VlanOf[d] # v
      BY <1>0, <2>2, <3>2, <3>3, <3>4 DEF CalmInv, Exclusive, Alone
    <3>6. CASE th[s].pc \in {"granted", "reissue"}
      <4>1. holder'[VlanOf[d]] = holder[VlanOf[d]] /\ ticket'[VlanOf[d]] = ticket[VlanOf[d]]
        BY <1>4, <3>2, <3>5, <3>6
      <4>2. CASE th[s].pc = "granted"
        <5>1. /\ sem[VlanOf[d]] = 1 /\ ~Paying(d)
              /\ th[s].tk # NoTicket /\ th[s].tk.to = d /\ th[s].tk \notin accepted
              /\ \/ holder[VlanOf[d]] = d /\ ticket[VlanOf[d]] = th[s].tk
                 \/ holder[VlanOf[d]] = NoClient /\ ticket[VlanOf[d]] = NoTicket
          BY <3>1, <4>2 DEF ThreadCalm, Claiming
        <5>2. got[d] \ accepted = {} /\ got'[d] \ accepted' = {}
          BY <1>3, <5>1 DEF Paying
        <5>3. th'[s].cl = d /\ th'[s].tk = th[s].tk /\ th'[s].pc = "granted"
          BY <3>1, <4>2
        <5>4. /\ sem'[VlanOf[d]] = 1 /\ th[s].tk \notin accepted'
              /\ \/ holder'[VlanOf[d]] = d /\ ticket'[VlanOf[d]] = th[s].tk
                 \/ holder'[VlanOf[d]] = NoClient /\ ticket'[VlanOf[d]] = NoTicket
          BY <1>3, <4>1, <5>1
        <5> HIDE DEF d
        <5> QED BY <5>1, <5>2, <5>3, <5>4 DEF ThreadCalm, Claiming, Paying
      <4>3. CASE th[s].pc = "reissue"
        BY <1>3, <3>1, <4>1, <4>3 DEF ThreadCalm, Claiming, Paying
      <4> QED BY <3>6, <4>2, <4>3
    <3>7. CASE th[s].pc \notin {"granted", "reissue"}
      BY <1>3, <3>1, <3>7 DEF ThreadCalm, Claiming, Paying
    <3> QED BY <3>6, <3>7
  <2> QED BY <2>1, <2>2
<1>10. ASSUME NEW u \in Vlans PROVE VlanCalm(u)'
  <2>1. CASE u = v
    BY <1>0, <1>4, <1>5, <2>1 DEF VlanCalm
  <2>2. CASE u # v
    <3>1. holder'[u] = holder[u] /\ ticket'[u] = ticket[u] /\ VlanCalm(u)
      BY <1>4, <2>2 DEF CalmInv
    <3>2. \A s \in Threads : th[s].pc \in {"granted", "drain", "clear"} => th'[s] = th[s]
      BY <1>0, <1>5
    <3> QED BY <1>3, <3>1, <3>2 DEF VlanCalm
  <2> QED BY <2>1, <2>2
<1> QED BY <1>7, <1>8, <1>9, <1>10 DEF CalmInv

\* Refused taps, second taps and a CanStart that gives the channel back.
LEMMA TapCalm ==
  ASSUME TypeOK, CalmInv, NEW t \in Threads,
         \/ \E c \in Clients : Quiet(c) /\ FindFull(t, c)
         \/ ReadHolder(t) \/ Reissue(t) \/ GiveBack(t)
  PROVE  CalmInv'
<1>1. ASSUME NEW c \in Clients, Quiet(c), FindFull(t, c) PROVE CalmInv'
  <2>1. /\ th[t].pc = "idle" /\ \A s \in Threads \ {t} : th'[s] = th[s]
        /\ th'[t].pc = "full" /\ th'[t].cl = c
    BY <1>1, ServeThread DEF FindFull
  <2>2. ThreadCalm(t)'
    BY <2>1 DEF ThreadCalm, Claiming
  <2> QED BY <1>1, <2>1, <2>2, CalmKept DEF FindFull, lockVars
<1> DEFINE c == th[t].cl
           v == VlanOf[c]
<1>2. th[t].pc # "idle" => c \in Clients /\ v \in Vlans /\ c # NoClient
  BY VlanOfAssumption, ClientsAssumption DEF TypeOK, Proper
<1>3. CASE ReadHolder(t) /\ holder[v] # c
  <2>1. End(t) /\ th[t].pc = "full"
    BY <1>3 DEF ReadHolder
  <2>2. /\ \A s \in Threads \ {t} : th'[s] = th[s]
        /\ th'[t].pc = "idle" /\ th'[t].cl = NoClient
    BY <2>1, EndThread
  <2>3. ThreadCalm(t)'
    BY <2>2 DEF ThreadCalm, Claiming
  <2> QED BY <1>3, <2>1, <2>2, <2>3, CalmKept DEF ReadHolder, lockVars
<1>4. CASE ReadHolder(t) /\ holder[v] = c
  <2>1. Goto(t, "reissue") /\ th[t].pc = "full" /\ UNCHANGED <<sem, holder, ticket, got, accepted>>
    BY <1>4 DEF ReadHolder, lockVars
  <2>2. /\ \A s \in Threads \ {t} : th'[s] = th[s]
        /\ th'[t].pc = "reissue" /\ th'[t].cl = c
    BY <2>1, GotoThread
  <2>3. ticket[v] \in got[c] \ accepted
    BY <1>2, <1>4, <2>1 DEF CalmInv, VlanCalm, Alone
  <2>4. ThreadCalm(t)'
    BY <2>1, <2>2, <2>3 DEF ThreadCalm, Claiming, Paying
  <2> QED BY <2>1, <2>2, <2>4, CalmKept
<1>5. CASE Reissue(t)
  <2>1. End(t) /\ th[t].pc = "reissue" /\ Give(c, ticket[v]) /\ UNCHANGED <<sem, holder, ticket, accepted>>
    BY <1>5 DEF Reissue, lockVars
  <2>2. /\ \A s \in Threads \ {t} : th'[s] = th[s]
        /\ th'[t].pc = "idle" /\ th'[t].cl = NoClient
    BY <2>1, EndThread
  <2>3. ticket[v] = NoTicket \/ ticket[v] \in got[c]
    BY <2>1 DEF CalmInv, ThreadCalm
  <2>4. got[c] \cup ({ticket[v]} \ {NoTicket}) = got[c]
    BY <2>3
  <2>5. got' = got
    BY <1>2, <2>1, <2>4 DEF Give, TypeOK
  <2>6. ThreadCalm(t)'
    BY <2>2 DEF ThreadCalm, Claiming
  <2> QED BY <2>1, <2>2, <2>5, <2>6, CalmKept
<1>6. CASE GiveBack(t)
  <2>1. /\ th[t].pc = "granted" /\ UNCHANGED <<sem, holder, ticket, got, accepted>>
        /\ th' = [th EXCEPT ![t].pc = "drain", ![t].op = "giveback", ![t].tk = NoTicket]
    BY <1>6 DEF GiveBack, lockVars
  <2>2. /\ \A s \in Threads \ {t} : th'[s] = th[s]
        /\ th'[t].pc = "drain" /\ th'[t].cl = c
    BY <2>1 DEF TypeOK, Goroutine
  <2>3. ThreadCalm(t) /\ Owns(c)
    BY <2>1 DEF CalmInv, Owns, Claiming
  <2>4. ThreadCalm(t)'
    BY <2>1, <2>2, <2>3 DEF ThreadCalm, Claiming, Paying
  <2> QED BY <2>1, <2>2, <2>3, <2>4, CalmKept
<1> QED BY <1>1, <1>3, <1>4, <1>5, <1>6 DEF ReadHolder

\* The answer makes a client with a claim a client with a ticket.
LEMMA AnswerCalm ==
  ASSUME TypeOK, CalmInv, NEW t \in Threads, ArmAnswer(t)
  PROVE  CalmInv'
<1> DEFINE c == th[t].cl
           v == VlanOf[c]
           k == th[t].tk
<1>0. c \in Clients /\ v \in Vlans /\ c # NoClient /\ th[t].pc = "granted" /\ ThreadCalm(t)
  BY VlanOfAssumption, ClientsAssumption DEF ArmAnswer, TypeOK, Proper, CalmInv
<1>1. /\ k # NoTicket /\ k.to = c /\ k \notin accepted /\ sem[v] = 1 /\ ~Paying(c)
      /\ (holder[v] = c /\ ticket[v] = k) \/ holder[v] = NoClient
  BY <1>0 DEF ThreadCalm, Claiming
<1>2. End(t) /\ got' = [got EXCEPT ![c] = got[c] \cup {k}] /\ UNCHANGED <<sem, holder, ticket, accepted>>
  BY <1>1 DEF ArmAnswer, Give, lockVars
<1> HIDE DEF k
<1>3. /\ \A s \in Threads \ {t} : th'[s] = th[s]
      /\ th'[t].pc = "idle" /\ th'[t].cl = NoClient
  BY <1>2, EndThread
<1>4. /\ got'[c] = got[c] \cup {k} /\ \A d \in Clients \ {c} : got'[d] = got[d]
  BY <1>0, <1>2 DEF TypeOK
<1>5. \A d \in Clients \ {c} : Paying(d)' <=> Paying(d)
  BY <1>2, <1>4 DEF Paying
<1>6. Owns(c)
  BY <1>0 DEF Owns, Claiming
<1>7. \A d \in Clients : Owns(d)' => Owns(d)
  BY <1>3, <1>5, <1>6 DEF Owns, Claiming
<1>8. Alone' /\ Exclusive'
  BY <1>0, <1>3, <1>7, ClientsAssumption DEF CalmInv, Alone, Exclusive
<1>9. ASSUME NEW d \in Clients PROVE ClientCalm(d)'
  <2>1. CASE d = c
    <3>1. got[c] \ accepted = {} /\ ClientCalm(c)
      BY <1>1, <1>0 DEF Paying, CalmInv
    <3> QED BY <1>1, <1>2, <1>4, <2>1, <3>1 DEF ClientCalm, Paying
  <2>2. CASE d # c
    BY <1>2, <1>4, <1>5, <2>2 DEF CalmInv, ClientCalm
  <2> QED BY <2>1, <2>2
<1>10. ASSUME NEW s \in Threads PROVE ThreadCalm(s)'
  <2>1. CASE s = t
    BY <1>3, <2>1 DEF ThreadCalm, Claiming
  <2>2. CASE s # t
    <3>1. th'[s] = th[s] /\ ThreadCalm(s)
      BY <1>3, <2>2 DEF CalmInv
    <3>2. CASE th[s].pc = "idle"
      BY <3>1, <3>2 DEF ThreadCalm, Claiming
    <3>3. CASE th[s].pc # "idle"
      <4>1. th[s].cl \in Clients \ {c}
        BY <1>0, <2>2, <3>3 DEF TypeOK, Proper, CalmInv, Alone
      <4>2. got'[th[s].cl] = got[th[s].cl]
        BY <1>4, <4>1
      <4> QED BY <1>2, <3>1, <4>2 DEF ThreadCalm, Claiming, Paying
    <3> QED BY <3>2, <3>3
  <2> QED BY <2>1, <2>2
<1>11. ASSUME NEW u \in Vlans PROVE VlanCalm(u)'
  <2> DEFINE h == holder[u]
  <2>1. CASE h = NoClient
    BY <1>2, <2>1 DEF VlanCalm
  <2>2. CASE h = c
    <3>1. VlanOf[c] = u
      BY <1>0, <2>2 DEF CalmInv, VlanCalm
    <3>2. ticket[u] = k
      BY <1>0, <1>1, <2>2, <3>1
    <3> QED BY <1>1, <1>2, <1>4, <2>2, <3>1, <3>2 DEF VlanCalm
  <2>3. CASE h # NoClient /\ h # c
    <3>1. h \in Clients /\ VlanCalm(u)
      BY <2>3 DEF TypeOK, CalmInv
    <3>2. \A s \in Threads : th[s].cl = h => th'[s] = th[s]
      BY <1>3, <2>3
    <3> QED BY <1>2, <1>4, <2>3, <3>1, <3>2 DEF VlanCalm
  <2> QED BY <2>1, <2>2, <2>3
<1> QED BY <1>8, <1>9, <1>10, <1>11 DEF CalmInv

\* The owner drains: with its ticket traded in, or without having had one, it has no
\* claim left and only its fields to clear.
LEMMA DrainCalm ==
  ASSUME TypeOK, CalmInv, NEW t \in Threads, NEW c, c = th[t].cl, DrainValidated(t) \/ Drain(t)
  PROVE  CalmInv'
<1> DEFINE v == VlanOf[c]
           k == th[t].tk
<1>0. /\ c \in Clients /\ v \in Vlans /\ c # NoClient /\ ThreadCalm(t) /\ ClientCalm(c)
      /\ th[t].pc \in {"validated", "drain"}
  BY VlanOfAssumption, ClientsAssumption DEF DrainValidated, Drain, TypeOK, Proper, CalmInv
<1>1. sem[v] = 1
  BY <1>0 DEF ThreadCalm, Claiming
<1>2. /\ sem' = [sem EXCEPT ![v] = 0] /\ Goto(t, "clear") /\ UNCHANGED <<holder, ticket, got>>
      /\ \/ th[t].pc = "validated" /\ accepted' = accepted \cup {k}
         \/ th[t].pc = "drain" /\ accepted' = accepted
  BY <1>1 DEF DrainValidated, Drain
<1>3. /\ \A s \in Threads \ {t} : th'[s] = th[s]
      /\ th'[t].pc = "clear" /\ th'[t].cl = c
  BY <1>2, GotoThread
<1>4. th[t].pc = "validated" => k \in got[c] \ accepted /\ k.to = c
  BY <1>0 DEF ThreadCalm, ClientCalm
<1>5. ~Paying(c)'
  <2>1. CASE th[t].pc = "drain"
    BY <1>0, <1>2, <2>1 DEF ThreadCalm, Paying
  <2>2. CASE th[t].pc = "validated"
    BY <1>0, <1>2, <1>4, <2>2 DEF ClientCalm, Paying
  <2> QED BY <1>0, <2>1, <2>2
<1>6. /\ \A d \in Clients \ {c} : got'[d] \ accepted' = got[d] \ accepted
      /\ \A d \in Clients : got'[d] \ accepted' \subseteq got[d] \ accepted
  BY <1>2, <1>4 DEF CalmInv, ClientCalm
<1>7. \A d \in Clients \ {c} : Paying(d)' <=> Paying(d)
  BY <1>6 DEF Paying
<1>8. ~Owns(c)' /\ Owns(c)
  BY <1>0, <1>3, <1>5 DEF CalmInv, Alone, Owns, Claiming
<1>9. \A d \in Clients : Owns(d)' => Owns(d) /\ VlanOf[d] # v
  <2>1. \A d \in Clients : Owns(d)' => Owns(d) /\ d # c
    BY <1>3, <1>7, <1>8 DEF Owns, Claiming
  <2> QED BY <1>0, <1>8, <2>1 DEF CalmInv, Exclusive
<1>10. \A u \in Vlans \ {v} : sem'[u] = sem[u]
  BY <1>0, <1>2 DEF TypeOK
<1>11. Alone' /\ Exclusive'
  BY <1>3, <1>9 DEF CalmInv, Alone, Exclusive
<1>12. ASSUME NEW d \in Clients PROVE ClientCalm(d)'
  <2>1. Paying(d)' => sem'[VlanOf[d]] = 1
    BY <1>9, <1>10, OwnerFull, VlanOfAssumption DEF Owns
  <2> QED BY <1>2, <1>6, <2>1 DEF CalmInv, ClientCalm
<1>13. ASSUME NEW s \in Threads PROVE ThreadCalm(s)'
  <2>1. CASE s = t
    BY <1>3, <2>1 DEF ThreadCalm, Claiming
  <2>2. CASE s # t
    <3> PICK d : d = th[s].cl
      OBVIOUS
    <3>1. th'[s] = th[s] /\ ThreadCalm(s)
      BY <1>3, <2>2 DEF CalmInv
    <3>2. CASE th[s].pc = "idle"
      BY <3>1, <3>2 DEF ThreadCalm, Claiming
    <3>3. CASE th[s].pc # "idle"
      <4>1. d \in Clients \ {c}
        BY <1>0, <2>2, <3>3 DEF TypeOK, Proper, CalmInv, Alone
      <4>2. (Paying(d)' <=> Paying(d)) /\ got'[d] \ accepted' = got[d] \ accepted
        BY <1>6, <1>7, <4>1
      <4>3. Claiming(s) => sem'[VlanOf[d]] = sem[VlanOf[d]]
        <5>1. Claiming(s) => Owns(d)'
          BY <3>1 DEF Owns, Claiming
        <5> QED BY <1>9, <1>10, <4>1, <5>1, VlanOfAssumption
      <4>4. th[s].tk.to = d => th[s].tk # k \/ accepted' = accepted
        BY <1>2, <1>4, <4>1
      <4>5. th'[s].cl = d /\ th'[s].pc = th[s].pc /\ th'[s].tk = th[s].tk
        BY <3>1
      <4> HIDE DEF k
      <4> QED BY <1>2, <3>1, <4>2, <4>3, <4>4, <4>5 DEF ThreadCalm, Claiming, Paying
    <3> QED BY <3>2, <3>3
  <2> QED BY <2>1, <2>2
<1>14. ASSUME NEW u \in Vlans PROVE VlanCalm(u)'
  <2> DEFINE h == holder[u]
  <2>1. CASE h = NoClient
    BY <1>2, <2>1 DEF VlanCalm
  <2>2. CASE h = c
    BY <1>0, <1>2, <1>3, <2>2 DEF CalmInv, VlanCalm
  <2>3. CASE h # NoClient /\ h # c
    <3>1. h \in Clients \ {c} /\ VlanCalm(u)
      BY <2>3 DEF TypeOK, CalmInv
    <3>2. \A s \in Threads : th[s].cl = h => th'[s] = th[s]
      BY <1>3, <2>3
    <3> QED BY <1>2, <1>6, <2>3, <3>1, <3>2 DEF VlanCalm
  <2> QED BY <2>1, <2>2, <2>3
<1> QED BY <1>11, <1>12, <1>13, <1>14 DEF CalmInv

\* Clearing late may wipe the fields of a later owner, which nothing here relies on.
LEMMA ClearCalm ==
  ASSUME TypeOK, CalmInv, NEW t \in Threads, Clear(t)
  PROVE  CalmInv'
<1> DEFINE c == th[t].cl
           v == VlanOf[c]
<1>0. c \in Clients /\ v \in Vlans /\ c # NoClient /\ th[t].pc = "clear"
  BY VlanOfAssumption, ClientsAssumption DEF Clear, TypeOK, Proper
<1>1. /\ holder' = [holder EXCEPT ![v] = NoClient] /\ ticket' = [ticket EXCEPT ![v] = NoTicket]
      /\ End(t) /\ UNCHANGED <<sem, got, accepted>>
  BY DEF Clear, ClearFields
<1>2. /\ holder'[v] = NoClient /\ ticket'[v] = NoTicket
      /\ \A u \in Vlans \ {v} : holder'[u] = holder[u] /\ ticket'[u] = ticket[u]
  BY <1>0, <1>1 DEF TypeOK
<1>3. /\ \A s \in Threads \ {t} : th'[s] = th[s]
      /\ th'[t].pc = "idle" /\ th'[t].cl = NoClient
  BY <1>1, EndThread
<1>4. \A d \in Clients : (Paying(d)' <=> Paying(d)) /\ (Owns(d)' => Owns(d))
  BY <1>1, <1>3 DEF Paying, Owns, Claiming
<1>5. Alone' /\ Exclusive'
  BY <1>3, <1>4, ClientsAssumption DEF CalmInv, Alone, Exclusive
<1>6. \A d \in Clients : ClientCalm(d)'
  BY <1>1 DEF CalmInv, ClientCalm, Paying
<1>7. ASSUME NEW s \in Threads PROVE ThreadCalm(s)'
  <2>1. CASE s = t
    BY <1>3, <2>1 DEF ThreadCalm, Claiming
  <2>2. CASE s # t
    <3> PICK d : d = th[s].cl
      OBVIOUS
    <3>1. th'[s] = th[s] /\ ThreadCalm(s)
      BY <1>3, <2>2 DEF CalmInv
    <3>2. CASE th[s].pc \notin {"granted", "reissue"}
      BY <1>1, <3>1, <3>2 DEF ThreadCalm, Claiming, Paying
    <3>3. CASE th[s].pc \in {"granted", "reissue"}
      <4>1. d \in Clients /\ VlanOf[d] \in Vlans
        BY <3>3, VlanOfAssumption DEF TypeOK, Proper
      <4>2. \/ holder'[VlanOf[d]] = holder[VlanOf[d]] /\ ticket'[VlanOf[d]] = ticket[VlanOf[d]]
            \/ holder'[VlanOf[d]] = NoClient /\ ticket'[VlanOf[d]] = NoTicket
        BY <1>2, <4>1
      <4>3. th'[s].cl = d /\ th'[s].pc = th[s].pc /\ th'[s].tk = th[s].tk
        BY <3>1
      <4>4. (Paying(d)' <=> Paying(d)) /\ UNCHANGED <<sem, got, accepted>>
        BY <1>1, <1>4, <4>1
      <4>5. CASE th[s].pc = "granted"
        <5>1. /\ sem'[VlanOf[d]] = 1 /\ ~Paying(d)'
              /\ th[s].tk # NoTicket /\ th[s].tk.to = d /\ th[s].tk \notin accepted'
              /\ \/ holder'[VlanOf[d]] = d /\ ticket'[VlanOf[d]] = th[s].tk
                 \/ holder'[VlanOf[d]] = NoClient /\ ticket'[VlanOf[d]] = NoTicket
          BY <3>1, <4>2, <4>4, <4>5 DEF ThreadCalm, Claiming
        <5>2. got'[d] \ accepted' = {}
          BY <5>1 DEF Paying
        <5> QED BY <4>3, <4>5, <5>1, <5>2 DEF ThreadCalm, Claiming, Paying
      <4>6. CASE th[s].pc = "reissue"
        BY <3>1, <4>2, <4>3, <4>4, <4>6 DEF ThreadCalm, Claiming, Paying
      <4> QED BY <3>3, <4>5, <4>6
    <3> QED BY <3>2, <3>3
  <2> QED BY <2>1, <2>2
<1>8. ASSUME NEW u \in Vlans PROVE VlanCalm(u)'
  <2>1. CASE u = v
    BY <1>2, <2>1 DEF VlanCalm
  <2>2. CASE u # v
    <3>1. holder'[u] = holder[u] /\ ticket'[u] = ticket[u] /\ VlanCalm(u)
      BY <1>2, <2>2 DEF CalmInv
    <3>2. holder[u] # NoClient => holder[u] # c
      BY <2>2, <3>1 DEF VlanCalm
    <3>3. holder[u] # NoClient => \A s \in Threads : th[s].cl = holder[u] => th'[s] = th[s]
      BY <1>3, <3>2
    <3> QED BY <1>1, <3>1, <3>3 DEF VlanCalm
  <2> QED BY <2>1, <2>2
<1> QED BY <1>5, <1>6, <1>7, <1>8 DEF CalmInv

\* In the undisturbed system no two devices of a VLAN hold an unredeemed ticket, for
\* any number of devices, VLANs and acquisitions.
THEOREM PayersAreAlone == CalmSpec => []OnePayer
<1>1. CalmNext => Next
  BY DEF CalmNext, Next, Request, Continue
<1>2. CalmSpec => Spec
  BY <1>1, PTL DEF CalmSpec, Spec
<1>3. CalmSpec => [](TypeOK /\ TicketIsCurrent)
  BY <1>2, TypeCorrect, CurrentTicket, PTL
<1>4. Init => TicketsIssued /\ CalmInv
  BY NoTicketIsNoTicket, ClientsAssumption, VlanOfAssumption
  DEF Init, TicketsIssued, CalmInv, Alone, Exclusive, ClientCalm, ThreadCalm, VlanCalm,
      Owns, Paying, Claiming, Idle
<1>5. TypeOK /\ TypeOK' /\ TicketIsCurrent /\ TicketsIssued /\ [CalmNext]_vars => TicketsIssued'
  BY <1>1, TicketsIssuedInductive
<1>6. TypeOK /\ TicketIsCurrent /\ TicketsIssued /\ CalmInv /\ [CalmNext]_vars => CalmInv'
  <2> SUFFICES ASSUME TypeOK, TicketIsCurrent, TicketsIssued, CalmInv, [CalmNext]_vars PROVE CalmInv'
    OBVIOUS
  <2>1. CASE UNCHANGED vars
    BY <2>1 DEF vars, CalmInv, Alone, Exclusive, ClientCalm, ThreadCalm, VlanCalm, Owns, Paying, Claiming
  <2>2. ASSUME NEW t \in Threads, NEW c \in Clients, Quiet(c),
               \/ \E op \in {"arm", "canstart"} : Acquire(t, c, op)
               \/ FindFull(t, c)
               \/ \E k \in got[c] : Validate(t, c, k)
        PROVE  CalmInv'
    BY <2>2, AcquireCalm, ValidateCalm, TapCalm
  <2>3. ASSUME NEW t \in Threads,
               \/ Register(t) \/ ReadHolder(t) \/ ArmAnswer(t) \/ Reissue(t)
               \/ GiveBack(t) \/ DrainValidated(t) \/ Drain(t) \/ Clear(t)
        PROVE  CalmInv'
    <3>1. DrainValidated(t) \/ Drain(t) => CalmInv'
      BY DrainCalm
    <3> QED BY <2>3, <3>1, RegisterCalm, TapCalm, AnswerCalm, ClearCalm
  <2>4. ASSUME NEW t \in Threads, Forget(t) PROVE FALSE
    BY <2>4 DEF Forget, CalmInv, ThreadCalm
  <2> QED BY <2>1, <2>2, <2>3, <2>4 DEF CalmNext
<1>7. CalmInv => OnePayer
  BY DEF CalmInv, Exclusive, Owns, OnePayer
<1> QED BY <1>3, <1>4, <1>5, <1>6, <1>7, PTL DEF CalmSpec
=============================================================================
