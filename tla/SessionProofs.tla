---------------------------- MODULE SessionProofs ----------------------------
(***************************************************************************)
(* Proofs about Session for any number of devices and request goroutines,  *)
(* any rates and amounts, any number of failing commands and of restarts.  *)
(***************************************************************************)
EXTENDS Session, TLAPS

\* th stays well typed when one worker moves to a proper state.
LEMMA ThreadType ==
  ASSUME TypeOK, NEW t \in Workers, NEW w \in Worker, Proper(w), th' = [th EXCEPT ![t] = w]
  PROVE  /\ th' \in [Workers -> Worker]
         /\ \A u \in Workers : Proper(th'[u])
BY DEF TypeOK

\* The state of a worker that is through with its list is proper.
LEMMA FinishedType ==
  ASSUME NEW t \in Workers, NEW pc \in PCs
  PROVE  Finished(t, pc) \in Worker /\ Proper(Finished(t, pc))
BY DEF Finished, Idle, Worker, PCs, Proper, Selecting

\* Handing a worker its list of rows keeps th well typed.
LEMMA WorkType ==
  ASSUME TypeOK, NEW t \in Workers, NEW pc \in PCs, NEW todo \in SUBSET Ref, Work(t, pc, todo),
         pc \in Selecting => todo = {} \/ \E r \in todo : todo = {r}
  PROVE  /\ th' \in [Workers -> Worker]
         /\ \A u \in Workers : Proper(th'[u])
<1> DEFINE w == [Idle EXCEPT !.pc = pc, !.todo = todo]
<1>1. CASE todo = {}
  BY <1>1, FinishedType, ThreadType DEF Work
<1>2. CASE todo # {}
  <2>1. w \in Worker /\ Proper(w)
    BY <1>2 DEF Idle, Worker, Proper
  <2>2. th' = [th EXCEPT ![t] = w]
    BY <1>2 DEF Work
  <2> HIDE DEF w
  <2> QED BY <2>1, <2>2, ThreadType
<1> QED BY <1>1, <1>2

\* The state of a request goroutine without a request is proper.
LEMMA IdleType == Idle \in Worker /\ Proper(Idle)
BY DEF Idle, Worker, PCs, Proper, Selecting

\* What a SELECT of session rows returns: references to rows, one per device.
LEMMA RefType ==
  ASSUME TypeOK
  PROVE  /\ \A d \in Devices : RefOf(d) \in Ref
         /\ \A D \in SUBSET Devices : Refs(D) \in SUBSET Ref
BY DEF TypeOK, RefOf, Refs, Ref, Row

\* The row a handler selected is a row.
LEMMA SoleType ==
  ASSUME TypeOK, NEW t \in Workers, th[t].pc \in Selecting
  PROVE  /\ Sole(t) \in th[t].todo /\ Sole(t) \in Ref /\ Sole(t).dev \in Devices
         /\ th[t].todo = {Sole(t)}
<1>1. th[t] \in Worker /\ \E r \in th[t].todo : th[t].todo = {r}
  BY DEF TypeOK, Proper
<1>2. Sole(t) \in th[t].todo /\ th[t].todo = {Sole(t)}
  BY <1>1 DEF Sole
<1> QED BY <1>1, <1>2 DEF Worker, Ref

\* Later is the maximum: Extend counts from the later of now and expires_at.
LEMMA LaterType == \A a, b \in Int : Later(a, b) \in {a, b} /\ Later(a, b) >= a /\ Later(a, b) >= b
BY DEF Later

\* Handing a worker one row to treat.
LEMMA WorkOneType ==
  ASSUME TypeOK, NEW t \in Threads, NEW pc \in PCs, NEW d \in Devices, Work(t, pc, {RefOf(d)})
  PROVE  /\ th' \in [Workers -> Worker]
         /\ \A u \in Workers : Proper(th'[u])
<1>1. t \in Workers /\ {RefOf(d)} \in SUBSET Ref
  BY RefType DEF Workers
<1> HIDE DEF Ref
<1> QED BY <1>1, WorkType

\* Running iptables keeps the open accesses a set of devices and counts a failure
\* at most once.
LEMMA RunsType ==
  ASSUME TypeOK, NEW D \in SUBSET Devices, Runs(D)
  PROVE  open' \in SUBSET Devices /\ faults' \in 0..MaxFaults
BY LimitsAssumption DEF Runs, TypeOK

\* A row stays a row when one of its columns is written.
LEMMA RowUpdate ==
  ASSUME NEW r \in Row
  PROVE  /\ \A v \in Statuses : [r EXCEPT !.status = v] \in Row
         /\ \A v \in Nat : [r EXCEPT !.exp = v] \in Row
         /\ \A v \in BOOLEAN : [r EXCEPT !.paused = v] \in Row
         /\ \A v \in Nat : [r EXCEPT !.bank = v] \in Row
         /\ \A v \in Nat : [r EXCEPT !.deadline = v] \in Row
         /\ \A v \in Nat : [r EXCEPT !.pauses = v] \in Row
         /\ \A v \in BOOLEAN : [r EXCEPT !.pausable = v] \in Row
         /\ \A v \in Nat : [r EXCEPT !.hours = v] \in Row
BY DEF Row

\* The absent row of a device is a row.
LEMMA NoRowType == \A id \in Nat : NoRow(id) \in Row
BY DEF NoRow, Row, Statuses

\* The UPDATE of Pause writes a row.
LEMMA PausedRowType ==
  ASSUME NEW r \in Row, NEW b \in Nat, NEW e \in Nat
  PROVE  PausedRow(r, b, e) \in Row
<1> DEFINE r1 == [r EXCEPT !.paused = TRUE]
           r2 == [r1 EXCEPT !.bank = b]
           r3 == [r2 EXCEPT !.deadline = e]
<1>1. r1 \in Row BY RowUpdate
<1>2. r2 \in Row BY <1>1, RowUpdate
<1>3. r3 \in Row BY <1>2, RowUpdate
<1> HIDE DEF r3
<1>4. r3.pauses + 1 \in Nat BY <1>3 DEF Row
<1>5. [r3 EXCEPT !.pauses = r3.pauses + 1] \in Row BY <1>3, <1>4, RowUpdate
<1> USE DEF r3
<1> QED BY <1>5 DEF PausedRow

\* The UPDATE of Resume writes a row.
LEMMA ResumedRowType ==
  ASSUME NEW r \in Row, NEW e \in Nat
  PROVE  ResumedRow(r, e) \in Row
<1> DEFINE r1 == [r EXCEPT !.paused = FALSE]
           r2 == [r1 EXCEPT !.bank = 0]
           r3 == [r2 EXCEPT !.deadline = 0]
<1>1. r1 \in Row BY RowUpdate
<1>2. r2 \in Row BY <1>1, RowUpdate
<1>3. r3 \in Row BY <1>2, RowUpdate
<1>4. [r3 EXCEPT !.exp = e] \in Row BY <1>3, RowUpdate
<1> QED BY <1>4 DEF ResumedRow

\* The UPDATE of forceExpirePaused writes a row.
LEMMA ForfeitedRowType ==
  ASSUME NEW r \in Row
  PROVE  ForfeitedRow(r) \in Row
<1> DEFINE r1 == [r EXCEPT !.status = "expired"]
           r2 == [r1 EXCEPT !.paused = FALSE]
           r3 == [r2 EXCEPT !.bank = 0]
<1>1. r1 \in Row BY RowUpdate DEF Statuses
<1>2. r2 \in Row BY <1>1, RowUpdate
<1>3. r3 \in Row BY <1>2, RowUpdate
<1>4. [r3 EXCEPT !.deadline = 0] \in Row BY <1>3, RowUpdate
<1> QED BY <1>4 DEF ForfeitedRow

\* The row a credit inserts, or resets an ended row to, is a row.
LEMMA FreshType ==
  ASSUME NEW id \in Nat, NEW n \in Nat, now \in Nat,
         NEW rate \in [pausable : BOOLEAN, hours : Nat]
  PROVE  Fresh(id, n, rate) \in Row
<1> DEFINE r1 == [NoRow(id) EXCEPT !.status = "active"]
           r2 == [r1 EXCEPT !.exp = now + n]
           r3 == [r2 EXCEPT !.pausable = rate.pausable]
<1>1. r1 \in Row BY RowUpdate, NoRowType DEF Statuses
<1>a. now + n \in Nat OBVIOUS
<1>2. r2 \in Row BY <1>1, <1>a, RowUpdate
<1>3. r3 \in Row BY <1>2, RowUpdate
<1>4. [r3 EXCEPT !.hours = rate.hours] \in Row BY <1>3, RowUpdate
<1> QED BY <1>4 DEF Fresh

\* What a credit writes is a row.
LEMMA CreditedType ==
  ASSUME TypeOK, NEW d \in Devices, NEW n \in Minutes, NEW rate \in Rates
  PROVE  Credited(row[d], n, rate) \in Row
<1>1. row[d] \in Row /\ now \in Nat /\ n \in Nat
  BY MinutesAssumption, LimitsAssumption DEF TypeOK
<1>2. rate \in [pausable : BOOLEAN, hours : Nat]
  BY RatesAssumption
<1>3. \A id \in Nat : Fresh(id, n, rate) \in Row
  BY <1>1, <1>2, FreshType
<1>4. CASE Active(row[d]) /\ row[d].exp > now
  BY <1>1, <1>4 DEF Credited, Row
<1>5. CASE ~(Active(row[d]) /\ row[d].exp > now)
  BY <1>1, <1>3, <1>5 DEF Credited, Row
<1> QED BY <1>4, <1>5

\* Type correctness: every statement and every command keeps the rows, the
\* access list, the clock and the workers within their types, and no handler
\* reaches its second statement without a selected row.
THEOREM TypeCorrect == Spec => []TypeOK
<1>1. Init => TypeOK
  <2> SUFFICES ASSUME Init PROVE TypeOK
    OBVIOUS
  <2>1. row \in [Devices -> Row] /\ owed \in [Devices -> Nat]
    BY NoRowType DEF Init
  <2>2. th \in [Workers -> Worker] /\ \A t \in Workers : Proper(th[t])
    BY IdleType DEF Init
  <2>3. now \in 0..MaxTime /\ faults \in 0..MaxFaults /\ boots \in 0..MaxBoot
    BY LimitsAssumption DEF Init
  <2> QED BY <2>1, <2>2, <2>3 DEF Init, TypeOK
<1>2. TypeOK /\ [Next]_vars => TypeOK'
  <2> SUFFICES ASSUME TypeOK, [Next]_vars
               PROVE  TypeOK'
    OBVIOUS
  <2> USE DEF world
  <2>0. /\ \A d \in Devices : row[d] \in Row /\ owed[d] \in Nat
        /\ \A t \in Workers : th[t] \in Worker
        /\ now \in Nat /\ MaxTime \in Nat /\ Enforcer \in Workers
    BY LimitsAssumption DEF TypeOK, Workers
  <2>1. ASSUME NEW t \in Workers, ExpireOverdueSessions(t)
        PROVE  TypeOK'
    <3>1. Refs(Lapsed) \in SUBSET Ref
      BY RefType DEF Lapsed
    <3>2. /\ th' \in [Workers -> Worker]
          /\ \A u \in Workers : Proper(th'[u])
      BY <2>1, <3>1, WorkType DEF ExpireOverdueSessions, PCs, Selecting
    <3>3. row' \in [Devices -> Row]
      <4>1. \A d \in Devices : [row[d] EXCEPT !.status = "expired"] \in Row
        BY <2>0 DEF Row, Statuses
      <4> QED BY <2>0, <2>1, <4>1 DEF ExpireOverdueSessions
    <3>4. owed' \in [Devices -> Nat]
      BY <2>0, <2>1 DEF ExpireOverdueSessions
    <3> QED BY <2>1, <3>2, <3>3, <3>4 DEF ExpireOverdueSessions, TypeOK
  <2>2. ASSUME NEW t \in Threads, NEW d \in Devices, NEW n \in Minutes, NEW rate \in Rates,
               Credit(t, d, n, rate)
        PROVE  TypeOK'
    <3> DEFINE r == Credited(row[d], n, rate)
    <3>1. r \in Row /\ n \in Nat
      BY CreditedType, MinutesAssumption
    <3>2. {[dev |-> d, id |-> r.id]} \in SUBSET Ref
      BY <3>1 DEF Ref, Row
    <3>3. /\ th' \in [Workers -> Worker]
          /\ \A u \in Workers : Proper(th'[u])
      BY <2>2, <3>2, WorkType DEF Credit, PCs, Selecting, Workers
    <3>4. row' = [row EXCEPT ![d] = r]
      BY <2>2 DEF Credit
    <3> HIDE DEF r
    <3> QED BY <2>0, <2>2, <3>1, <3>3, <3>4 DEF Credit, TypeOK
  <2>3. ASSUME NEW t \in Threads, NEW d \in Devices, NEW n \in Minutes, Extend(t, d, n)
        PROVE  TypeOK'
    <3>1. n \in Nat /\ Later(row[d].exp, now) + n \in Nat
      BY <2>0, LaterType, MinutesAssumption DEF Row
    <3>2. [row[d] EXCEPT !.exp = Later(row[d].exp, now) + n] \in Row
      BY <2>0, <3>1 DEF Row
    <3>3. /\ th' \in [Workers -> Worker]
          /\ \A u \in Workers : Proper(th'[u])
      BY <2>3, WorkOneType DEF Extend, PCs
    <3> QED BY <2>0, <2>3, <3>1, <3>2, <3>3 DEF Extend, TypeOK
  <2>4. ASSUME NEW t \in Threads, NEW d \in Devices, NEW s \in {"expired", "cancelled"}, End(t, d, s)
        PROVE  TypeOK'
    <3>1. [row[d] EXCEPT !.status = s, !.exp = now] \in Row
      BY <2>0 DEF Row, Statuses
    <3>2. /\ th' \in [Workers -> Worker]
          /\ \A u \in Workers : Proper(th'[u])
      BY <2>4, WorkOneType DEF End, PCs
    <3> QED BY <2>0, <2>4, <3>1, <3>2 DEF End, TypeOK
  <2>5. ASSUME NEW t \in Threads, NEW d \in Devices, PauseSelect(t, d)
        PROVE  TypeOK'
    <3> DEFINE w == [pc |-> "pause", todo |-> {RefOf(d)}, cur |-> {},
                     bank |-> Later(row[d].exp + DbZone - now, 0),
                     deadline |-> IF row[d].hours > 0 THEN now + row[d].hours ELSE 0]
    <3>1. row[d].exp \in Nat /\ row[d].hours \in Nat
      BY <2>0 DEF Row
    <3>2. Later(row[d].exp + DbZone - now, 0) \in Nat
      BY <2>0, <3>1, LaterType, ZoneAssumption
    <3>3. w \in Worker /\ Proper(w)
      BY <2>0, <3>1, <3>2, RefType DEF Worker, PCs, Proper
    <3>4. th' = [th EXCEPT ![t] = w]
      BY <2>5 DEF PauseSelect
    <3> HIDE DEF w
    <3>5. /\ th' \in [Workers -> Worker]
          /\ \A u \in Workers : Proper(th'[u])
      BY <3>3, <3>4, ThreadType DEF Workers
    <3> QED BY <2>5, <3>5 DEF PauseSelect, TypeOK
  <2>6. ASSUME NEW t \in Threads, NEW d \in Devices, ResumeSelect(t, d)
        PROVE  TypeOK'
    <3> DEFINE w == [Idle EXCEPT !.pc = IF row[d].deadline # 0 /\ row[d].deadline < now
                                        THEN "force" ELSE "resume",
                                 !.todo = {RefOf(d)}, !.bank = row[d].bank]
    <3>1. row[d].bank \in Nat
      BY <2>0 DEF Row
    <3>2. w \in Worker /\ Proper(w)
      BY <3>1, RefType DEF Idle, Worker, PCs, Proper
    <3>3. th' = [th EXCEPT ![t] = w]
      BY <2>6 DEF ResumeSelect
    <3> HIDE DEF w
    <3>4. /\ th' \in [Workers -> Worker]
          /\ \A u \in Workers : Proper(th'[u])
      BY <3>2, <3>3, ThreadType DEF Workers
    <3> QED BY <2>6, <3>4 DEF ResumeSelect, TypeOK
  <2>7. ASSUME NEW t \in Threads, NEW d \in Devices, EditRead(t, d) \/ DeleteRead(t, d)
        PROVE  TypeOK'
    <3>1. /\ th' \in [Workers -> Worker]
          /\ \A u \in Workers : Proper(th'[u])
      BY <2>7, WorkOneType DEF EditRead, DeleteRead, PCs
    <3> QED BY <2>7, <3>1 DEF EditRead, DeleteRead, TypeOK
  <2>8. ASSUME NEW t \in Workers, Continue(t)
        PROVE  TypeOK'
    <3>0. /\ th[t].todo \in SUBSET Ref /\ th[t].cur \in SUBSET Ref
          /\ th[t].bank \in Nat /\ th[t].deadline \in Nat
          /\ \A S \in SUBSET th[t].todo : S \in SUBSET Ref
          /\ \A r \in Ref : r.dev \in Devices /\ r.id \in Nat
      BY <2>0 DEF Worker, Ref
    <3>1. CASE Auth(t)
      <4>1. PICK r \in th[t].todo : /\ Runs(open \cup {r.dev})
                                    /\ Work(t, "auth", th[t].todo \ {r})
                                    /\ UNCHANGED <<row, now, serving, owed, boots>>
        BY <3>1 DEF Auth
      <4>2. open' \in SUBSET Devices /\ faults' \in 0..MaxFaults
        BY <3>0, <4>1, RunsType DEF TypeOK
      <4>3. /\ th' \in [Workers -> Worker]
            /\ \A u \in Workers : Proper(th'[u])
        BY <3>0, <4>1, WorkType DEF PCs, Selecting
      <4> QED BY <4>1, <4>2, <4>3 DEF TypeOK
    <3>2. CASE Unauth(t)
      <4>1. PICK r \in th[t].todo : /\ Runs(open \ {r.dev})
                                    /\ Work(t, "unauth", th[t].todo \ {r})
                                    /\ UNCHANGED <<row, now, serving, owed, boots>>
        BY <3>2 DEF Unauth
      <4>2. open' \in SUBSET Devices /\ faults' \in 0..MaxFaults
        BY <4>1, RunsType DEF TypeOK
      <4>3. /\ th' \in [Workers -> Worker]
            /\ \A u \in Workers : Proper(th'[u])
        BY <3>0, <4>1, WorkType DEF PCs, Selecting
      <4> QED BY <4>1, <4>2, <4>3 DEF TypeOK
    <3>3. CASE UnauthForced(t)
      <4>1. PICK r \in th[t].cur : /\ Runs(open \ {r.dev})
                                   /\ Work(t, "force", th[t].todo)
                                   /\ UNCHANGED <<row, now, serving, owed, boots>>
        BY <3>3 DEF UnauthForced
      <4>2. open' \in SUBSET Devices /\ faults' \in 0..MaxFaults
        BY <4>1, RunsType DEF TypeOK
      <4>3. /\ th' \in [Workers -> Worker]
            /\ \A u \in Workers : Proper(th'[u])
        BY <3>0, <4>1, WorkType DEF PCs, Selecting
      <4> QED BY <4>1, <4>2, <4>3 DEF TypeOK
    <3>4. CASE ForceExpire(t)
      <4>1. PICK r \in th[t].todo :
              /\ th' = [th EXCEPT ![t].pc = "forced", ![t].cur = {r}, ![t].todo = @ \ {r}]
              /\ IF Exists(r) /\ Active(row[r.dev])
                   THEN /\ row' = [row EXCEPT ![r.dev] = ForfeitedRow(@)]
                        /\ owed' = [owed EXCEPT ![r.dev] = 0]
                   ELSE UNCHANGED <<row, owed>>
              /\ UNCHANGED <<open, world>>
        BY <3>4 DEF ForceExpire
      <4> DEFINE w == [th[t] EXCEPT !.pc = "forced", !.cur = {r}, !.todo = @ \ {r}]
      <4>2. w \in Worker /\ Proper(w)
        BY <2>0, <3>0 DEF Worker, PCs, Proper, Selecting
      <4>3. th' = [th EXCEPT ![t] = w]
        BY <2>0, <4>1
      <4> HIDE DEF w
      <4>4. /\ th' \in [Workers -> Worker]
            /\ \A u \in Workers : Proper(th'[u])
        BY <4>2, <4>3, ThreadType
      <4>5. ForfeitedRow(row[r.dev]) \in Row
        BY <2>0, <3>0, ForfeitedRowType
      <4>6. row' \in [Devices -> Row] /\ owed' \in [Devices -> Nat]
        BY <2>0, <3>0, <4>1, <4>5 DEF TypeOK
      <4> QED BY <4>1, <4>4, <4>6 DEF TypeOK
    <3>5. CASE PauseUpdate(t)
      <4> DEFINE r == Sole(t)
      <4>1. r \in Ref /\ r.dev \in Devices
        BY <3>5, SoleType DEF PauseUpdate, Selecting
      <4>2. /\ th' \in [Workers -> Worker]
            /\ \A u \in Workers : Proper(th'[u])
        BY <3>5, <4>1, WorkType DEF PauseUpdate, PCs, Selecting
      <4>3. row' = row \/ row' = [row EXCEPT ![r.dev] = PausedRow(@, th[t].bank, th[t].deadline)]
        BY <3>5 DEF PauseUpdate
      <4>4. PausedRow(row[r.dev], th[t].bank, th[t].deadline) \in Row
        BY <2>0, <3>0, <4>1, PausedRowType
      <4>5. row' \in [Devices -> Row]
        BY <4>1, <4>3, <4>4 DEF TypeOK
      <4> QED BY <3>5, <4>2, <4>5 DEF PauseUpdate, TypeOK
    <3>6. CASE ResumeUpdate(t)
      <4> DEFINE r == Sole(t)
      <4>1. r \in Ref /\ r.dev \in Devices
        BY <3>6, SoleType DEF ResumeUpdate, Selecting
      <4>2. /\ th' \in [Workers -> Worker]
            /\ \A u \in Workers : Proper(th'[u])
        BY <3>6, <4>1, WorkType DEF ResumeUpdate, PCs, Selecting
      <4>3. row' = row \/ row' = [row EXCEPT ![r.dev] = ResumedRow(@, now + th[t].bank)]
        BY <3>6 DEF ResumeUpdate
      <4>4. ResumedRow(row[r.dev], now + th[t].bank) \in Row
        BY <2>0, <3>0, <4>1, ResumedRowType
      <4>5. row' \in [Devices -> Row]
        BY <4>1, <4>3, <4>4 DEF TypeOK
      <4> QED BY <3>6, <4>2, <4>5 DEF ResumeUpdate, TypeOK
    <3>7. CASE EditWrite(t)
      <4> DEFINE r == Sole(t)
      <4>1. r \in Ref /\ r.dev \in Devices
        BY <3>7, SoleType DEF EditWrite, Selecting
      <4>2. PICK s \in EditStatuses :
              /\ IF Exists(r)
                   THEN /\ row' = [row EXCEPT ![r.dev].status = s,
                                     ![r.dev].exp = IF s \in {"expired", "cancelled"} THEN now ELSE @]
                        /\ owed' = [owed EXCEPT ![r.dev] = IF s = "active" THEN @ ELSE 0]
                   ELSE UNCHANGED <<row, owed>>
              /\ Work(t, "unauth",
                      IF s \in {"expired", "cancelled"} /\ th[t].pc = "editlive" THEN {r} ELSE {})
        BY <3>7 DEF EditWrite
      <4>3. /\ th' \in [Workers -> Worker]
            /\ \A u \in Workers : Proper(th'[u])
        BY <4>1, <4>2, WorkType DEF PCs, Selecting
      <4>4. \A e \in Nat : [row[r.dev] EXCEPT !.status = s, !.exp = e] \in Row
        BY <2>0, <4>1, EditAssumption DEF Row
      <4> DEFINE e == IF s \in {"expired", "cancelled"} THEN now ELSE row[r.dev].exp
      <4>5. e \in Nat
        BY <2>0, <4>1 DEF Row
      <4>6. row' \in [Devices -> Row]
        <5>1. CASE ~Exists(r)
          BY <2>0, <4>2, <5>1 DEF TypeOK
        <5>2. CASE Exists(r)
          <6>1. row' = [row EXCEPT ![r.dev] = [row[r.dev] EXCEPT !.status = s, !.exp = e]]
            BY <2>0, <4>1, <4>2, <5>2
          <6>2. [row[r.dev] EXCEPT !.status = s, !.exp = e] \in Row
            BY <4>4, <4>5
          <6> HIDE DEF e
          <6> QED BY <4>1, <6>1, <6>2 DEF TypeOK
        <5> QED BY <5>1, <5>2
      <4>7. owed' \in [Devices -> Nat]
        BY <2>0, <4>1, <4>2 DEF TypeOK
      <4> QED BY <3>7, <4>3, <4>6, <4>7 DEF EditWrite, TypeOK
    <3>8. CASE DeleteUnauth(t)
      <4>1. open' \in SUBSET Devices /\ faults' \in 0..MaxFaults
        BY <3>8, RunsType DEF DeleteUnauth, TypeOK
      <4>2. /\ th' \in [Workers -> Worker]
            /\ \A u \in Workers : Proper(th'[u])
        BY <3>0, <3>8, WorkType, SoleType DEF DeleteUnauth, PCs, Selecting
      <4> QED BY <3>8, <4>1, <4>2 DEF DeleteUnauth, TypeOK
    <3>9. CASE DeleteRow(t)
      <4> DEFINE r == Sole(t)
      <4>1. r \in Ref /\ r.dev \in Devices /\ r.id \in Nat
        BY <3>0, <3>9, SoleType DEF DeleteRow, Selecting
      <4>2. /\ th' \in [Workers -> Worker]
            /\ \A u \in Workers : Proper(th'[u])
        BY <3>9, IdleType, ThreadType DEF DeleteRow
      <4>3. NoRow(r.id) \in Row
        BY <4>1, NoRowType
      <4>4. row' \in [Devices -> Row] /\ owed' \in [Devices -> Nat]
        BY <2>0, <3>9, <4>1, <4>3 DEF DeleteRow, TypeOK
      <4> QED BY <3>9, <4>2, <4>4 DEF DeleteRow, TypeOK
    <3> QED BY <2>8, <3>1, <3>2, <3>3, <3>4, <3>5, <3>6, <3>7, <3>8, <3>9 DEF Continue
  <2>9. CASE ListOverduePaused \/ Recover
    <3>1. /\ th' \in [Workers -> Worker]
          /\ \A u \in Workers : Proper(th'[u])
      BY <2>0, <2>9, WorkType, RefType DEF ListOverduePaused, Recover, PCs, Selecting
    <3> QED BY <2>9, <3>1 DEF ListOverduePaused, Recover, TypeOK
  <2>10. CASE Listen
    <3>1. /\ th' \in [Workers -> Worker]
          /\ \A u \in Workers : Proper(th'[u])
      BY <2>0, <2>10, IdleType, ThreadType DEF Listen
    <3> QED BY <2>10, <3>1 DEF Listen, TypeOK
  <2>11. CASE Restart
    <3>1. th' \in [Workers -> Worker] /\ \A u \in Workers : Proper(th'[u])
      BY <2>11, IdleType DEF Restart
    <3>2. open' \in SUBSET Devices /\ boots' \in 0..MaxBoot
      BY <2>11, LimitsAssumption DEF Restart, TypeOK
    <3> QED BY <2>11, <3>1, <3>2 DEF Restart, TypeOK
  <2>12. CASE Tick
    <3>1. \A d \in Devices : Later(owed[d] - 1, 0) \in Nat
      BY <2>0, LaterType
    <3> QED BY <2>0, <2>12, <3>1 DEF Tick, TypeOK
  <2>13. CASE UNCHANGED vars
    BY <2>13 DEF vars, TypeOK
  <2> QED
    BY <2>1, <2>2, <2>3, <2>4, <2>5, <2>6, <2>7, <2>8, <2>9, <2>10, <2>11, <2>12, <2>13
    DEF Next, Request, EnforcerStep, Workers
<1> QED BY <1>1, <1>2, PTL DEF Spec

----------------------------------------------------------------------------
(***************************************************************************)
(* What any step may do to one row, whoever takes it: the life of a row.   *)
(***************************************************************************)
Ended(r, s, p) ==
  \E status \in {"expired", "cancelled"} : s = [r EXCEPT !.status = status, !.exp = now] /\ p = 0
Edited(r, s, o, p) ==
  \E status \in EditStatuses \ {"expired", "cancelled"} :
    s = [r EXCEPT !.status = status] /\ p = IF status = "active" THEN o ELSE 0
Bought(r, s, o, p) ==
  \E n \in Minutes :
    /\ p = o + n
    /\ \/ \E rate \in Rates : s = Credited(r, n, rate)
       \/ Active(r) /\ s = [r EXCEPT !.exp = Later(r.exp, now) + n]
Frozen(d, r, s) ==
  /\ Running(r)
  /\ \E t \in Workers : /\ th[t].pc = "pause" /\ RefOf(d) \in th[t].todo
                        /\ s = PausedRow(r, th[t].bank, th[t].deadline)
Thawed(d, r, s) ==
  /\ Active(r) /\ r.paused
  /\ \E t \in Workers : /\ th[t].pc = "resume" /\ RefOf(d) \in th[t].todo
                        /\ s = ResumedRow(r, now + th[t].bank)
Lost(r, s, p) ==
  /\ p = 0
  /\ \/ Overdue(r) /\ s = [r EXCEPT !.status = "expired"]
     \/ Active(r) /\ s = ForfeitedRow(r)
Deleted(r, s, p) == s = NoRow(r.id) /\ p = 0

\* r and s are the row before and after, o and p the time owed on it.
RowChange(d, r, s, o, p) ==
  \/ /\ now' = now
     /\ \/ s = r /\ p = o
        \/ (Frozen(d, r, s) \/ Thawed(d, r, s)) /\ p = o
        \/ Bought(r, s, o, p) \/ Lost(r, s, p)
        \/ Ended(r, s, p) \/ Edited(r, s, o, p) \/ Deleted(r, s, p)
  \/ s = r /\ now' = now + 1 /\ p = IF Running(r) THEN Later(o - 1, 0) ELSE o

RowStep(d) == RowChange(d, row[d], row'[d], owed[d], owed'[d])

\* Only these things happen to a row.
LEMMA RowSteps ==
  ASSUME TypeOK, [Next]_vars
  PROVE  \A d \in Devices : RowStep(d)
<1> SUFFICES ASSUME NEW d \in Devices
             PROVE  RowStep(d)
  OBVIOUS
<1>0. /\ row \in [Devices -> Row] /\ row[d] \in Row /\ owed \in [Devices -> Nat]
      /\ \A t \in Workers : th[t] \in Worker
      /\ Enforcer \in Workers /\ Threads \subseteq Workers
  BY DEF TypeOK, Workers
<1>1. CASE row' = row /\ owed' = owed /\ now' = now
  BY <1>1 DEF RowStep, RowChange
<1> USE DEF world
<1>2. ASSUME NEW t \in Workers, ExpireOverdueSessions(t)
      PROVE  RowStep(d)
  <2>1. \/ row'[d] = row[d] /\ owed'[d] = owed[d]
        \/ Overdue(row[d]) /\ row'[d] = [row[d] EXCEPT !.status = "expired"] /\ owed'[d] = 0
    BY <1>2 DEF ExpireOverdueSessions, Lapsed
  <2> QED BY <1>2, <2>1 DEF ExpireOverdueSessions, RowStep, RowChange, Lost
<1>3. ASSUME NEW t \in Threads, NEW c \in Devices, NEW n \in Minutes, NEW rate \in Rates,
             Credit(t, c, n, rate)
      PROVE  RowStep(d)
  <2>1. \/ row'[d] = row[d] /\ owed'[d] = owed[d]
        \/ row'[d] = Credited(row[d], n, rate) /\ owed'[d] = owed[d] + n
    BY <1>0, <1>3 DEF Credit
  <2> QED BY <1>3, <2>1 DEF Credit, RowStep, RowChange, Bought
<1>4. ASSUME NEW t \in Threads, NEW c \in Devices, NEW n \in Minutes, Extend(t, c, n)
      PROVE  RowStep(d)
  <2>1. \/ row'[d] = row[d] /\ owed'[d] = owed[d]
        \/ /\ Active(row[d]) /\ row'[d] = [row[d] EXCEPT !.exp = Later(row[d].exp, now) + n]
           /\ owed'[d] = owed[d] + n
    BY <1>0, <1>4 DEF Extend
  <2> QED BY <1>4, <2>1 DEF Extend, RowStep, RowChange, Bought
<1>5. ASSUME NEW t \in Threads, NEW c \in Devices, NEW s \in {"expired", "cancelled"}, End(t, c, s)
      PROVE  RowStep(d)
  <2>1. \/ row'[d] = row[d] /\ owed'[d] = owed[d]
        \/ row'[d] = [row[d] EXCEPT !.status = s, !.exp = now] /\ owed'[d] = 0
    BY <1>0, <1>5 DEF End
  <2> QED BY <1>5, <2>1 DEF End, RowStep, RowChange, Ended
<1>6. ASSUME NEW t \in Workers, Continue(t), ~(row' = row /\ owed' = owed)
      PROVE  RowStep(d)
  <2>a. now' = now
    BY <1>6 DEF Continue, Auth, Unauth, PauseUpdate, ResumeUpdate, ForceExpire, UnauthForced,
                EditWrite, DeleteUnauth, DeleteRow
  <2>b. \A r \in Ref : r = RefOf(r.dev) <=> r.id = row[r.dev].id
    BY DEF Ref, RefOf
  <2>c. \A r \in Ref : row[r.dev].id = r.id => r = RefOf(r.dev)
    BY <2>b
  <2>1. CASE PauseUpdate(t)
    <3> DEFINE r == Sole(t)
    <3>1. /\ Pausable(r) /\ row' = [row EXCEPT ![r.dev] = PausedRow(@, th[t].bank, th[t].deadline)]
          /\ owed' = owed /\ th[t].pc = "pause"
      BY <1>6, <2>1 DEF PauseUpdate
    <3>2. r \in th[t].todo /\ r \in Ref /\ r.dev \in Devices
      BY <3>1, SoleType DEF Selecting
    <3>3. r = RefOf(r.dev)
      BY <2>c, <3>1, <3>2 DEF Pausable, Exists
    <3>4. \/ row'[d] = row[d]
          \/ d = r.dev /\ Running(row[d]) /\ row'[d] = PausedRow(row[d], th[t].bank, th[t].deadline)
      BY <1>0, <3>1 DEF Pausable
    <3> HIDE DEF r
    <3>5. row'[d] = row[d] \/ Frozen(d, row[d], row'[d])
      BY <3>1, <3>2, <3>3, <3>4 DEF Frozen
    <3> QED BY <2>a, <3>1, <3>5 DEF RowStep, RowChange
  <2>2. CASE ResumeUpdate(t)
    <3> DEFINE r == Sole(t)
    <3>1. /\ Resumable(r) /\ row' = [row EXCEPT ![r.dev] = ResumedRow(@, now + th[t].bank)]
          /\ owed' = owed /\ th[t].pc = "resume"
      BY <1>6, <2>2 DEF ResumeUpdate
    <3>2. r \in th[t].todo /\ r \in Ref /\ r.dev \in Devices
      BY <3>1, SoleType DEF Selecting
    <3>3. r = RefOf(r.dev)
      BY <2>c, <3>1, <3>2 DEF Resumable, Exists
    <3>4. \/ row'[d] = row[d]
          \/ /\ d = r.dev /\ Active(row[d]) /\ row[d].paused
             /\ row'[d] = ResumedRow(row[d], now + th[t].bank)
      BY <1>0, <3>1 DEF Resumable
    <3> HIDE DEF r
    <3>5. row'[d] = row[d] \/ Thawed(d, row[d], row'[d])
      BY <3>1, <3>2, <3>3, <3>4 DEF Thawed
    <3> QED BY <2>a, <3>1, <3>5 DEF RowStep, RowChange
  <2>3. CASE ForceExpire(t)
    <3>1. PICK r \in th[t].todo :
            /\ Active(row[r.dev]) /\ row' = [row EXCEPT ![r.dev] = ForfeitedRow(@)]
            /\ owed' = [owed EXCEPT ![r.dev] = 0]
      BY <1>6, <2>3 DEF ForceExpire
    <3>2. \/ row'[d] = row[d] /\ owed'[d] = owed[d]
          \/ Active(row[d]) /\ row'[d] = ForfeitedRow(row[d]) /\ owed'[d] = 0
      BY <1>0, <3>1
    <3> QED BY <2>a, <3>2 DEF RowStep, RowChange, Lost
  <2>4. CASE EditWrite(t)
    <3> DEFINE r == Sole(t)
    <3>1. PICK s \in EditStatuses :
            /\ row' = [row EXCEPT ![r.dev].status = s,
                                  ![r.dev].exp = IF s \in {"expired", "cancelled"} THEN now ELSE @]
            /\ owed' = [owed EXCEPT ![r.dev] = IF s = "active" THEN @ ELSE 0]
      BY <1>6, <2>4 DEF EditWrite
    <3>2. CASE s \in {"expired", "cancelled"}
      <4>1. \/ row'[d] = row[d] /\ owed'[d] = owed[d]
            \/ row'[d] = [row[d] EXCEPT !.status = s, !.exp = now] /\ owed'[d] = 0
        BY <1>0, <3>1, <3>2
      <4> QED BY <2>a, <3>2, <4>1 DEF RowStep, RowChange, Ended
    <3>3. CASE s \notin {"expired", "cancelled"}
      <4>1. \/ row'[d] = row[d] /\ owed'[d] = owed[d]
            \/ /\ row'[d] = [row[d] EXCEPT !.status = s]
               /\ owed'[d] = IF s = "active" THEN owed[d] ELSE 0
        BY <1>0, <3>1, <3>3 DEF Row
      <4> QED BY <2>a, <3>3, <4>1 DEF RowStep, RowChange, Edited
    <3> QED BY <3>2, <3>3
  <2>5. CASE DeleteRow(t)
    <3> DEFINE r == Sole(t)
    <3>1. /\ Exists(r) /\ row' = [row EXCEPT ![r.dev] = NoRow(r.id)]
          /\ owed' = [owed EXCEPT ![r.dev] = 0]
      BY <1>6, <2>5 DEF DeleteRow
    <3>2. \/ row'[d] = row[d] /\ owed'[d] = owed[d]
          \/ row'[d] = NoRow(row[d].id) /\ owed'[d] = 0
      BY <1>0, <3>1 DEF Exists
    <3> QED BY <2>a, <3>2 DEF RowStep, RowChange, Deleted
  <2> QED BY <1>6, <2>1, <2>2, <2>3, <2>4, <2>5
          DEF Continue, Auth, Unauth, UnauthForced, DeleteUnauth
<1>7. ASSUME NEW t \in Workers, Continue(t), row' = row, owed' = owed
      PROVE  RowStep(d)
  BY <1>1, <1>7 DEF Continue, Auth, Unauth, PauseUpdate, ResumeUpdate, ForceExpire, UnauthForced,
                EditWrite, DeleteUnauth, DeleteRow
<1>8. CASE \E t \in Threads : \E c \in Devices :
              PauseSelect(t, c) \/ ResumeSelect(t, c) \/ EditRead(t, c) \/ DeleteRead(t, c)
  BY <1>1, <1>8 DEF PauseSelect, ResumeSelect, EditRead, DeleteRead
<1>9. CASE ListOverduePaused \/ Recover \/ Listen \/ Restart \/ UNCHANGED vars
  BY <1>1, <1>9 DEF ListOverduePaused, Recover, Listen, Restart, vars
<1>10. CASE Tick
  BY <1>0, <1>10 DEF Tick, RowStep, RowChange
<1> QED BY <1>0, <1>2, <1>3, <1>4, <1>5, <1>6, <1>7, <1>8, <1>9, <1>10
        DEF Next, Request, EnforcerStep

\* A banked time is not overwritten: of two Pause requests only the first one's
\* second statement finds the row running.
THEOREM BankFrozen == Spec => FrozenBankUntouched
<1> DEFINE Untouched == \A d \in Devices :
      Active(row[d]) /\ row[d].paused /\ row'[d].paused => row'[d].bank = row[d].bank
<1>1. TypeOK /\ [Next]_vars => [Untouched]_vars
  <2> SUFFICES ASSUME TypeOK, [Next]_vars, NEW d \in Devices,
                      Active(row[d]), row[d].paused, row'[d].paused
               PROVE  row'[d].bank = row[d].bank
    BY Zenon
  <2> DEFINE r == row[d]
             s == row'[d]
             o == owed[d]
             p == owed'[d]
  <2>0. r \in Row /\ RowChange(d, r, s, o, p) /\ Active(r) /\ r.paused /\ s.paused
    BY RowSteps DEF RowStep, TypeOK
  <2> HIDE DEF r, s, o, p
  <2> SUFFICES s.bank = r.bank
    BY DEF r, s
  <2>a. CASE s = r
    BY <2>a
  <2>1. CASE Bought(r, s, o, p)
    <3>1. \A id \in Nat, n \in Minutes, rate \in Rates : ~Fresh(id, n, rate).paused
      BY DEF Fresh, NoRow
    <3>2. CASE \E n \in Minutes, rate \in Rates : s = Credited(r, n, rate)
      <4>1. PICK n \in Minutes, rate \in Rates : s = Credited(r, n, rate)
        BY <3>2
      <4>2. s = [r EXCEPT !.exp = r.exp + n]
        BY <2>0, <3>1, <4>1 DEF Credited, Row, Active
      <4> QED BY <2>0, <4>2 DEF Row
    <3> QED BY <2>0, <2>1, <3>2 DEF Bought, Row
  <2>2. CASE Frozen(d, r, s) \/ Thawed(d, r, s) \/ Lost(r, s, p)
    BY <2>0, <2>2 DEF Frozen, Thawed, Lost, Running, Overdue, ResumedRow, ForfeitedRow, Row
  <2>3. CASE Ended(r, s, p)
    BY <2>0, <2>3 DEF Ended, Row
  <2>4. CASE Edited(r, s, o, p)
    BY <2>0, <2>4 DEF Edited, Row
  <2>5. CASE Deleted(r, s, p)
    BY <2>0, <2>5 DEF Deleted, NoRow
  <2> QED BY <2>0, <2>a, <2>1, <2>2, <2>3, <2>4, <2>5 DEF RowChange
<1> QED BY <1>1, TypeCorrect, PTL DEF Spec, FrozenBankUntouched

\* A running session only loses time to the operator: of two Resume requests
\* only the first one's second statement finds the row paused.
THEOREM NoRewind == Spec => RunningNeverRewinds
<1> DEFINE NoLoss == \A d \in Devices :
      Running(row[d]) /\ Active(row'[d]) /\ ~row'[d].paused => row'[d].exp >= row[d].exp
<1>1. TypeOK /\ [Next]_vars => [NoLoss]_vars
  <2> SUFFICES ASSUME TypeOK, [Next]_vars, NEW d \in Devices,
                      Running(row[d]), Active(row'[d]), ~row'[d].paused
               PROVE  row'[d].exp >= row[d].exp
    BY Zenon
  <2> DEFINE r == row[d]
             s == row'[d]
             o == owed[d]
             p == owed'[d]
  <2>0. r \in Row /\ RowChange(d, r, s, o, p) /\ Running(r) /\ Active(s) /\ ~s.paused /\ now \in Nat
    BY RowSteps, LimitsAssumption DEF RowStep, TypeOK
  <2> HIDE DEF r, s, o, p
  <2> SUFFICES s.exp >= r.exp
    BY DEF r, s
  <2>1. CASE Bought(r, s, o, p)
    <3>1. CASE \E n \in Minutes, rate \in Rates : s = Credited(r, n, rate)
      <4>1. PICK n \in Minutes, rate \in Rates : s = Credited(r, n, rate)
        BY <3>1
      <4>2. s = [r EXCEPT !.exp = r.exp + n]
        BY <2>0, <4>1 DEF Credited, Row, Running
      <4> QED BY <2>0, <4>2, MinutesAssumption DEF Row
    <3>2. CASE \E n \in Minutes : s = [r EXCEPT !.exp = Later(r.exp, now) + n]
      BY <2>0, <3>2, LaterType, MinutesAssumption DEF Row
    <3> QED BY <2>1, <3>1, <3>2 DEF Bought
  <2>2. CASE Frozen(d, r, s) \/ Thawed(d, r, s) \/ Lost(r, s, p)
    BY <2>0, <2>2 DEF Frozen, Thawed, Lost, Running, Overdue, Active, PausedRow, ForfeitedRow, Row
  <2>3. CASE Ended(r, s, p)
    BY <2>0, <2>3 DEF Ended, Active, Row
  <2>4. CASE Edited(r, s, o, p)
    BY <2>0, <2>4 DEF Edited, Row
  <2>5. CASE Deleted(r, s, p)
    BY <2>0, <2>5 DEF Deleted, NoRow, Active
  <2>6. CASE s = r
    BY <2>0, <2>6 DEF Row
  <2> QED BY <2>0, <2>1, <2>2, <2>3, <2>4, <2>5, <2>6 DEF RowChange
<1> QED BY <1>1, TypeCorrect, PTL DEF Spec, RunningNeverRewinds

----------------------------------------------------------------------------
(***************************************************************************)
(* A step of one worker: what it leaves alone.                             *)
(***************************************************************************)
Does(u) ==
  \/ u \in Threads /\ Request(u)
  \/ Continue(u)
  \/ u = Enforcer /\ EnforcerStep

\* Taking up a list leaves the other workers alone and brings the worker to the
\* devices of the list.
LEMMA WorkDevs ==
  ASSUME TypeOK, NEW u \in Workers, NEW pc, NEW todo, Work(u, pc, todo)
  PROVE  /\ \A t \in Workers \ {u} : th'[t] = th[t]
         /\ \A r \in todo : r.dev \in Devs(th'[u])
<1>1. \A t \in Workers \ {u} : th'[t] = th[t]
  BY DEF Work, TypeOK
<1>2. ASSUME NEW r \in todo
      PROVE  r.dev \in Devs(th'[u])
  <2>1. th'[u] = [Idle EXCEPT !.pc = pc, !.todo = todo]
    BY <1>2 DEF Work, TypeOK
  <2>2. th'[u].todo = todo
    BY <2>1 DEF Idle
  <2> QED BY <1>2, <2>2 DEF Devs
<1> QED BY <1>1, <1>2

\* A reference to the row of a device is at that device.
LEMMA RefDevs ==
  /\ \A d \in Devices : RefOf(d).dev = d /\ RefOf(d) \in {RefOf(d)}
  /\ \A D \in SUBSET Devices : \A d \in D : RefOf(d) \in Refs(D)
BY DEF RefOf, Refs

\* A worker changes the row, the access and the debt of a device only while it
\* has the device on its list, before the step or after it.
LEMMA OwnDevices ==
  ASSUME TypeOK, NEW u \in Workers, Does(u)
  PROVE  /\ \A t \in Workers \ {u} : th'[t] = th[t]
         /\ \A d \in Devices \ (Devs(th[u]) \cup Devs(th'[u])) :
              row'[d] = row[d] /\ owed'[d] = owed[d] /\ (d \in open' <=> d \in open)
         /\ now' = now /\ boots' = boots
<1> DEFINE Others == \A t \in Workers \ {u} : th'[t] = th[t]
           Same(d) == row'[d] = row[d] /\ owed'[d] = owed[d] /\ (d \in open' <=> d \in open)
           Goal == /\ Others
                   /\ \A d \in Devices \ (Devs(th[u]) \cup Devs(th'[u])) : Same(d)
                   /\ now' = now /\ boots' = boots
<1>0. /\ row \in [Devices -> Row] /\ owed \in [Devices -> Nat] /\ th \in [Workers -> Worker]
      /\ Threads \subseteq Workers /\ Enforcer \in Workers
      /\ \A r \in th[u].todo \cup th[u].cur : r.dev \in Devs(th[u])
  BY DEF TypeOK, Workers, Devs
<1> USE DEF world
<1>1. CASE ExpireOverdueSessions(u)
  <2>1. Others /\ \A d \in Lapsed : d \in Devs(th'[u])
    BY <1>1, WorkDevs, RefDevs DEF ExpireOverdueSessions, Lapsed
  <2> QED BY <1>0, <1>1, <2>1 DEF ExpireOverdueSessions
<1>2. ASSUME NEW c \in Devices, NEW n \in Minutes, NEW rate \in Rates, Credit(u, c, n, rate)
      PROVE  Goal
  <2> DEFINE e == [dev |-> c, id |-> Credited(row[c], n, rate).id]
  <2>1. Work(u, "auth", {e}) /\ e \in {e} /\ e.dev = c
    BY <1>2 DEF Credit
  <2> HIDE DEF e
  <2>2. Others /\ c \in Devs(th'[u])
    BY <2>1, WorkDevs
  <2> QED BY <1>0, <1>2, <2>2 DEF Credit
<1>3. ASSUME NEW c \in Devices, NEW n \in Minutes, Extend(u, c, n)
      PROVE  Goal
  <2>1. Others /\ c \in Devs(th'[u])
    BY <1>3, WorkDevs, RefDevs DEF Extend
  <2> QED BY <1>0, <1>3, <2>1 DEF Extend
<1>4. ASSUME NEW c \in Devices, NEW s \in {"expired", "cancelled"}, End(u, c, s)
      PROVE  Goal
  <2>1. Others /\ c \in Devs(th'[u])
    BY <1>4, WorkDevs, RefDevs DEF End
  <2> QED BY <1>0, <1>4, <2>1 DEF End
<1>5. CASE \E c \in Devices : PauseSelect(u, c) \/ ResumeSelect(u, c)
  <2>1. Others
    BY <1>0, <1>5 DEF PauseSelect, ResumeSelect
  <2> QED BY <1>5, <2>1 DEF PauseSelect, ResumeSelect
<1>6. CASE \E c \in Devices : EditRead(u, c) \/ DeleteRead(u, c)
  <2>1. Others
    BY <1>6, WorkDevs DEF EditRead, DeleteRead
  <2> QED BY <1>6, <2>1 DEF EditRead, DeleteRead
<1>7. CASE PauseUpdate(u) \/ ResumeUpdate(u)
  <2>1. Others /\ Sole(u).dev \in Devs(th[u])
    BY <1>0, <1>7, WorkDevs, SoleType DEF PauseUpdate, ResumeUpdate, Selecting
  <2> QED BY <1>0, <1>7, <2>1 DEF PauseUpdate, ResumeUpdate
<1>8. CASE ForceExpire(u)
  <2>1. PICK r \in th[u].todo :
          /\ th' = [th EXCEPT ![u].pc = "forced", ![u].cur = {r}, ![u].todo = @ \ {r}]
          /\ IF Exists(r) /\ Active(row[r.dev])
               THEN /\ row' = [row EXCEPT ![r.dev] = ForfeitedRow(@)]
                    /\ owed' = [owed EXCEPT ![r.dev] = 0]
               ELSE UNCHANGED <<row, owed>>
    BY <1>8 DEF ForceExpire
  <2>2. Others /\ r.dev \in Devs(th[u])
    BY <1>0, <2>1
  <2> QED BY <1>0, <1>8, <2>1, <2>2 DEF ForceExpire
<1>9. CASE Auth(u)
  <2>1. PICK r \in th[u].todo : Runs(open \cup {r.dev}) /\ Work(u, "auth", th[u].todo \ {r})
    BY <1>9 DEF Auth
  <2>2. Others /\ r.dev \in Devs(th[u])
    BY <1>0, <2>1, WorkDevs
  <2> QED BY <1>9, <2>1, <2>2 DEF Auth, Runs
<1>10. CASE Unauth(u)
  <2>1. PICK r \in th[u].todo : Runs(open \ {r.dev}) /\ Work(u, "unauth", th[u].todo \ {r})
    BY <1>10 DEF Unauth
  <2>2. Others /\ r.dev \in Devs(th[u])
    BY <1>0, <2>1, WorkDevs
  <2> QED BY <1>10, <2>1, <2>2 DEF Unauth, Runs
<1>11. CASE UnauthForced(u)
  <2>1. PICK r \in th[u].cur : Runs(open \ {r.dev}) /\ Work(u, "force", th[u].todo)
    BY <1>11 DEF UnauthForced
  <2>2. Others /\ r.dev \in Devs(th[u])
    BY <1>0, <2>1, WorkDevs
  <2> QED BY <1>11, <2>1, <2>2 DEF UnauthForced, Runs
<1>12. CASE EditWrite(u)
  <2>1. Sole(u).dev \in Devs(th[u])
    BY <1>0, <1>12, SoleType DEF EditWrite, Selecting
  <2>2. Others
    BY <1>12, WorkDevs DEF EditWrite
  <2>3. \A d \in Devices \ {Sole(u).dev} : row'[d] = row[d] /\ owed'[d] = owed[d]
    BY <1>0, <1>12 DEF EditWrite
  <2> QED BY <1>12, <2>1, <2>2, <2>3 DEF EditWrite
<1>13. CASE DeleteUnauth(u)
  <2>1. Others
    BY <1>13, WorkDevs DEF DeleteUnauth
  <2> QED BY <1>13, <2>1 DEF DeleteUnauth, Runs
<1>14. CASE DeleteRow(u)
  <2>1. Others /\ Sole(u).dev \in Devs(th[u])
    BY <1>0, <1>14, SoleType DEF DeleteRow, Selecting
  <2> QED BY <1>0, <1>14, <2>1 DEF DeleteRow
<1>15. CASE u = Enforcer /\ (ListOverduePaused \/ Recover)
  <2>1. Others
    BY <1>15, WorkDevs DEF ListOverduePaused, Recover
  <2> QED BY <1>15, <2>1 DEF ListOverduePaused, Recover
<1>16. CASE u = Enforcer /\ Listen
  BY <1>0, <1>16 DEF Listen
<1> QED BY <1>1, <1>2, <1>3, <1>4, <1>5, <1>6, <1>7, <1>8, <1>9, <1>10, <1>11, <1>12, <1>13,
           <1>14, <1>15, <1>16 DEF Does, Request, Continue, EnforcerStep

\* What holds under every interleaving holds under careful use.
\* Careful executions are executions, so they are well typed too.
LEMMA TypeCorrectCareful == CarefulSpec => []TypeOK
<1>1. [CarefulNext]_vars => [Next]_vars
  BY DEF CarefulNext
<1> QED BY <1>1, TypeCorrect, PTL DEF CarefulSpec, Spec

\* A step is one of a worker, a restart of the process, or the clock's.
LEMMA StepKinds ==
  ASSUME [Next]_vars
  PROVE  (\E u \in Workers : Does(u)) \/ Restart \/ Tick \/ UNCHANGED vars
BY DEF Next, Does, Workers

\* As long as no two workers are at one device, what a worker has on its list
\* stays as it is until the worker itself goes on or the process stops.
LEMMA Bystander ==
  ASSUME TypeOK, OneAtATime, [CarefulNext]_vars, NEW t \in Workers
  PROVE  \/ Does(t)
         \/ Restart
         \/ /\ th'[t] = th[t] /\ now' \in {now, now + 1}
            /\ \A d \in Devices \cap Devs(th[t]) :
                 row'[d] = row[d] /\ owed'[d] <= owed[d] /\ (d \in open' <=> d \in open)
<1>0. [Next]_vars /\ \A d \in Devices : owed[d] \in Nat
  BY DEF CarefulNext, TypeOK
<1>1. CASE \E u \in Workers : Does(u)
  <2>1. PICK u \in Workers : Does(u)
    BY <1>1
  <2>2. CASE u # t
    <3>1. CASE UNCHANGED vars
      BY <1>0, <3>1 DEF vars
    <3>2. CASE OneAtATime'
      <4>1. th'[t] = th[t]
        BY <2>1, <2>2, OwnDevices
      <4>2. Devs(th'[t]) = Devs(th[t])
        BY <4>1
      <4>3. Devs(th[t]) \cap Devs(th[u]) = {}
        BY <2>2 DEF OneAtATime
      <4>4. Devs(th'[t]) \cap Devs(th'[u]) = {}
        BY <2>2, <3>2 DEF OneAtATime, Workers
      <4> QED BY <1>0, <2>1, <4>1, <4>2, <4>3, <4>4, OwnDevices
    <3> QED BY <3>1, <3>2 DEF CarefulNext
  <2> QED BY <2>1, <2>2
<1>2. CASE Tick
  BY <1>0, <1>2, LaterType DEF Tick
<1>3. CASE UNCHANGED vars
  BY <1>0, <1>3 DEF vars
<1> QED BY <1>0, <1>1, <1>2, <1>3, StepKinds

\* What a Pause is about to bank, and a Resume to give back, covers the debt.
Carried ==
  \A t \in Workers : th[t].pc \in {"pause", "resume"} =>
    \A r \in th[t].todo : owed[r.dev] <= th[t].bank

\* A step that leads to the second statement of a Pause or a Resume is its first.
LEMMA Selects ==
  ASSUME TypeOK, NEW t \in Workers, Does(t), th'[t].pc \in {"pause", "resume"}
  PROVE  \E d \in Devices : PauseSelect(t, d) \/ ResumeSelect(t, d)
<1>1. ASSUME NEW pc \in PCs \ {"pause", "resume"}, NEW todo, Work(t, pc, todo)
      PROVE  FALSE
  <2>1. th'[t].pc \in {pc, "idle", "list", "listen", "recover"}
    BY <1>1 DEF Work, Finished, Idle, TypeOK
  <2> QED BY <2>1
<1>2. ~ForceExpire(t) /\ ~(t = Enforcer /\ Listen) /\ ~DeleteRow(t)
  <2>1. ASSUME ForceExpire(t)
        PROVE  FALSE
    <3>1. PICK r \in th[t].todo :
            th' = [th EXCEPT ![t].pc = "forced", ![t].cur = {r}, ![t].todo = @ \ {r}]
      BY <2>1 DEF ForceExpire
    <3>2. th'[t].pc = "forced"
      BY <3>1 DEF TypeOK, Worker
    <3> QED BY <3>2
  <2> QED BY <2>1 DEF Listen, DeleteRow, Idle, TypeOK
<1>3. CASE Request(t)
  BY <1>1, <1>3 DEF Request, ExpireOverdueSessions, Credit, Extend, End, EditRead, DeleteRead, PCs
<1>4. ~Continue(t)
  <2>1. ~Auth(t) /\ ~Unauth(t) /\ ~UnauthForced(t)
    BY <1>1 DEF Auth, Unauth, UnauthForced, PCs
  <2>2. ~PauseUpdate(t) /\ ~ResumeUpdate(t)
    BY <1>1 DEF PauseUpdate, ResumeUpdate, PCs
  <2>3. ~EditWrite(t) /\ ~DeleteUnauth(t)
    BY <1>1 DEF EditWrite, DeleteUnauth, PCs
  <2> QED BY <1>2, <2>1, <2>2, <2>3 DEF Continue
<1>5. ~(t = Enforcer /\ EnforcerStep)
  BY <1>1, <1>2, <1>4 DEF EnforcerStep, ExpireOverdueSessions, ListOverduePaused, Recover, PCs
<1> QED BY <1>3, <1>4, <1>5 DEF Does

\* Carried is preserved: what Pause or Resume carries was read from a row no other
\* worker touches before the UPDATE.
LEMMA CarriedStep ==
  ASSUME TypeOK, TypeOK', DbZone >= 0, OneAtATime, TimeKept, Carried, [CarefulNext]_vars
  PROVE  Carried'
<1> SUFFICES ASSUME NEW t \in Workers, th'[t].pc \in {"pause", "resume"}, NEW r \in th'[t].todo
             PROVE  owed'[r.dev] <= th'[t].bank
  BY DEF Carried, Workers
<1>0. /\ row \in [Devices -> Row] /\ owed \in [Devices -> Nat] /\ th[t] \in Worker
      /\ now \in Nat /\ DbZone \in Int
  BY LimitsAssumption, ZoneAssumption DEF TypeOK
<1>1. CASE Restart
  BY <1>1 DEF Restart, Idle
<1>2. CASE Does(t)
  <2>1. PICK d \in Devices : PauseSelect(t, d) \/ ResumeSelect(t, d)
    BY <1>2, Selects
  <2>2. owed[d] <= Left(row[d]) /\ row[d] \in Row
    BY <1>0 DEF TimeKept
  <2>3. CASE PauseSelect(t, d)
    <3>1. /\ th'[t].todo = {RefOf(d)} /\ owed' = owed /\ Running(row[d])
          /\ th'[t].bank = Later(row[d].exp + DbZone - now, 0)
      BY <2>3 DEF PauseSelect, TypeOK
    <3>2. r.dev = d
      BY <3>1 DEF RefOf
    <3>3. owed[d] <= row[d].exp - now
      BY <2>2, <3>1 DEF Left, Running
    <3>4. row[d].exp + DbZone - now \in Int /\ row[d].exp \in Nat
      BY <1>0, <2>2 DEF Row
    <3>5. th'[t].bank >= row[d].exp + DbZone - now /\ th'[t].bank \in Int
      BY <3>1, <3>4, LaterType
    <3> QED BY <1>0, <3>1, <3>2, <3>3, <3>4, <3>5
  <2>4. CASE ResumeSelect(t, d)
    <3>1. /\ th'[t].todo = {RefOf(d)} /\ owed' = owed /\ Active(row[d]) /\ row[d].paused
          /\ th'[t].bank = row[d].bank
      BY <2>4 DEF ResumeSelect, Idle, TypeOK
    <3>2. r.dev = d
      BY <3>1 DEF RefOf
    <3>3. Left(row[d]) = row[d].bank
      BY <3>1 DEF Left, Running
    <3> QED BY <2>2, <3>1, <3>2, <3>3
  <2> QED BY <2>1, <2>3, <2>4
<1>3. CASE /\ th'[t] = th[t]
           /\ \A d \in Devices \cap Devs(th[t]) : owed'[d] <= owed[d]
  <2>1. r \in th[t].todo /\ owed[r.dev] <= th[t].bank
    BY <1>3 DEF Carried
  <2>2. r.dev \in Devices \cap Devs(th[t])
    BY <1>0, <2>1 DEF Worker, Ref, Devs
  <2>3. owed'[r.dev] <= owed[r.dev] /\ owed[r.dev] \in Nat /\ th[t].bank \in Nat
    BY <1>0, <1>3, <2>2 DEF Worker
  <2>4. owed'[r.dev] \in Int
    BY <1>0, <2>2 DEF TypeOK
  <2> QED BY <1>3, <2>1, <2>3, <2>4
<1> QED BY <1>1, <1>2, <1>3, Bystander

\* What one statement, or the passing of time, does to a row keeps the debt
\* covered, if a Pause banks at least the debt and nobody pays during a pause.
LEMMA RowKeepsTime ==
  ASSUME TypeOK, TypeOK', NEW d \in Devices, RowStep(d), Carried,
         owed[d] <= Left(row[d]),
         Active(row[d]) /\ row[d].paused => owed'[d] <= owed[d]
  PROVE  owed'[d] <= Left(row[d])'
<1> DEFINE r == row[d]
           s == row'[d]
           o == owed[d]
           p == owed'[d]
<1>0. /\ RowChange(d, r, s, o, p) /\ r \in Row /\ s \in Row /\ o \in Nat /\ p \in Nat
      /\ now \in Nat /\ now' \in Nat /\ o <= Left(r)
      /\ Active(r) /\ r.paused => p <= o
      /\ \A t \in Workers : th[t].bank \in Nat
  BY LimitsAssumption DEF RowStep, TypeOK, Worker
<1>1. /\ r.status = "active" /\ r.paused => o <= r.bank
      /\ r.status = "active" /\ ~r.paused /\ r.exp > now => o <= r.exp - now
      /\ ~(r.status = "active" /\ (r.paused \/ r.exp > now)) => o = 0
  BY <1>0 DEF Left, Running, Active
<1>2. ASSUME /\ s.status = "active" /\ s.paused => p <= s.bank
             /\ s.status = "active" /\ ~s.paused /\ s.exp > now' => p <= s.exp - now'
             /\ ~(s.status = "active" /\ (s.paused \/ s.exp > now')) => p = 0
      PROVE  p <= Left(row[d])'
  BY <1>0, <1>2 DEF Left, Running, Active
<1> DEFINE Covered == /\ s.status = "active" /\ s.paused => p <= s.bank
                      /\ s.status = "active" /\ ~s.paused /\ s.exp > now' => p <= s.exp - now'
                      /\ ~(s.status = "active" /\ (s.paused \/ s.exp > now')) => p = 0
<1> SUFFICES Covered
  BY <1>2
<1> HIDE DEF r, s, o, p
<1>3. CASE s = r /\ p = o /\ now' = now
  BY <1>0, <1>1, <1>3 DEF Row
<1>4. CASE Frozen(d, r, s) /\ p = o
  <2>1. PICK t \in Workers : /\ th[t].pc = "pause" /\ RefOf(d) \in th[t].todo
                             /\ s = PausedRow(r, th[t].bank, th[t].deadline)
    BY <1>4 DEF Frozen
  <2>2. o <= th[t].bank
    BY <2>1, RefDevs DEF Carried, o
  <2>3. s.status = r.status /\ s.paused /\ s.bank = th[t].bank /\ r.status = "active"
    BY <1>0, <1>4, <2>1 DEF PausedRow, Row, Frozen, Running, Active
  <2> QED BY <1>4, <2>2, <2>3
<1>5. CASE Thawed(d, r, s) /\ p = o /\ now' = now
  <2>1. PICK t \in Workers : /\ th[t].pc = "resume" /\ RefOf(d) \in th[t].todo
                             /\ s = ResumedRow(r, now + th[t].bank)
    BY <1>5 DEF Thawed
  <2>2. o <= th[t].bank
    BY <2>1, RefDevs DEF Carried, o
  <2>3. ~s.paused /\ s.exp = now + th[t].bank
    BY <1>0, <2>1 DEF ResumedRow, Row
  <2>4. s.status = "active"
    BY <1>0, <1>5, <2>1 DEF ResumedRow, Row, Thawed, Active
  <2> QED BY <1>0, <1>5, <2>2, <2>3, <2>4
<1>6. CASE Bought(r, s, o, p) /\ now' = now
  <2>1. PICK n \in Minutes :
          /\ p = o + n
          /\ \/ \E rate \in Rates : s = Credited(r, n, rate)
             \/ Active(r) /\ s = [r EXCEPT !.exp = Later(r.exp, now) + n]
    BY <1>6 DEF Bought
  <2>2. n \in Nat /\ n > 0
    BY MinutesAssumption
  <2>3. ~(r.status = "active" /\ r.paused)
    BY <1>0, <2>1, <2>2 DEF Active
  <2>4. CASE \E rate \in Rates : s = Credited(r, n, rate)
    <3>1. PICK rate \in Rates : s = Credited(r, n, rate)
      BY <2>4
    <3>2. \A id \in Nat : /\ Fresh(id, n, rate).status = "active" /\ ~Fresh(id, n, rate).paused
                          /\ Fresh(id, n, rate).exp = now + n
      BY DEF Fresh, NoRow
    <3>3. CASE Active(r) /\ r.exp > now
      <4>1. s = [r EXCEPT !.exp = r.exp + n]
        BY <3>1, <3>3 DEF Credited
      <4>2. s.status = "active" /\ ~s.paused /\ s.exp = r.exp + n
        BY <1>0, <2>3, <3>3, <4>1 DEF Row, Active
      <4> QED BY <1>0, <1>1, <1>6, <2>1, <2>2, <2>3, <3>3, <4>2 DEF Row, Active
    <3>4. CASE ~(Active(r) /\ r.exp > now)
      <4>1. s.status = "active" /\ ~s.paused /\ s.exp = now + n
        BY <1>0, <3>1, <3>2, <3>4 DEF Credited, Row
      <4>2. o = 0
        BY <1>1, <2>3, <3>4 DEF Active
      <4> QED BY <1>0, <1>6, <2>1, <2>2, <4>1, <4>2
    <3> QED BY <3>3, <3>4
  <2>5. CASE Active(r) /\ s = [r EXCEPT !.exp = Later(r.exp, now) + n]
    <3>1. s.status = "active" /\ ~s.paused /\ s.exp = Later(r.exp, now) + n
      BY <1>0, <2>3, <2>5 DEF Row, Active
    <3>2. r.exp \in Nat
      BY <1>0 DEF Row
    <3>3. CASE r.exp > now
      <4>1. s.exp = r.exp + n /\ o <= r.exp - now
        BY <1>0, <1>1, <2>3, <2>5, <3>1, <3>2, <3>3 DEF Later, Active
      <4> QED BY <1>0, <1>6, <2>1, <2>2, <3>1, <3>2, <4>1
    <3>4. CASE ~(r.exp > now)
      <4>1. s.exp = now + n /\ o = 0
        BY <1>0, <1>1, <2>3, <2>5, <3>1, <3>2, <3>4 DEF Later
      <4> QED BY <1>0, <1>6, <2>1, <2>2, <3>1, <4>1
    <3> QED BY <3>3, <3>4
  <2> QED BY <2>1, <2>4, <2>5
<1>7. CASE p = 0
  BY <1>0, <1>7 DEF Row
<1>8. CASE Edited(r, s, o, p) /\ now' = now
  <2>1. PICK st \in EditStatuses : s = [r EXCEPT !.status = st] /\ p = IF st = "active" THEN o ELSE 0
    BY <1>8 DEF Edited
  <2>2. CASE st = "active"
    <3>1. s.status = "active" /\ s.paused = r.paused /\ s.bank = r.bank /\ s.exp = r.exp /\ p = o
      BY <1>0, <2>1, <2>2 DEF Row
    <3> QED BY <1>0, <1>1, <1>8, <3>1 DEF Row
  <2> QED BY <1>7, <2>1, <2>2
<1>9. CASE s = r /\ now' = now + 1 /\ p = IF Running(r) THEN Later(o - 1, 0) ELSE o
  <2>1. CASE Running(r)
    BY <1>0, <1>1, <1>9, <2>1 DEF Running, Active, Later, Row
  <2>2. CASE ~Running(r)
    BY <1>0, <1>1, <1>9, <2>2 DEF Running, Active, Row
  <2> QED BY <2>1, <2>2
<1> QED BY <1>0, <1>3, <1>4, <1>5, <1>6, <1>7, <1>8, <1>9 DEF RowChange, Lost, Ended, Deleted

\* Paid time is kept: with no two requests for one device at a time, no payment
\* during a pause and a database whose local time is not behind UTC, whatever is
\* owed to a customer is left on the row, for any number of customers, requests,
\* failing commands and restarts.
THEOREM PaidTimeKept ==
  ASSUME DbZone >= 0
  PROVE  CarefulSpec => []TimeKept
<1> DEFINE Inv == OneAtATime /\ Carried /\ TimeKept
<1>1. Init => Inv
  BY NoRowType DEF Init, OneAtATime, Devs, Idle, Carried, TimeKept, Left, Active, Running, NoRow
<1>2. TypeOK /\ TypeOK' /\ Inv /\ [CarefulNext]_vars => Inv'
  <2> SUFFICES ASSUME TypeOK, TypeOK', Inv, [CarefulNext]_vars
               PROVE  Inv'
    OBVIOUS
  <2>1. OneAtATime'
    BY DEF CarefulNext, OneAtATime, vars, Devs
  <2>2. Carried'
    BY CarriedStep
  <2>3. TimeKept'
    <3> SUFFICES ASSUME NEW d \in Devices
                 PROVE  owed'[d] <= Left(row[d])'
      BY DEF TimeKept
    <3>1. RowStep(d) /\ owed[d] \in Nat
      BY RowSteps DEF CarefulNext, TypeOK
    <3>2. Active(row[d]) /\ row[d].paused => owed'[d] <= owed[d]
      BY <3>1 DEF CarefulNext, NothingPaidWhilePaused, vars
    <3> QED BY <3>1, <3>2, RowKeepsTime DEF TimeKept
  <2> QED BY <2>1, <2>2, <2>3
<1>3. CarefulSpec => []Inv
  BY <1>1, <1>2, TypeCorrectCareful, PTL DEF CarefulSpec
<1> QED BY <1>3, PTL

----------------------------------------------------------------------------
\* A row listed for forced expiry is one whose pause window has elapsed, for as
\* long as it is on the list.
Doomed ==
  \A t \in Workers : th[t].pc \in {"force", "forced"} =>
    \A r \in th[t].todo : Exists(r) /\ Active(row[r.dev]) => Elapsed(row[r.dev])

\* How a worker comes to have rows to force.
LEMMA Forces ==
  ASSUME TypeOK, NEW t \in Workers, Does(t), th'[t].pc \in {"force", "forced"}
  PROVE  \/ \E d \in Devices : ResumeSelect(t, d)
         \/ t = Enforcer /\ ListOverduePaused
         \/ ForceExpire(t)
         \/ UnauthForced(t)
<1>1. ASSUME NEW pc \in PCs \ {"force", "forced"}, NEW todo, Work(t, pc, todo)
      PROVE  FALSE
  <2>1. th'[t].pc \in {pc, "idle", "list", "listen", "recover"}
    BY <1>1 DEF Work, Finished, Idle, TypeOK
  <2> QED BY <2>1
<1>2. ~(t = Enforcer /\ Listen) /\ ~DeleteRow(t) /\ \A d \in Devices : ~PauseSelect(t, d)
  BY DEF Listen, DeleteRow, PauseSelect, Idle, TypeOK
<1>3. ~(t \in Threads /\ Request(t)) \/ \E d \in Devices : ResumeSelect(t, d)
  BY <1>1, <1>2 DEF Request, ExpireOverdueSessions, Credit, Extend, End, EditRead, DeleteRead, PCs
<1>4. Continue(t) => ForceExpire(t) \/ UnauthForced(t)
  <2>1. ~Auth(t) /\ ~Unauth(t)
    BY <1>1 DEF Auth, Unauth, PCs
  <2>2. ~PauseUpdate(t) /\ ~ResumeUpdate(t)
    BY <1>1 DEF PauseUpdate, ResumeUpdate, PCs
  <2>3. ~EditWrite(t) /\ ~DeleteUnauth(t)
    BY <1>1 DEF EditWrite, DeleteUnauth, PCs
  <2> QED BY <1>2, <2>1, <2>2, <2>3 DEF Continue
<1>5. t = Enforcer /\ EnforcerStep => ListOverduePaused \/ ForceExpire(t) \/ UnauthForced(t)
  BY <1>1, <1>2, <1>4 DEF EnforcerStep, ExpireOverdueSessions, Recover, PCs
<1> QED BY <1>3, <1>4, <1>5 DEF Does

\* Doomed is preserved: only the worker that listed the row could write to it, and
\* the clock only goes on.
LEMMA DoomedStep ==
  ASSUME TypeOK, OneAtATime, Doomed, [CarefulNext]_vars
  PROVE  Doomed'
<1> SUFFICES ASSUME NEW t \in Workers, th'[t].pc \in {"force", "forced"}, NEW r \in th'[t].todo,
                    Exists(r)', Active(row'[r.dev])
             PROVE  Elapsed(row[r.dev])'
  BY DEF Doomed, Workers
<1>0. /\ row \in [Devices -> Row] /\ th[t] \in Worker /\ now \in Nat
      /\ \A d \in Devices : row[d].deadline \in Nat
  BY LimitsAssumption DEF TypeOK, Row
<1>1. CASE Restart
  BY <1>1 DEF Restart, Idle
<1>2. CASE Does(t)
  <2>0. now' = now
    BY <1>2, OwnDevices
  <2>1. ASSUME NEW d \in Devices, ResumeSelect(t, d)
        PROVE  Elapsed(row[r.dev])'
    <3>1. th'[t] = [Idle EXCEPT !.pc = IF row[d].deadline # 0 /\ row[d].deadline < now
                                       THEN "force" ELSE "resume",
                                !.todo = {RefOf(d)}, !.bank = row[d].bank]
      BY <2>1 DEF ResumeSelect, TypeOK
    <3>2. /\ row[d].deadline # 0 /\ row[d].deadline < now /\ r = RefOf(d)
      BY <3>1 DEF Idle
    <3>3. r.dev = d /\ row' = row /\ Active(row[d]) /\ row[d].paused
      BY <2>1, <3>2 DEF ResumeSelect, RefOf
    <3> QED BY <1>0, <2>0, <3>2, <3>3 DEF Elapsed
  <2>2. CASE t = Enforcer /\ ListOverduePaused
    <3>1. th'[t].todo = Refs({d \in Devices : Elapsed(row[d])}) \/ th'[t].todo = {}
      BY <2>2 DEF ListOverduePaused, Work, Finished, Idle, TypeOK
    <3>2. Elapsed(row[r.dev]) /\ row' = row
      BY <2>2, <3>1 DEF ListOverduePaused, Refs, RefOf
    <3> QED BY <2>0, <3>2 DEF Elapsed
  <2>3. CASE ForceExpire(t)
    <3>1. PICK q \in th[t].todo :
            /\ th[t].pc = "force"
            /\ th' = [th EXCEPT ![t].pc = "forced", ![t].cur = {q}, ![t].todo = @ \ {q}]
            /\ IF Exists(q) /\ Active(row[q.dev])
                 THEN row' = [row EXCEPT ![q.dev] = ForfeitedRow(@)]
                 ELSE row' = row
      BY <2>3 DEF ForceExpire
    <3>2. th'[t].todo = th[t].todo \ {q}
      BY <1>0, <3>1 DEF TypeOK, Worker
    <3>3. r \in th[t].todo /\ r.dev \in Devices /\ q.dev \in Devices
      BY <1>0, <3>2 DEF Worker, Ref
    <3>4. row'[r.dev] = row[r.dev]
      <4>1. r.dev = q.dev => ~Active(ForfeitedRow(row[r.dev]))
        BY <1>0, <3>3 DEF ForfeitedRow, Active, Row
      <4> QED BY <1>0, <3>1, <3>3, <4>1
    <3>5. Elapsed(row[r.dev])
      BY <3>1, <3>3, <3>4 DEF Doomed, Exists
    <3> QED BY <2>0, <3>4, <3>5 DEF Elapsed
  <2>4. CASE UnauthForced(t)
    <3>1. th'[t].todo \subseteq th[t].todo /\ row' = row /\ th[t].pc = "forced"
      BY <2>4 DEF UnauthForced, Work, Finished, Idle, TypeOK
    <3>2. r \in th[t].todo
      BY <3>1
    <3>3. Elapsed(row[r.dev])
      BY <3>1, <3>2 DEF Doomed, Exists
    <3> QED BY <2>0, <3>1, <3>3 DEF Elapsed
  <2> QED BY <1>2, <2>1, <2>2, <2>3, <2>4, Forces
<1>3. CASE /\ th'[t] = th[t] /\ now' \in {now, now + 1}
           /\ \A d \in Devices \cap Devs(th[t]) : row'[d] = row[d]
  <2>1. r \in th[t].todo /\ r.dev \in Devices \cap Devs(th[t])
    BY <1>0, <1>3 DEF Worker, Ref, Devs
  <2>2. row'[r.dev] = row[r.dev] /\ Elapsed(row[r.dev])
    BY <1>3, <2>1 DEF Doomed, Exists
  <2> QED BY <1>0, <1>3, <2>1, <2>2 DEF Elapsed
<1> QED BY <1>1, <1>2, <1>3, Bystander

\* Nobody is cut off early: an expiry ends a session only when its time has run
\* out or its pause window has elapsed, for any number of customers and requests,
\* as long as no two workers are at one device.
THEOREM ExpiryIsDue == CarefulSpec => ForfeitsOnlyWhenDue
<1> DEFINE Inv == OneAtATime /\ Doomed
           Fair == \A t \in Workers : ForceExpire(t) \/ ExpireOverdueSessions(t) =>
                     \A d \in Devices : Expires(d) => Due(d)
<1>1. Init => Inv
  BY DEF Init, OneAtATime, Devs, Idle, Doomed
<1>2. TypeOK /\ Inv /\ [CarefulNext]_vars => Inv'
  BY DoomedStep DEF CarefulNext, OneAtATime, vars, Devs
<1>3. TypeOK /\ Inv /\ [CarefulNext]_vars => [Fair]_vars
  <2> SUFFICES ASSUME TypeOK, Inv, NEW t \in Workers, ForceExpire(t) \/ ExpireOverdueSessions(t),
                      NEW d \in Devices, Expires(d)
               PROVE  Due(d)
    BY Zenon
  <2>0. row \in [Devices -> Row]
    BY DEF TypeOK
  <2>1. CASE ForceExpire(t)
    <3>1. PICK r \in th[t].todo :
            /\ th[t].pc = "force"
            /\ IF Exists(r) /\ Active(row[r.dev])
                 THEN row' = [row EXCEPT ![r.dev] = ForfeitedRow(@)]
                 ELSE row' = row
      BY <2>1 DEF ForceExpire
    <3>2. row'[d] # row[d]
      BY DEF Expires
    <3>3. d = r.dev /\ Exists(r) /\ Active(row[d])
      BY <2>0, <3>1, <3>2
    <3> QED BY <3>1, <3>3 DEF Doomed, Due
  <2>2. CASE ExpireOverdueSessions(t)
    BY <2>2 DEF ExpireOverdueSessions, Expires, Due, Lapsed
  <2> QED BY <2>1, <2>2
<1>4. CarefulSpec => []Inv
  BY <1>1, <1>2, TypeCorrectCareful, PTL DEF CarefulSpec
<1> QED BY <1>3, <1>4, TypeCorrectCareful, PTL DEF CarefulSpec, ForfeitsOnlyWhenDue

----------------------------------------------------------------------------
(***************************************************************************)
(* Row and firewall agree.  Where the workers stand: the enforcer starts   *)
(* the server at the end of its first passes, and whoever has a list of    *)
(* rows has rows that are there.                                           *)
(***************************************************************************)
Resting == {"idle", "list", "recover", "listen"}
Phase ==
  /\ serving => th[Enforcer].pc \notin {"recover", "auth", "listen"}
  /\ ~serving => \A t \in Threads : th[t] = Idle
  /\ \A t \in Threads : th[t].pc \notin {"list", "recover", "listen"}
  /\ th[Enforcer].pc \in Resting \cup {"auth", "unauth", "force", "forced"}
OwnList(t) ==
  /\ th[t].pc \in Resting => th[t].todo = {}
  /\ th[t].pc # "forced" => th[t].cur = {}
  /\ th[t].pc = "forced" => \E r \in th[t].cur : th[t].cur = {r}
  /\ \A r \in th[t].todo \cup th[t].cur : Exists(r)
Lists == \A t \in Workers : OwnList(t)

\* What a worker has after it took up a list.
LEMMA WorkLists ==
  ASSUME TypeOK, NEW u \in Workers, NEW pc, NEW todo, Work(u, pc, todo)
  PROVE  /\ th'[u].todo = todo /\ th'[u].cur = {}
         /\ todo # {} => th'[u].pc = pc
         /\ todo = {} => th'[u] = Finished(u, pc)
BY DEF Work, Finished, Idle, TypeOK

\* Phase is preserved: the server opens only after the recovery of the enforcer.
LEMMA PhaseStep ==
  ASSUME TypeOK, Phase, [Next]_vars
  PROVE  Phase'
<1>0. th \in [Workers -> Worker] /\ Enforcer \in Workers /\ Threads \subseteq Workers
      /\ Enforcer \notin Threads
  BY EnforcerAssumption DEF TypeOK, Workers
<1> USE DEF world
<1>1. ASSUME NEW u \in Workers, NEW pc \in PCs, NEW todo, Work(u, pc, todo), serving' = serving,
             u # Enforcer => pc \notin {"list", "recover", "listen"},
             u # Enforcer => serving,
             u = Enforcer => pc \in {"unauth", "force"} \/ (~serving /\ pc = "auth")
      PROVE  Phase'
  <2>1. \A t \in Workers \ {u} : th'[t] = th[t]
    BY <1>1, WorkDevs
  <2>2. th'[u].pc = pc \/ th'[u] = Finished(u, pc)
    BY <1>1, WorkLists
  <2>3. CASE u = Enforcer
    <3>1. /\ serving => th'[u].pc \notin {"recover", "auth", "listen"}
          /\ th'[u].pc \in Resting \cup {"auth", "unauth", "force", "forced"}
      BY <1>1, <2>2, <2>3 DEF Finished, Idle, Phase, Resting
    <3> QED BY <1>0, <1>1, <2>1, <2>3, <3>1 DEF Phase
  <2>4. CASE u # Enforcer
    <3>1. th'[u].pc \notin {"list", "recover", "listen"}
      BY <1>1, <2>2, <2>4 DEF Finished, Idle, Phase
    <3> QED BY <1>0, <1>1, <2>1, <2>4, <3>1 DEF Phase
  <2> QED BY <2>3, <2>4
<1>2. ASSUME NEW u \in Workers, Does(u)
      PROVE  Phase'
  <2>0. u # Enforcer => (th[u].pc # "idle" => serving)
    BY <1>0 DEF Phase, Idle, Workers
  <2>1. CASE u \in Threads /\ Request(u)
    <3>1. ASSUME NEW d \in Devices, PauseSelect(u, d) \/ ResumeSelect(u, d)
          PROVE  Phase'
      <4>1. /\ \A t \in Workers \ {u} : th'[t] = th[t]
            /\ serving /\ serving' = serving
        BY <1>0, <3>1 DEF PauseSelect, ResumeSelect, Accepts
      <4>2. th'[u].pc \in {"pause", "force", "resume"}
        <5>1. CASE PauseSelect(u, d)
          BY <1>0, <5>1 DEF PauseSelect
        <5>2. CASE ResumeSelect(u, d)
          <6> DEFINE pc == IF row[d].deadline # 0 /\ row[d].deadline < now THEN "force" ELSE "resume"
          <6>1. th'[u] = [Idle EXCEPT !.pc = pc, !.todo = {RefOf(d)}, !.bank = row[d].bank]
            BY <1>0, <5>2 DEF ResumeSelect
          <6>2. th'[u].pc = pc
            BY <6>1 DEF Idle
          <6> QED BY <6>2
        <5> QED BY <3>1, <5>1, <5>2
      <4> QED BY <1>0, <2>1, <4>1, <4>2 DEF Phase
    <3> QED BY <1>0, <1>1, <2>1, <3>1
            DEF Request, ExpireOverdueSessions, Credit, Extend, End, EditRead, DeleteRead,
                Accepts, PCs
  <2>2. CASE Continue(u)
    <3>1. CASE ForceExpire(u)
      <4>1. PICK q \in th[u].todo :
              th' = [th EXCEPT ![u].pc = "forced", ![u].cur = {q}, ![u].todo = @ \ {q}]
        BY <3>1 DEF ForceExpire
      <4>2. /\ \A t \in Workers \ {u} : th'[t] = th[t]
            /\ th'[u].pc = "forced" /\ th[u].pc = "force" /\ serving' = serving
        BY <1>0, <3>1, <4>1 DEF ForceExpire, Worker
      <4> QED BY <1>0, <2>0, <4>2 DEF Phase, Workers, Resting
    <3>2. CASE u # Enforcer /\ DeleteRow(u)
      BY <1>0, <2>0, <3>2 DEF DeleteRow, Phase, Idle
    <3>3. CASE Auth(u)
      BY <1>0, <1>1, <2>0, <3>3 DEF Auth, Phase, PCs
    <3>4. CASE Unauth(u)
      BY <1>0, <1>1, <2>0, <3>4 DEF Unauth, PCs
    <3>5. CASE UnauthForced(u)
      BY <1>0, <1>1, <2>0, <3>5 DEF UnauthForced, PCs
    <3>6. CASE u # Enforcer /\ (PauseUpdate(u) \/ ResumeUpdate(u) \/ EditWrite(u) \/ DeleteUnauth(u))
      BY <1>0, <1>1, <2>0, <3>6 DEF PauseUpdate, ResumeUpdate, EditWrite, DeleteUnauth, PCs
    <3>7. u = Enforcer =>
            ~(PauseUpdate(u) \/ ResumeUpdate(u) \/ EditWrite(u) \/ DeleteUnauth(u) \/ DeleteRow(u))
      BY DEF PauseUpdate, ResumeUpdate, EditWrite, DeleteUnauth, DeleteRow, Phase, Resting
    <3> QED BY <2>2, <3>1, <3>2, <3>3, <3>4, <3>5, <3>6, <3>7 DEF Continue
  <2>3. CASE u = Enforcer /\ EnforcerStep
    <3>1. CASE Listen
      BY <1>0, <3>1 DEF Listen, Phase, Idle, Resting
    <3>2. CASE Recover
      <4>1. ~serving
        BY <3>2 DEF Recover, Phase
      <4> QED BY <1>0, <1>1, <3>2, <4>1 DEF Recover, PCs
    <3> QED BY <1>0, <1>1, <2>2, <2>3, <3>1, <3>2
            DEF EnforcerStep, ExpireOverdueSessions, ListOverduePaused, PCs
  <2> QED BY <1>2, <2>1, <2>2, <2>3 DEF Does
<1>3. CASE Restart
  BY <1>0, <1>3 DEF Restart, Phase, Idle, Resting
<1>4. CASE Tick \/ UNCHANGED vars
  BY <1>4 DEF Tick, vars, Phase, Resting
<1> QED BY <1>2, <1>3, <1>4, StepKinds

\* A worker's list stays one of rows that are there.
LEMMA OwnListStep ==
  ASSUME TypeOK, Lists, NEW u \in Workers, Does(u)
  PROVE  OwnList(u)'
<1>0. /\ row \in [Devices -> Row] /\ th \in [Workers -> Worker] /\ th[u] \in Worker
      /\ OwnList(u) /\ \A d \in Devices : row[d] \in Row
      /\ \A r \in th[u].todo \cup th[u].cur : r \in Ref /\ r.dev \in Devices
  BY DEF TypeOK, Lists, Worker, Ref
<1>1. ASSUME NEW pc \in PCs \ (Resting \cup {"forced"}), NEW todo, Work(u, pc, todo),
             \A r \in todo : Exists(r)'
      PROVE  OwnList(u)'
  <2>1. /\ th'[u].todo = todo /\ th'[u].cur = {}
        /\ todo # {} => th'[u].pc = pc
    BY <1>1, WorkLists
  <2>2. todo = {} => th'[u].pc \notin {"forced"}
    <3>1. Finished(u, pc).pc \in {"idle", "list", "listen", "recover"}
      BY DEF Finished, Idle
    <3> QED BY <1>1, <3>1, WorkLists
  <2> QED BY <1>1, <2>1, <2>2 DEF OwnList
<1>2. ASSUME NEW d \in Devices, row'[d].status # "none", row'[d].id = row[d].id,
             NEW r \in {RefOf(d)}
      PROVE  Exists(r)'
  BY <1>2 DEF Exists, RefOf
<1>3. ASSUME row' = row, NEW r \in th[u].todo \cup th[u].cur
      PROVE  Exists(r)'
  BY <1>0, <1>3 DEF OwnList, Exists
<1>4. CASE ExpireOverdueSessions(u)
  <2>1. \A d \in Lapsed : d \in Devices /\ row'[d].status # "none" /\ row'[d].id = row[d].id
    BY <1>0, <1>4 DEF ExpireOverdueSessions, Lapsed, Row
  <2>2. \A r \in Refs(Lapsed) : Exists(r)'
    BY <2>1 DEF Refs, RefOf, Exists
  <2> QED BY <1>1, <1>4, <2>2 DEF ExpireOverdueSessions, PCs, Resting
<1>5. ASSUME NEW c \in Devices, NEW n \in Minutes, NEW rate \in Rates, Credit(u, c, n, rate)
      PROVE  OwnList(u)'
  <2> DEFINE q == Credited(row[c], n, rate)
  <2>1. q.status = "active"
    BY <1>0 DEF Credited, Fresh, NoRow, Active, Row
  <2>2. row'[c] = q /\ Work(u, "auth", {[dev |-> c, id |-> q.id]})
    BY <1>0, <1>5 DEF Credit
  <2> HIDE DEF q
  <2>3. \A r \in {[dev |-> c, id |-> q.id]} : Exists(r)'
    BY <2>1, <2>2 DEF Exists
  <2> QED BY <1>1, <2>2, <2>3 DEF PCs, Resting
<1>6. ASSUME NEW c \in Devices, NEW n \in Minutes, Extend(u, c, n)
      PROVE  OwnList(u)'
  <2>1. row'[c].status # "none" /\ row'[c].id = row[c].id
    BY <1>0, <1>6 DEF Extend, Active, Row
  <2> QED BY <1>1, <1>2, <1>6, <2>1 DEF Extend, PCs, Resting
<1>7. ASSUME NEW c \in Devices, NEW s \in {"expired", "cancelled"}, End(u, c, s)
      PROVE  OwnList(u)'
  <2>1. row'[c].status # "none" /\ row'[c].id = row[c].id
    BY <1>0, <1>7 DEF End, Row
  <2> QED BY <1>1, <1>2, <1>7, <2>1 DEF End, PCs, Resting
<1>8. ASSUME NEW c \in Devices, PauseSelect(u, c)
      PROVE  OwnList(u)'
  <2>1. th'[u].pc = "pause" /\ th'[u].todo = {RefOf(c)} /\ th'[u].cur = {} /\ row' = row
    BY <1>0, <1>8 DEF PauseSelect
  <2>2. \A r \in {RefOf(c)} : Exists(r)'
    BY <1>2, <1>8, <2>1 DEF PauseSelect, Running, Active
  <2> QED BY <2>1, <2>2 DEF OwnList, Resting
<1>9. ASSUME NEW c \in Devices, ResumeSelect(u, c)
      PROVE  OwnList(u)'
  <2> DEFINE pc == IF row[c].deadline # 0 /\ row[c].deadline < now THEN "force" ELSE "resume"
  <2>1. th'[u] = [Idle EXCEPT !.pc = pc, !.todo = {RefOf(c)}, !.bank = row[c].bank]
    BY <1>0, <1>9 DEF ResumeSelect
  <2>2. th'[u].pc = pc /\ th'[u].todo = {RefOf(c)} /\ th'[u].cur = {} /\ row' = row
    <3>1. row' = row
      BY <1>9 DEF ResumeSelect
    <3> HIDE DEF pc
    <3> QED BY <2>1, <3>1 DEF Idle
  <2>3. \A r \in {RefOf(c)} : Exists(r)'
    BY <1>2, <1>9, <2>2 DEF ResumeSelect, Active
  <2> QED BY <2>2, <2>3 DEF OwnList, Resting
<1>10. ASSUME NEW c \in Devices, EditRead(u, c) \/ DeleteRead(u, c)
       PROVE  OwnList(u)'
  <2>1. row' = row /\ row[c].status # "none"
    BY <1>10 DEF EditRead, DeleteRead
  <2>2. \A r \in {RefOf(c)} : Exists(r)'
    BY <1>2, <2>1
  <2> QED BY <1>1, <1>10, <2>2 DEF EditRead, DeleteRead, PCs, Resting
<1>11. CASE PauseUpdate(u) \/ ResumeUpdate(u)
  <2>1. PICK q \in th[u].todo : q = Sole(u)
    BY <1>11, SoleType DEF PauseUpdate, ResumeUpdate, Selecting
  <2>2. q.dev \in Devices /\ Exists(q)
    BY <1>0 DEF OwnList
  <2>3. /\ \/ row' = row
           \/ row' = [row EXCEPT ![q.dev] = PausedRow(@, th[u].bank, th[u].deadline)]
           \/ row' = [row EXCEPT ![q.dev] = ResumedRow(@, now + th[u].bank)]
        /\ \E pc \in {"auth", "unauth"}, todo \in {{}, {q}} : Work(u, pc, todo)
    BY <1>11, <2>1 DEF PauseUpdate, ResumeUpdate
  <2>4. \A r \in Row : \A b, e :
          /\ PausedRow(r, b, e).id = r.id /\ PausedRow(r, b, e).status = r.status
          /\ ResumedRow(r, e).id = r.id /\ ResumedRow(r, e).status = r.status
    BY DEF PausedRow, ResumedRow, Row
  <2>5. row'[q.dev].id = row[q.dev].id /\ row'[q.dev].status = row[q.dev].status
    BY <1>0, <2>2, <2>3, <2>4
  <2>6. \A r \in {q} : Exists(r)'
    BY <2>2, <2>5 DEF Exists
  <2> QED BY <1>1, <2>3, <2>6 DEF PCs, Resting
<1>12. CASE ForceExpire(u)
  <2>1. PICK q \in th[u].todo :
          /\ th' = [th EXCEPT ![u].pc = "forced", ![u].cur = {q}, ![u].todo = @ \ {q}]
          /\ row' = row \/ row' = [row EXCEPT ![q.dev] = ForfeitedRow(@)]
    BY <1>12 DEF ForceExpire
  <2>2. th'[u].pc = "forced" /\ th'[u].cur = {q} /\ th'[u].todo = th[u].todo \ {q}
    BY <1>0, <2>1 DEF Worker
  <2>3. \A d \in Devices : /\ row'[d].id = row[d].id
                           /\ row[d].status # "none" => row'[d].status # "none"
    <3>1. \A r \in Row : ForfeitedRow(r).id = r.id /\ ForfeitedRow(r).status = "expired"
      BY DEF ForfeitedRow, Row
    <3> QED BY <1>0, <2>1, <3>1
  <2>4. \A r \in th[u].todo : Exists(r)'
    BY <1>0, <2>3 DEF OwnList, Exists
  <2> QED BY <2>2, <2>4 DEF OwnList, Resting
<1>13. CASE Auth(u) \/ Unauth(u) \/ UnauthForced(u) \/ DeleteUnauth(u)
  <2>1. /\ row' = row
        /\ \E pc \in {"auth", "unauth", "force", "delete"}, todo \in SUBSET th[u].todo :
             Work(u, pc, todo)
    BY <1>13 DEF Auth, Unauth, UnauthForced, DeleteUnauth
  <2> QED BY <1>1, <1>3, <2>1 DEF PCs, Resting
<1>14. CASE EditWrite(u)
  <2>1. PICK q \in th[u].todo : q = Sole(u)
    BY <1>14, SoleType DEF EditWrite, Selecting
  <2>2. q.dev \in Devices /\ Exists(q)
    BY <1>0 DEF OwnList
  <2>3. PICK s \in EditStatuses :
          /\ row' = [row EXCEPT ![q.dev].status = s,
                       ![q.dev].exp = IF s \in {"expired", "cancelled"} THEN now ELSE @]
          /\ \E todo \in {{}, {q}} : Work(u, "unauth", todo)
    BY <1>14, <2>1, <2>2 DEF EditWrite
  <2>4. row'[q.dev].status = s /\ row'[q.dev].id = row[q.dev].id /\ s # "none"
    BY <1>0, <2>2, <2>3, EditAssumption DEF Row
  <2>5. \A r \in {q} : Exists(r)'
    BY <2>2, <2>4 DEF Exists
  <2> QED BY <1>1, <2>3, <2>5 DEF PCs, Resting
<1>15. CASE DeleteRow(u)
  BY <1>0, <1>15 DEF DeleteRow, Idle, OwnList
<1>16. CASE u = Enforcer /\ ListOverduePaused
  <2>1. \A r \in Refs({d \in Devices : Elapsed(row[d])}) : Exists(r)'
    BY <1>16 DEF ListOverduePaused, Refs, RefOf, Exists, Elapsed, Active
  <2> QED BY <1>1, <1>16, <2>1 DEF ListOverduePaused, PCs, Resting
<1>17. CASE u = Enforcer /\ Recover
  <2>1. \A r \in Refs({d \in Devices : Running(row[d])}) : Exists(r)'
    BY <1>17 DEF Recover, Refs, RefOf, Exists, Running, Active
  <2> QED BY <1>1, <1>17, <2>1 DEF Recover, PCs, Resting
<1>18. CASE u = Enforcer /\ Listen
  BY <1>0, <1>18 DEF Listen, Idle, OwnList
<1> QED BY <1>4, <1>5, <1>6, <1>7, <1>8, <1>9, <1>10, <1>11, <1>12, <1>13, <1>14, <1>15, <1>16,
           <1>17, <1>18 DEF Does, Request, Continue, EnforcerStep

\* Lists is preserved: with no other worker at its devices, the rows of a list stay
\* where they are until the worker is through with them.
LEMMA ListsStep ==
  ASSUME TypeOK, OneAtATime, Lists, [CarefulNext]_vars
  PROVE  Lists'
<1> SUFFICES ASSUME NEW t \in Workers
             PROVE  OwnList(t)'
  BY DEF Lists, Workers
<1>1. CASE Does(t)
  BY <1>1, OwnListStep
<1>2. CASE Restart
  BY <1>2 DEF Restart, OwnList, Idle
<1>3. CASE th'[t] = th[t] /\ \A d \in Devices \cap Devs(th[t]) : row'[d] = row[d]
  <2>1. \A r \in th[t].todo \cup th[t].cur : r.dev \in Devices \cap Devs(th[t])
    BY DEF TypeOK, Worker, Ref, Devs
  <2>2. OwnList(t)
    BY DEF Lists
  <2> QED BY <1>3, <2>1, <2>2 DEF OwnList, Exists
<1> QED BY <1>1, <1>2, <1>3, Bystander

----------------------------------------------------------------------------
(***************************************************************************)
(* What is true of a device's row and its access while nobody is at the    *)
(* device (Settled), and while a worker is about to do something to it.    *)
(***************************************************************************)
Live(d)    == Active(row[d]) /\ ~row[d].paused
Shut(d)    == d \in open => Live(d)
Opened(d)  == Running(row[d]) => d \in open
Late       == serving \/ th[Enforcer].pc \in {"auth", "listen"}
Settled(d) == Shut(d) /\ (Late => Opened(d))
Held(pc, d) ==
  /\ pc = "auth" => Live(d)
  /\ pc = "unauth" => ~Live(d)
  /\ pc \in {"pause", "resume", "editlive"} => Shut(d) /\ Opened(d)
  /\ pc = "editdead" => d \notin open /\ ~Active(row[d])
  /\ pc = "delete" => d \notin open
  /\ pc \in {"force", "forced"} => d \notin open /\ ~Live(d)
HeldAll(t) ==
  /\ \A r \in th[t].todo : Held(th[t].pc, r.dev)
  /\ \A r \in th[t].cur : ~Live(r.dev)
AccessInv ==
  faults = 0 => /\ \A d \in Devices : Quiet(d) => Settled(d)
                /\ \A t \in Workers : HeldAll(t)

\* One step of a worker: the devices it comes to, keeps and leaves.
LEMMA WorkerHolds ==
  ASSUME EditStatuses \subseteq {"expired", "cancelled"},
         TypeOK, Phase, Lists, NEW u \in Workers, Does(u), faults = 0, faults' = 0, HeldAll(u),
         NothingPaidWhilePaused,
         \A d \in Devices : d \in Devs(th'[u]) /\ d \notin Devs(th[u]) => Settled(d)
  PROVE  /\ HeldAll(u)'
         /\ \A d \in Devices : d \in Devs(th[u]) /\ d \notin Devs(th'[u]) => Settled(d)'
<1> DEFINE Leaves == \A d \in Devices : d \in Devs(th[u]) /\ d \notin Devs(th'[u]) => Settled(d)'
<1>0. /\ row \in [Devices -> Row] /\ th \in [Workers -> Worker] /\ th[u] \in Worker
      /\ OwnList(u) /\ \A d \in Devices : row[d] \in Row
      /\ \A r \in th[u].todo \cup th[u].cur : r \in Ref /\ r.dev \in Devices /\ Exists(r)
      /\ \A r \in th[u].todo \cup th[u].cur : r.dev \in Devs(th[u])
      /\ open \subseteq Devices
  BY DEF TypeOK, Lists, OwnList, Worker, Ref, Devs
<1>1. th[u].pc \in Resting => Devs(th[u]) = {}
  BY <1>0 DEF OwnList, Resting, Devs
<1>2. ASSUME NEW pc \in PCs \ {"forced"}, NEW todo, Work(u, pc, todo),
             \A r \in todo : Held(pc, r.dev)'
      PROVE  HeldAll(u)'
  <2>1. /\ th'[u].todo = todo /\ th'[u].cur = {}
        /\ todo # {} => th'[u].pc = pc
    BY <1>2, WorkLists
  <2> QED BY <1>2, <2>1 DEF HeldAll
<1>3. ASSUME NEW pc, NEW todo, Work(u, pc, todo)
      PROVE  \A r \in todo : r.dev \in Devs(th'[u])
  BY <1>3, WorkDevs
<1>a. ASSUME NEW todo, Work(u, "auth", todo), th[u].pc \in Resting,
             \A r \in todo : Live(r.dev)'
      PROVE  HeldAll(u)' /\ Leaves
  BY <1>1, <1>2, <1>a DEF Held, PCs
<1>b. ASSUME NEW todo, Work(u, "unauth", todo), th[u].pc \in Resting,
             \A r \in todo : ~Live(r.dev)'
      PROVE  HeldAll(u)' /\ Leaves
  BY <1>1, <1>2, <1>b DEF Held, PCs
<1>4. CASE ExpireOverdueSessions(u)
  <2>1. \A d \in Lapsed : ~Live(d)'
    BY <1>0, <1>4 DEF ExpireOverdueSessions, Lapsed, Live, Active, Row
  <2>2. \A r \in Refs(Lapsed) : ~Live(r.dev)'
    BY <2>1 DEF Refs, RefOf
  <2> QED BY <1>4, <1>b, <2>2 DEF ExpireOverdueSessions, Resting
<1>5. ASSUME NEW c \in Devices, NEW n \in Minutes, NEW rate \in Rates, Credit(u, c, n, rate)
      PROVE  HeldAll(u)' /\ Leaves
  <2> DEFINE q == Credited(row[c], n, rate)
  <2>1. /\ th[u].pc \in Resting /\ row' = [row EXCEPT ![c] = q]
        /\ Work(u, "auth", {[dev |-> c, id |-> q.id]})
        /\ owed' = [owed EXCEPT ![c] = @ + n]
    BY <1>5 DEF Credit, Accepts, Resting
  <2>2. ~(Active(row[c]) /\ row[c].paused)
    BY <1>5, <2>1, MinutesAssumption DEF NothingPaidWhilePaused, TypeOK
  <2>3. q.status = "active" /\ ~q.paused
    <3>1. \A id : Fresh(id, n, rate).status = "active" /\ ~Fresh(id, n, rate).paused
      BY DEF Fresh, NoRow
    <3>2. CASE Active(row[c]) /\ row[c].exp > now
      BY <1>0, <2>2, <3>2 DEF Credited, Row, Active
    <3>3. CASE ~(Active(row[c]) /\ row[c].exp > now)
      BY <3>1, <3>3 DEF Credited
    <3> QED BY <3>2, <3>3
  <2> HIDE DEF q
  <2>4. Live(c)'
    BY <1>0, <2>1, <2>3 DEF Live, Active
  <2> QED BY <1>a, <2>1, <2>4
<1>6. ASSUME NEW c \in Devices, NEW n \in Minutes, Extend(u, c, n)
      PROVE  HeldAll(u)' /\ Leaves
  <2>1. ~row[c].paused /\ Active(row[c])
    BY <1>6, MinutesAssumption DEF Extend, NothingPaidWhilePaused, TypeOK
  <2>2. Live(c)'
    BY <1>0, <1>6, <2>1 DEF Extend, Live, Active, Row
  <2>3. \A r \in {RefOf(c)} : Live(r.dev)'
    BY <2>2, RefDevs
  <2> QED BY <1>6, <1>a, <2>3 DEF Extend, Accepts, Resting
<1>7. ASSUME NEW c \in Devices, NEW s \in {"expired", "cancelled"}, End(u, c, s)
      PROVE  HeldAll(u)' /\ Leaves
  <2>1. ~Live(c)'
    BY <1>0, <1>7 DEF End, Live, Active, Row
  <2>2. \A r \in {RefOf(c)} : ~Live(r.dev)'
    BY <2>1, RefDevs
  <2> QED BY <1>7, <1>b, <2>2 DEF End, Accepts, Resting
<1>c. ASSUME NEW c \in Devices, u \in Threads, Accepts(u), row' = row, open' = open, now' = now,
             RefOf(c) \in th'[u].todo
      PROVE  Settled(c) /\ Shut(c)' /\ Opened(c)' /\ Leaves
  <2>1. c \in Devs(th'[u]) /\ Devs(th[u]) = {} /\ serving
    BY <1>1, <1>c, RefDevs DEF Accepts, Resting, Devs
  <2>2. Settled(c)
    BY <2>1
  <2> QED BY <1>c, <2>1, <2>2 DEF Settled, Late, Shut, Opened, Live, Active, Running
<1>8. ASSUME NEW c \in Devices, PauseSelect(u, c), u \in Threads
      PROVE  HeldAll(u)' /\ Leaves
  <2>1. th'[u].pc = "pause" /\ th'[u].todo = {RefOf(c)} /\ th'[u].cur = {}
    BY <1>0, <1>8 DEF PauseSelect
  <2>2. Shut(c)' /\ Opened(c)' /\ Leaves
    BY <1>8, <1>c, <2>1 DEF PauseSelect, world
  <2>3. \A r \in {RefOf(c)} : Shut(r.dev)' /\ Opened(r.dev)'
    BY <2>2, RefDevs
  <2> QED BY <2>1, <2>2, <2>3 DEF HeldAll, Held
<1>9. ASSUME NEW c \in Devices, ResumeSelect(u, c), u \in Threads
      PROVE  HeldAll(u)' /\ Leaves
  <2> DEFINE pc == IF row[c].deadline # 0 /\ row[c].deadline < now THEN "force" ELSE "resume"
  <2>1. th'[u] = [Idle EXCEPT !.pc = pc, !.todo = {RefOf(c)}, !.bank = row[c].bank]
    BY <1>0, <1>9 DEF ResumeSelect
  <2>2. /\ row' = row /\ open' = open /\ now' = now /\ Accepts(u)
        /\ Active(row[c]) /\ row[c].paused
    BY <1>9 DEF ResumeSelect, world
  <2>3. pc \in {"force", "resume"}
    OBVIOUS
  <2> HIDE DEF pc
  <2>4. th'[u].pc = pc /\ th'[u].todo = {RefOf(c)} /\ th'[u].cur = {}
    BY <2>1 DEF Idle
  <2>5. Shut(c)' /\ Opened(c)' /\ Leaves
    BY <1>9, <1>c, <2>2, <2>4
  <2>6. ~Live(c)' /\ c \notin open'
    BY <2>2, <2>5 DEF Live, Shut, Active
  <2>7. \A r \in {RefOf(c)} : Shut(r.dev)' /\ Opened(r.dev)' /\ ~Live(r.dev)' /\ r.dev \notin open'
    BY <2>5, <2>6, RefDevs
  <2> QED BY <2>3, <2>4, <2>5, <2>7 DEF HeldAll, Held
<1>10. ASSUME NEW c \in Devices, EditRead(u, c), u \in Threads
       PROVE  HeldAll(u)' /\ Leaves
  <2>1. PICK pc \in {"editlive", "editdead"} :
          /\ row' = row /\ open' = open /\ now' = now /\ Accepts(u) /\ Work(u, pc, {RefOf(c)})
          /\ pc = "editdead" => ~Active(row[c])
    BY <1>10 DEF EditRead, world
  <2>2. th'[u].todo = {RefOf(c)}
    BY <2>1, WorkLists
  <2>3. Shut(c)' /\ Opened(c)' /\ Leaves
    BY <1>10, <1>c, <2>1, <2>2
  <2>4. Held(pc, c)'
    BY <2>1, <2>3 DEF Held, Shut, Live, Active
  <2>5. \A r \in {RefOf(c)} : Held(pc, r.dev)'
    BY <2>4, RefDevs
  <2> QED BY <1>2, <2>1, <2>3, <2>5 DEF PCs
<1>11. ASSUME NEW c \in Devices, DeleteRead(u, c), u \in Threads
       PROVE  HeldAll(u)' /\ Leaves
  <2>1. PICK pc \in {"deletelive", "delete"} :
          /\ row' = row /\ open' = open /\ now' = now /\ Accepts(u) /\ Work(u, pc, {RefOf(c)})
          /\ pc = "delete" => ~Active(row[c])
    BY <1>11 DEF DeleteRead, world
  <2>2. th'[u].todo = {RefOf(c)}
    BY <2>1, WorkLists
  <2>3. Shut(c)' /\ Opened(c)' /\ Leaves
    BY <1>11, <1>c, <2>1, <2>2
  <2>4. Held(pc, c)'
    BY <2>1, <2>3 DEF Held, Shut, Live, Active
  <2>5. \A r \in {RefOf(c)} : Held(pc, r.dev)'
    BY <2>4, RefDevs
  <2> QED BY <1>2, <2>1, <2>3, <2>5 DEF PCs
<1>d. ASSUME th[u].pc \in Selecting
      PROVE  \E q \in th[u].todo : /\ q = Sole(u) /\ th[u].todo = {q} /\ q.dev \in Devices
                                   /\ Exists(q) /\ Held(th[u].pc, q.dev)
                                   /\ Devs(th[u]) = {q.dev}
  <2>1. th[u].todo = {Sole(u)} /\ th[u].cur = {}
    BY <1>0, <1>d, SoleType DEF OwnList, Selecting
  <2>2. Devs(th[u]) = {Sole(u).dev}
    BY <2>1 DEF Devs
  <2> QED BY <1>0, <2>1, <2>2 DEF HeldAll
<1>12. CASE PauseUpdate(u)
  <2>1. PICK q \in th[u].todo : /\ q = Sole(u) /\ q.dev \in Devices /\ Held("pause", q.dev)
                                /\ Devs(th[u]) = {q.dev}
    BY <1>12, <1>d DEF PauseUpdate, Selecting
  <2>2. CASE Pausable(q)
    <3>1. /\ row' = [row EXCEPT ![q.dev] = PausedRow(@, th[u].bank, th[u].deadline)]
          /\ Work(u, "unauth", {q})
      BY <1>12, <2>1, <2>2 DEF PauseUpdate
    <3>2. row'[q.dev].paused
      BY <1>0, <2>1, <3>1 DEF PausedRow, Row
    <3>3. \A r \in {q} : Held("unauth", r.dev)'
      BY <3>2 DEF Held, Live
    <3>4. Leaves
      BY <1>3, <2>1, <3>1
    <3> QED BY <1>2, <3>1, <3>3, <3>4 DEF PCs
  <2>3. CASE ~Pausable(q)
    <3>1. row' = row /\ open' = open /\ now' = now /\ Work(u, "unauth", {})
      BY <1>12, <2>1, <2>3 DEF PauseUpdate, world
    <3>2. HeldAll(u)'
      BY <1>2, <3>1 DEF PCs
    <3>3. Settled(q.dev)'
      BY <2>1, <3>1 DEF Held, Settled, Shut, Opened, Live, Active, Running
    <3> QED BY <2>1, <3>2, <3>3
  <2> QED BY <2>2, <2>3
<1>13. CASE ResumeUpdate(u)
  <2>1. PICK q \in th[u].todo : /\ q = Sole(u) /\ q.dev \in Devices /\ Held("resume", q.dev)
                                /\ Devs(th[u]) = {q.dev}
    BY <1>13, <1>d DEF ResumeUpdate, Selecting
  <2>2. CASE Resumable(q)
    <3>1. /\ row' = [row EXCEPT ![q.dev] = ResumedRow(@, now + th[u].bank)]
          /\ Work(u, "auth", {q}) /\ row[q.dev].status = "active"
      BY <1>13, <2>1, <2>2 DEF ResumeUpdate, Resumable, Active
    <3>2. ~row'[q.dev].paused /\ row'[q.dev].status = "active"
      BY <1>0, <2>1, <3>1 DEF ResumedRow, Row
    <3>3. \A r \in {q} : Held("auth", r.dev)'
      BY <3>2 DEF Held, Live, Active
    <3>4. Leaves
      BY <1>3, <2>1, <3>1
    <3> QED BY <1>2, <3>1, <3>3, <3>4 DEF PCs
  <2>3. CASE ~Resumable(q)
    <3>1. row' = row /\ open' = open /\ now' = now /\ Work(u, "auth", {})
      BY <1>13, <2>1, <2>3 DEF ResumeUpdate, world
    <3>2. HeldAll(u)'
      BY <1>2, <3>1 DEF PCs
    <3>3. Settled(q.dev)'
      BY <2>1, <3>1 DEF Held, Settled, Shut, Opened, Live, Active, Running
    <3> QED BY <2>1, <3>2, <3>3
  <2> QED BY <2>2, <2>3
<1>14. CASE ForceExpire(u)
  <2>1. PICK q \in th[u].todo :
          /\ th' = [th EXCEPT ![u].pc = "forced", ![u].cur = {q}, ![u].todo = @ \ {q}]
          /\ IF Exists(q) /\ Active(row[q.dev])
               THEN row' = [row EXCEPT ![q.dev] = ForfeitedRow(@)]
               ELSE row' = row
          /\ open' = open /\ th[u].pc = "force"
    BY <1>14 DEF ForceExpire
  <2>2. th'[u].pc = "forced" /\ th'[u].cur = {q} /\ th'[u].todo = th[u].todo \ {q}
    BY <1>0, <2>1 DEF Worker
  <2>3. \A d \in Devices : ~Live(d) => ~Live(d)'
    <3>1. \A r \in Row : ForfeitedRow(r).status = "expired"
      BY DEF ForfeitedRow, Row
    <3> QED BY <1>0, <2>1, <3>1 DEF Live, Active
  <2>4. \A r \in th[u].todo : r.dev \notin open' /\ ~Live(r.dev)'
    BY <1>0, <2>1, <2>3 DEF HeldAll, Held
  <2>5. HeldAll(u)'
    BY <2>2, <2>4 DEF HeldAll, Held
  <2>6. Leaves
    <3>1. th[u].cur = {}
      BY <1>0, <2>1 DEF OwnList
    <3> QED BY <2>2, <3>1 DEF Devs
  <2> QED BY <2>5, <2>6
<1>15. CASE Auth(u)
  <2>a. PICK q \in th[u].todo : /\ Work(u, "auth", th[u].todo \ {q}) /\ Runs(open \cup {q.dev})
                                /\ row' = row /\ th[u].pc = "auth"
    BY <1>15 DEF Auth
  <2>1. /\ Work(u, "auth", th[u].todo \ {q}) /\ open' = open \cup {q.dev}
        /\ row' = row /\ th[u].pc = "auth"
    BY <2>a DEF Runs
  <2>2. \A r \in th[u].todo : Live(r.dev)'
    BY <2>1 DEF HeldAll, Held, Live, Active
  <2>3. HeldAll(u)'
    BY <1>2, <2>1, <2>2 DEF Held, PCs
  <2>4. Settled(q.dev)'
    BY <2>1, <2>2 DEF Settled, Shut, Opened
  <2>5. \A d \in Devs(th[u]) : d = q.dev \/ d \in Devs(th'[u])
    BY <1>0, <1>3, <2>1 DEF Devs, OwnList
  <2> QED BY <2>3, <2>4, <2>5
<1>16. CASE Unauth(u)
  <2>1. PICK q \in th[u].todo : /\ Work(u, "unauth", th[u].todo \ {q}) /\ open' = open \ {q.dev}
                                /\ row' = row /\ now' = now /\ th[u].pc = "unauth"
    BY <1>16 DEF Unauth, Runs
  <2>2. \A r \in th[u].todo : ~Live(r.dev)'
    BY <2>1 DEF HeldAll, Held, Live, Active
  <2>3. HeldAll(u)'
    BY <1>2, <2>1, <2>2 DEF Held, PCs
  <2>4. Settled(q.dev)'
    BY <2>1, <2>2 DEF Settled, Shut, Opened, Live, Running
  <2>5. \A d \in Devs(th[u]) : d = q.dev \/ d \in Devs(th'[u])
    BY <1>0, <1>3, <2>1 DEF Devs, OwnList
  <2> QED BY <2>3, <2>4, <2>5
<1>17. CASE UnauthForced(u)
  <2>1. PICK q \in th[u].cur : /\ Work(u, "force", th[u].todo) /\ open' = open \ {q.dev}
                               /\ row' = row /\ now' = now /\ th[u].pc = "forced"
    BY <1>17 DEF UnauthForced, Runs
  <2>2. \A r \in th[u].todo : Held("force", r.dev)'
    BY <2>1 DEF HeldAll, Held, Live, Active
  <2>3. HeldAll(u)'
    BY <1>2, <2>1, <2>2 DEF PCs
  <2>4. \A r \in th[u].cur : ~Live(r.dev)'
    BY <2>1 DEF HeldAll, Live, Active
  <2>5. Settled(q.dev)'
    BY <2>1, <2>4 DEF Settled, Shut, Opened, Live, Running
  <2>6. \A d \in Devs(th[u]) : d = q.dev \/ d \in Devs(th'[u])
    BY <1>0, <1>3, <2>1 DEF Devs, OwnList
  <2> QED BY <2>3, <2>5, <2>6
<1>18. CASE EditWrite(u)
  <2>1. PICK q \in th[u].todo : /\ q = Sole(u) /\ q.dev \in Devices /\ Exists(q)
                                /\ Held(th[u].pc, q.dev) /\ Devs(th[u]) = {q.dev}
    BY <1>18, <1>d DEF EditWrite, Selecting
  <2>2. PICK s \in EditStatuses :
          /\ row' = [row EXCEPT ![q.dev].status = s,
                       ![q.dev].exp = IF s \in {"expired", "cancelled"} THEN now ELSE @]
          /\ Work(u, "unauth", IF s \in {"expired", "cancelled"} /\ th[u].pc = "editlive"
                               THEN {q} ELSE {})
          /\ open' = open /\ th[u].pc \in {"editlive", "editdead"}
    BY <1>18, <2>1 DEF EditWrite
  <2>3. row'[q.dev].status = s /\ s \in {"expired", "cancelled"}
    BY <1>0, <2>1, <2>2 DEF Row
  <2>4. ~Live(q.dev)' /\ ~Running(row[q.dev])'
    BY <2>3 DEF Live, Active, Running
  <2>5. \A r \in {q} : Held("unauth", r.dev)'
    BY <2>4 DEF Held
  <2>6. HeldAll(u)'
    BY <1>2, <2>2, <2>5 DEF PCs
  <2>7. CASE th[u].pc = "editlive"
    BY <1>3, <2>1, <2>2, <2>3, <2>6, <2>7
  <2>8. CASE th[u].pc = "editdead"
    <3>1. Settled(q.dev)'
      BY <2>1, <2>2, <2>4, <2>8 DEF Held, Settled, Shut, Opened
    <3> QED BY <2>1, <2>6, <3>1
  <2> QED BY <2>2, <2>7, <2>8
<1>19. CASE DeleteUnauth(u)
  <2>1. /\ open' = open \ Devs(th[u]) /\ Work(u, "delete", th[u].todo) /\ th[u].cur = {}
    BY <1>0, <1>19 DEF DeleteUnauth, Runs, OwnList
  <2>2. \A r \in th[u].todo : Held("delete", r.dev)'
    BY <1>0, <2>1 DEF Held
  <2>3. \A d \in Devs(th[u]) : d \in Devs(th'[u])
    BY <1>3, <2>1 DEF Devs
  <2> QED BY <1>2, <2>1, <2>2, <2>3 DEF PCs
<1>20. CASE DeleteRow(u)
  <2>1. PICK q \in th[u].todo : /\ q = Sole(u) /\ q.dev \in Devices /\ Exists(q)
                                /\ Held("delete", q.dev) /\ Devs(th[u]) = {q.dev}
    BY <1>20, <1>d DEF DeleteRow, Selecting
  <2>2. row' = [row EXCEPT ![q.dev] = NoRow(q.id)] /\ open' = open /\ th'[u] = Idle
    BY <1>0, <1>20, <2>1 DEF DeleteRow
  <2>3. row'[q.dev].status = "none"
    BY <1>0, <2>1, <2>2 DEF NoRow
  <2>4. Settled(q.dev)'
    BY <2>1, <2>2, <2>3 DEF Held, Settled, Shut, Opened, Running, Active
  <2>5. HeldAll(u)'
    BY <2>2 DEF HeldAll, Idle
  <2> QED BY <2>1, <2>4, <2>5
<1>21. CASE u = Enforcer /\ ListOverduePaused
  <2> DEFINE D == {d \in Devices : Elapsed(row[d])}
  <2>1. /\ Work(u, "force", Refs(D)) /\ row' = row /\ open' = open /\ Devs(th[u]) = {}
        /\ now' = now
    BY <1>1, <1>21 DEF ListOverduePaused, Resting, world
  <2>2. \A d \in D : d \in Devices /\ d \in Devs(th'[u]) /\ ~Live(d)
    BY <1>3, <2>1, RefDevs DEF Elapsed, Live
  <2>3. \A d \in D : d \notin open' /\ ~Live(d)'
    BY <2>1, <2>2 DEF Settled, Shut, Live, Active
  <2> HIDE DEF D
  <2>4. \A r \in Refs(D) : Held("force", r.dev)'
    BY <2>3 DEF Refs, RefOf, Held
  <2> QED BY <1>2, <2>1, <2>4 DEF PCs
<1>22. CASE u = Enforcer /\ Recover
  <2> DEFINE D == {d \in Devices : Running(row[d])}
  <2>1. Work(u, "auth", Refs(D)) /\ row' = row /\ th[u].pc \in Resting
    BY <1>22 DEF Recover, Resting
  <2>2. \A d \in D : Live(d)'
    BY <2>1 DEF Running, Live, Active
  <2> HIDE DEF D
  <2>3. \A r \in Refs(D) : Live(r.dev)'
    BY <2>2 DEF Refs, RefOf
  <2> QED BY <1>a, <2>1, <2>3
<1>23. CASE u = Enforcer /\ Listen
  <2>1. th'[u] = Idle /\ Devs(th[u]) = {}
    BY <1>0, <1>1, <1>23 DEF Listen, Resting
  <2> QED BY <2>1 DEF HeldAll, Idle
<1> QED BY <1>4, <1>5, <1>6, <1>7, <1>8, <1>9, <1>10, <1>11, <1>12, <1>13, <1>14, <1>15, <1>16,
           <1>17, <1>18, <1>19, <1>20, <1>21, <1>22, <1>23
        DEF Does, Request, Continue, EnforcerStep

\* Whether somebody is at a device, before and after a worker's step.
LEMMA QuietSteps ==
  ASSUME TypeOK, NEW u \in Workers, Does(u), OneAtATime', NEW d \in Devices
  PROVE  /\ d \in Devs(th'[u]) /\ d \notin Devs(th[u]) => Quiet(d)
         /\ Quiet(d)' /\ d \notin Devs(th[u]) => Quiet(d)
<1>1. \A t \in Workers \ {u} : th'[t] = th[t]
  BY OwnDevices
<1>2. \A t \in Workers \ {u} : Devs(th'[t]) = Devs(th[t])
  BY <1>1
<1>3. d \in Devs(th'[u]) => \A t \in Workers \ {u} : d \notin Devs(th'[t])
  BY DEF OneAtATime, Workers
<1>4. Quiet(d)' <=> \A t \in Workers : d \notin Devs(th'[t])
  BY DEF Quiet, Workers
<1> QED BY <1>2, <1>3, <1>4 DEF Quiet

\* The startup is over once the enforcer has listed the running rows.
LEMMA LateStep ==
  ASSUME TypeOK, Phase, NEW u \in Workers, Does(u), Late', ~Late
  PROVE  u = Enforcer /\ Recover
<1>0. th \in [Workers -> Worker] /\ Enforcer \in Workers /\ Enforcer \notin Threads
  BY EnforcerAssumption DEF TypeOK, Workers
<1>1. ~Listen
  BY DEF Listen, Late
<1>2. serving' = serving
  BY <1>1 DEF Does, Request, Continue, EnforcerStep, ExpireOverdueSessions, Credit, Extend, End,
              PauseSelect, ResumeSelect, EditRead, DeleteRead, Auth, Unauth, PauseUpdate,
              ResumeUpdate, UnauthForced, ForceExpire, EditWrite, DeleteUnauth, DeleteRow,
              ListOverduePaused, Recover, world
<1>3. th'[Enforcer].pc \in {"auth", "listen"} /\ th[Enforcer].pc \notin {"auth", "listen"}
  BY <1>2 DEF Late
<1>4. u = Enforcer
  BY <1>0, <1>3, OwnDevices
<1>5. ASSUME NEW pc \in PCs \ {"auth", "listen"}, NEW todo, Work(u, pc, todo)
      PROVE  FALSE
  <2>1. Finished(u, pc).pc \in {"idle", "list", "recover"}
    BY <1>5 DEF Finished, Idle
  <2> QED BY <1>3, <1>4, <1>5, <2>1, WorkLists
<1>6. ~ForceExpire(u)
  <2> SUFFICES ASSUME ForceExpire(u) PROVE FALSE
    OBVIOUS
  <2>1. PICK q \in th[u].todo :
          th' = [th EXCEPT ![u].pc = "forced", ![u].cur = {q}, ![u].todo = @ \ {q}]
    BY DEF ForceExpire
  <2>2. th'[u].pc = "forced"
    BY <1>0, <2>1 DEF Worker
  <2> QED BY <1>3, <1>4, <2>2
<1>7. /\ ~Auth(u) /\ ~PauseUpdate(u) /\ ~ResumeUpdate(u) /\ ~EditWrite(u) /\ ~DeleteUnauth(u)
      /\ ~DeleteRow(u) /\ ~(u \in Threads)
  BY <1>0, <1>3, <1>4
     DEF Auth, PauseUpdate, ResumeUpdate, EditWrite, DeleteUnauth, DeleteRow, Phase, Resting
<1> QED BY <1>1, <1>4, <1>5, <1>6, <1>7
        DEF Does, Continue, EnforcerStep, ExpireOverdueSessions, ListOverduePaused, Unauth,
            UnauthForced, PCs

\* A failure is not forgotten.
LEMMA FaultsGrow ==
  ASSUME TypeOK, [Next]_vars
  PROVE  faults' = 0 => faults = 0
<1>1. faults' \in {faults, faults + 1}
  <2>1. ASSUME NEW u \in Workers, Auth(u) \/ Unauth(u) \/ UnauthForced(u) \/ DeleteUnauth(u)
        PROVE  faults' \in {faults, faults + 1}
    <3>1. \E D : Runs(D)
      BY <2>1 DEF Auth, Unauth, UnauthForced, DeleteUnauth
    <3> QED BY <3>1 DEF Runs
  <2>2. ASSUME NEW u \in Workers,
               \/ ExpireOverdueSessions(u) \/ Request(u) \/ PauseUpdate(u) \/ ResumeUpdate(u)
               \/ ForceExpire(u) \/ EditWrite(u) \/ DeleteRow(u)
        PROVE  faults' = faults
    BY <2>2 DEF Request, ExpireOverdueSessions, Credit, Extend, End, PauseSelect, ResumeSelect,
                EditRead, DeleteRead, PauseUpdate, ResumeUpdate, ForceExpire, EditWrite,
                DeleteRow, world
  <2>3. ListOverduePaused \/ Recover \/ Listen \/ Restart \/ Tick \/ UNCHANGED vars
          => faults' = faults
    BY DEF ListOverduePaused, Recover, Listen, Restart, Tick, world, vars
  <2> QED BY <2>1, <2>2, <2>3, StepKinds DEF Does, Continue, EnforcerStep, Workers
<1> QED BY <1>1, LimitsAssumption DEF TypeOK

\* AccessInv is preserved: a worker settles the access of a device before it leaves
\* the device, and the others do not disturb it.
LEMMA AccessStep ==
  ASSUME EditStatuses \subseteq {"expired", "cancelled"},
         TypeOK, Phase, Lists, OneAtATime, AccessInv, [CarefulNext]_vars
  PROVE  AccessInv'
<1> SUFFICES ASSUME faults' = 0
             PROVE  /\ \A d \in Devices : Quiet(d)' => Settled(d)'
                    /\ \A t \in Workers : HeldAll(t)'
  BY DEF AccessInv, Workers
<1>0. /\ [Next]_vars /\ faults = 0
      /\ \A d \in Devices : Quiet(d) => Settled(d)
      /\ \A t \in Workers : HeldAll(t)
      /\ th \in [Workers -> Worker] /\ now \in Nat
      /\ \A d \in Devices : row[d] \in Row
  BY FaultsGrow, LimitsAssumption DEF CarefulNext, AccessInv, TypeOK
<1>1. CASE UNCHANGED vars
  BY <1>0, <1>1 DEF vars, Quiet, Devs, Settled, Late, Shut, Opened, Live, Active, Running,
                    HeldAll, Held
<1>2. ASSUME CarefulNext, NEW u \in Workers, Does(u)
      PROVE  /\ \A d \in Devices : Quiet(d)' => Settled(d)'
             /\ \A t \in Workers : HeldAll(t)'
  <2>0. OneAtATime' /\ NothingPaidWhilePaused
    BY <1>2 DEF CarefulNext
  <2>1. /\ HeldAll(u)'
        /\ \A d \in Devices : d \in Devs(th[u]) /\ d \notin Devs(th'[u]) => Settled(d)'
    BY <1>0, <1>2, <2>0, QuietSteps, WorkerHolds
  <2>2. ASSUME NEW t \in Workers \ {u}
        PROVE  HeldAll(t)'
    <3>1. th'[t] = th[t] /\ now' = now
      BY <1>2, OwnDevices
    <3>2. Devs(th[t]) \cap Devs(th[u]) = {} /\ Devs(th'[t]) \cap Devs(th'[u]) = {}
      BY <2>0 DEF OneAtATime, Workers
    <3>3. Devs(th'[t]) = Devs(th[t])
      BY <3>1
    <3>4. \A d \in Devices \cap Devs(th[t]) : row'[d] = row[d] /\ (d \in open' <=> d \in open)
      BY <1>2, <3>2, <3>3, OwnDevices
    <3>5. \A r \in th[t].todo \cup th[t].cur : r.dev \in Devices \cap Devs(th[t])
      BY <1>0 DEF Worker, Ref, Devs
    <3>6. \A d \in Devices \cap Devs(th[t]) :
            /\ \A pc : Held(pc, d) => Held(pc, d)'
            /\ ~Live(d) => ~Live(d)'
      BY <3>1, <3>4 DEF Held, Shut, Opened, Live, Active, Running
    <3> QED BY <1>0, <3>1, <3>5, <3>6 DEF HeldAll
  <2>3. ASSUME NEW d \in Devices, Quiet(d)'
        PROVE  Settled(d)'
    <3>1. d \notin Devs(th'[u])
      BY <2>3 DEF Quiet, Workers
    <3>2. CASE d \in Devs(th[u])
      BY <2>1, <3>1, <3>2
    <3>3. CASE d \notin Devs(th[u])
      <4>1. Settled(d)
        BY <1>0, <1>2, <2>0, <2>3, <3>3, QuietSteps
      <4>2. row'[d] = row[d] /\ (d \in open' <=> d \in open) /\ now' = now
        BY <1>2, <3>1, <3>3, OwnDevices
      <4>3. Late' /\ ~Late => ~Running(row[d])
        <5>1. SUFFICES ASSUME Late', ~Late, Running(row[d])
                       PROVE  FALSE
          OBVIOUS
        <5>2. u = Enforcer /\ Work(u, "auth", Refs({e \in Devices : Running(row[e])}))
          BY <1>2, <5>1, LateStep DEF Recover
        <5>3. d \in Devs(th'[u])
          BY <5>1, <5>2, WorkDevs, RefDevs
        <5> QED BY <3>1, <5>3
      <4> QED BY <4>1, <4>2, <4>3 DEF Settled, Shut, Opened, Live, Active, Running
    <3> QED BY <3>2, <3>3
  <2> QED BY <2>1, <2>2, <2>3
<1>3. CASE CarefulNext /\ Restart
  <2>1. th' = [t \in Workers |-> Idle] /\ serving' = FALSE /\ open' \in {open, {}} /\ row' = row
    BY <1>3 DEF Restart
  <2>2. \A d \in Devices : Quiet(d)
    BY <1>3, LimitsAssumption DEF CarefulNext, CleanCut, Restart, TypeOK
  <2>3. \A d \in Devices : Shut(d)'
    BY <1>0, <2>1, <2>2 DEF Settled, Shut, Live, Active
  <2>4. ~Late'
    BY <2>1 DEF Late, Idle, Workers
  <2>5. \A t \in Workers : HeldAll(t)'
    BY <2>1 DEF HeldAll, Idle
  <2> QED BY <2>3, <2>4, <2>5 DEF Settled
<1>4. CASE Tick
  <2>1. row' = row /\ open' = open /\ th' = th /\ serving' = serving /\ now' = now + 1
    BY <1>4 DEF Tick
  <2>2. \A d \in Devices : Running(row[d])' => Running(row[d])
    BY <1>0, <2>1 DEF Running, Active, Row
  <2>3. \A d \in Devices : Settled(d) => Settled(d)'
    BY <2>1, <2>2 DEF Settled, Late, Shut, Opened, Live, Active
  <2>4. \A d \in Devices : \A pc : /\ Held(pc, d) => Held(pc, d)'
                                   /\ ~Live(d) => ~Live(d)'
    BY <2>1, <2>2 DEF Held, Shut, Opened, Live, Active
  <2>5. \A t \in Workers : \A r \in th[t].todo \cup th[t].cur : r.dev \in Devices
    BY <1>0 DEF Worker, Ref
  <2>6. \A d \in Devices : Quiet(d)' => Quiet(d)
    BY <2>1 DEF Quiet, Devs
  <2> QED BY <1>0, <2>1, <2>3, <2>4, <2>5, <2>6 DEF HeldAll
<1> QED BY <1>0, <1>1, <1>2, <1>3, <1>4, StepKinds

\* Access follows the session: as long as requests for one device do not overlap,
\* nobody pays during a pause, the operator's edits only end sessions and no
\* command fails, whoever is let through has a session that runs, and whoever has
\* time left on a running session is let through - for any number of customers,
\* and after any number of restarts.
THEOREM AccessIsRight ==
  ASSUME EditStatuses \subseteq {"expired", "cancelled"}
  PROVE  CarefulSpec => []AccessMatchesSession
<1> DEFINE Inv == OneAtATime /\ Phase /\ Lists /\ AccessInv
<1>1. Init => Inv
  <2> SUFFICES ASSUME Init
               PROVE  Inv
    OBVIOUS
  <2>1. \A t \in Workers : th[t] = Idle
    BY DEF Init
  <2>2. OneAtATime /\ Lists
    BY <2>1 DEF OneAtATime, Devs, Idle, Lists, OwnList, Resting
  <2>3. Phase
    BY <2>1 DEF Init, Phase, Idle, Resting, Workers
  <2>4. \A d \in Devices : Settled(d)
    BY DEF Init, Settled, Shut, Opened, Running, Active, NoRow
  <2> QED BY <2>1, <2>2, <2>3, <2>4 DEF AccessInv, HeldAll, Idle
<1>2. TypeOK /\ Inv /\ [CarefulNext]_vars => Inv'
  <2> SUFFICES ASSUME TypeOK, Inv, [CarefulNext]_vars
               PROVE  Inv'
    OBVIOUS
  <2>1. OneAtATime'
    BY DEF CarefulNext, OneAtATime, vars, Devs
  <2>2. Phase'
    BY PhaseStep DEF CarefulNext
  <2> QED BY <2>1, <2>2, ListsStep, AccessStep
<1>3. Inv => AccessMatchesSession
  BY DEF AccessInv, AccessMatchesSession, Settled, Late, Shut, Opened, Live
<1>4. CarefulSpec => []Inv
  BY <1>1, <1>2, TypeCorrectCareful, PTL DEF CarefulSpec
<1> QED BY <1>3, <1>4, PTL

=============================================================================
