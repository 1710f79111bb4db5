---------------------------- MODULE VoucherProofs ----------------------------
(***************************************************************************)
(* Proofs about Voucher for any codes, devices, requests and bounds.       *)
(***************************************************************************)
EXTENDS Voucher, FiniteSetTheorems, TLAPS

ThreadsOK == th \in [Threads -> Thread] /\ \A t \in Threads : Proper(th[t])

\* th stays well typed when one goroutine moves to a proper state.
LEMMA ThreadSet ==
  ASSUME TypeOK, NEW t \in Threads, NEW w \in Thread, Proper(w), th' = [th EXCEPT ![t] = w]
  PROVE  ThreadsOK'
BY DEF TypeOK, ThreadsOK

\* th stays well typed when a request ends, goes on, or goes on without its code.
LEMMA ThreadMoves ==
  ASSUME TypeOK, NEW t \in Threads
  PROVE  /\ Done(t) => ThreadsOK'
         /\ \A pc \in Claiming \cup {"claim"} :
              Goto(t, pc) /\ th[t].client \in Clients /\ th[t].code \in Codes => ThreadsOK'
         /\ \A pc \in {"refuse", "clear"} :
              Drop(t, pc) /\ th[t].client \in Clients => ThreadsOK'
<1>0. th[t] \in Thread
  BY DEF TypeOK
<1>1. ASSUME Done(t) PROVE ThreadsOK'
  <2>1. Idle \in Thread /\ Proper(Idle)
    BY DEF Idle, Thread, PCs, Proper, Redeeming, Claiming
  <2> QED BY <1>1, <2>1, ThreadSet DEF Done
<1>2. ASSUME NEW pc \in Claiming \cup {"claim"}, Goto(t, pc),
             th[t].client \in Clients, th[t].code \in Codes
      PROVE  ThreadsOK'
  <2> DEFINE w == [th[t] EXCEPT !.pc = pc]
  <2>1. w \in Thread /\ Proper(w)
    BY <1>0, <1>2 DEF Thread, PCs, Proper, Redeeming, Claiming
  <2>2. th' = [th EXCEPT ![t] = w]
    BY <1>2 DEF Goto
  <2> QED BY <2>1, <2>2, ThreadSet
<1>3. ASSUME NEW pc \in {"refuse", "clear"}, Drop(t, pc), th[t].client \in Clients
      PROVE  ThreadsOK'
  <2> DEFINE w == [Idle EXCEPT !.pc = pc, !.client = th[t].client]
  <2>1. w \in Thread /\ Proper(w)
    BY <1>3 DEF Idle, Thread, PCs, Proper, Redeeming, Claiming
  <2>2. th' = [th EXCEPT ![t] = w]
    BY <1>3 DEF Drop
  <2> QED BY <2>1, <2>2, ThreadSet
<1> QED BY <1>1, <1>2, <1>3

\* Each step of a handler writes rows, counters and histories of their types.
LEMMA HandlerType ==
  ASSUME TypeOK, NEW t \in Threads, Handler(t)
  PROVE  TypeOK'
<1>0. /\ th[t] \in Thread /\ Proper(th[t]) /\ voucher \in [Codes -> Row] /\ fails \in [Clients -> Fails]
      /\ issue \in [Codes -> Nat] /\ now \in Nat /\ MaxIssues \in Nat /\ MaxUpsets \in Nat
  BY LimitsAssumption DEF TypeOK
<1>1. CASE Draw(t)
  <2>1. CASE Done(t)
    BY <1>1, <2>1, ThreadMoves DEF Draw, TypeOK, ThreadsOK, history, world, upset
  <2>2. ASSUME NEW k \in Codes, th' = [th EXCEPT ![t].pc = "insert", ![t].code = k]
        PROVE  TypeOK'
    <3> DEFINE w == [th[t] EXCEPT !.pc = "insert", !.code = k]
    <3>1. w \in Thread /\ Proper(w)
      BY <1>0 DEF Thread, PCs, Proper, Redeeming, Claiming
    <3>2. th' = [th EXCEPT ![t] = w]
      BY <2>2
    <3>3. ThreadsOK'
      BY <3>1, <3>2, ThreadSet
    <3> QED BY <1>1, <3>3 DEF Draw, TypeOK, ThreadsOK, history, world, upset
  <2> QED BY <1>1, <2>1, <2>2 DEF Draw
<1>2. CASE Insert(t)
  <2> DEFINE k == th[t].code
  <2>0. k \in Codes
    BY <1>0, <1>2 DEF Insert, Proper
  <2>1. ThreadsOK'
    <3>1. CASE Done(t)
      BY <3>1, ThreadMoves
    <3>2. CASE th' = [th EXCEPT ![t].pc = "draw", ![t].left = @ - 1] /\ th[t].left > 1
      <4> DEFINE w == [th[t] EXCEPT !.pc = "draw", !.left = th[t].left - 1]
      <4>0. th[t].left - 1 \in Nat
        BY <1>0, <3>2 DEF Thread
      <4>1. w \in Thread /\ Proper(w)
        BY <1>0, <4>0 DEF Thread, PCs, Proper, Redeeming, Claiming
      <4>2. th' = [th EXCEPT ![t] = w]
        BY <3>2
      <4> QED BY <4>1, <4>2, ThreadSet
    <3> QED BY <1>2, <3>1, <3>2 DEF Insert
  <2>2. CASE UNCHANGED <<voucher, history>>
    BY <1>2, <2>1, <2>2 DEF Insert, TypeOK, ThreadsOK, history, world, upset
  <2>3. CASE /\ Issued(k)
             /\ voucher' = [voucher EXCEPT ![k] = [NoRow EXCEPT !.status = "unused", !.id = issue[k] + 1]]
    <3>0. issue[k] + 1 \in Nat
      BY <1>0, <2>0
    <3>1. [NoRow EXCEPT !.status = "unused", !.id = issue[k] + 1] \in Row
      BY <3>0 DEF NoRow, Row
    <3>2. voucher' \in [Codes -> Row]
      BY <1>0, <2>3, <3>1
    <3>3. /\ issue' \in [Codes -> 0..MaxIssues] /\ paid' \in [Codes -> Nat]
          /\ payee' \in [Codes -> Clients \cup {NoClient}]
      BY <1>0, <2>0, <2>3 DEF Issued, TypeOK
    <3> QED BY <1>2, <2>1, <3>2, <3>3 DEF Insert, TypeOK, ThreadsOK, world, upset
  <2> QED BY <1>2, <2>2, <2>3 DEF Insert
<1>3. CASE BanCheck(t)
  <2>1. th[t].client \in Clients /\ th[t].code \in Codes
    BY <1>0, <1>3 DEF BanCheck, Proper, Redeeming
  <2>2. ThreadsOK'
    BY <1>3, <2>1, ThreadMoves DEF BanCheck
  <2> QED BY <1>3, <2>2 DEF BanCheck, TypeOK, ThreadsOK, history, world, upset
<1>4. CASE Refuse(t)
  <2> DEFINE c == th[t].client
  <2>1. c \in Clients
    BY <1>0, <1>4 DEF Refuse, Proper, Redeeming
  <2>2. ThreadsOK'
    BY <1>4, ThreadMoves DEF Refuse
  <2>3. fails' \in [Clients -> Fails]
    <3> DEFINE f == IF Current(c) THEN [n |-> fails[c].n + 1, since |-> fails[c].since] ELSE [n |-> 1, since |-> now]
    <3>1. f \in Fails
      BY <1>0, <2>1 DEF Fails
    <3>2. fails' = [fails EXCEPT ![c] = f]
      BY <1>0, <1>4, <2>1 DEF Refuse
    <3> HIDE DEF f
    <3> QED BY <1>0, <3>1, <3>2
  <2> QED BY <1>4, <2>2, <2>3 DEF Refuse, TypeOK, ThreadsOK, history, world, upset
<1>5. CASE Claim(t)
  <2> DEFINE k == th[t].code
             c == th[t].client
  <2>1. c \in Clients /\ k \in Codes
    BY <1>0, <1>5 DEF Claim, Proper, Redeeming
  <2>2. CASE /\ voucher' = [voucher EXCEPT ![k].status = "used", ![k].mac = c]
             /\ th' = [th EXCEPT ![t].pc = "credit", ![t].id = voucher[k].id,
                                 ![t].issue = issue[k]]
    <3> DEFINE w == [th[t] EXCEPT !.pc = "credit", !.id = voucher[k].id, !.issue = issue[k]]
    <3>1. w \in Thread /\ Proper(w)
      <4>1. voucher[k].id \in Nat /\ issue[k] \in Nat
        BY <1>0, <2>1 DEF Row
      <4> QED BY <1>0, <2>1, <4>1 DEF Thread, PCs, Proper, Redeeming, Claiming
    <3>2. th' = [th EXCEPT ![t] = w]
      BY <2>2
    <3>3. ThreadsOK'
      BY <3>1, <3>2, ThreadSet
    <3>4. voucher' \in [Codes -> Row]
      BY <1>0, <2>1, <2>2 DEF Row
    <3> QED BY <1>5, <3>3, <3>4 DEF Claim, TypeOK, ThreadsOK, history, world, upset
  <2>3. CASE (Drop(t, "refuse") \/ Done(t)) /\ UNCHANGED voucher
    <3>1. ThreadsOK'
      BY <2>1, <2>3, ThreadMoves
    <3> QED BY <1>5, <2>3, <3>1 DEF Claim, TypeOK, ThreadsOK, history, world, upset
  <2> QED BY <1>5, <2>2, <2>3 DEF Claim
<1>6. CASE Credit(t)
  <2>1. th[t].client \in Clients /\ th[t].code \in Codes
    BY <1>0, <1>6 DEF Credit, Proper, Redeeming, Claiming
  <2>2. ThreadsOK'
    BY <1>6, <2>1, ThreadMoves DEF Credit, Claiming
  <2>3. paid' \in [Codes -> Nat] /\ payee' \in [Codes -> Clients \cup {NoClient}]
    BY <1>6, <2>1 DEF Credit, TypeOK
  <2> QED BY <1>6, <2>2, <2>3 DEF Credit, TypeOK, ThreadsOK, world, upset
<1>7. CASE Rollback(t)
  <2>1. ThreadsOK'
    BY <1>7, ThreadMoves DEF Rollback
  <2>2. voucher' \in [Codes -> Row]
    BY <1>0, <1>7 DEF Rollback, Row
  <2>3. upsets' \in 0..MaxUpsets /\ faults' \in 0..upsets'
    BY <1>0, <1>7 DEF Rollback, Fault, Upset, upset, TypeOK
  <2> QED BY <1>7, <2>1, <2>2, <2>3 DEF Rollback, TypeOK, ThreadsOK, history, world
<1>8. CASE Bind(t)
  <2>1. th[t].client \in Clients
    BY <1>0, <1>8 DEF Bind, Proper, Redeeming, Claiming
  <2>2. ThreadsOK'
    BY <1>8, <2>1, ThreadMoves DEF Bind
  <2>3. voucher' \in [Codes -> Row]
    BY <1>0, <1>8, <2>1 DEF Bind, Row
  <2>4. upsets' \in 0..MaxUpsets /\ faults' \in 0..upsets'
    BY <1>0, <1>8 DEF Bind, Fault, Upset, upset, TypeOK
  <2> QED BY <1>8, <2>2, <2>3, <2>4 DEF Bind, TypeOK, ThreadsOK, history, world
<1>9. CASE Clear(t)
  <2>1. ThreadsOK'
    BY <1>9, ThreadMoves DEF Clear
  <2>2. fails' \in [Clients -> Fails]
    BY <1>0, <1>9 DEF Clear, NoFails, Fails
  <2> QED BY <1>9, <2>1, <2>2 DEF Clear, TypeOK, ThreadsOK, history, world, upset
<1> QED BY <1>1, <1>2, <1>3, <1>4, <1>5, <1>6, <1>7, <1>8, <1>9 DEF Handler

\* So does each step of the operator, the world and the start of a request.
LEMMA OtherType ==
  ASSUME TypeOK
  PROVE  /\ \A t \in Threads : Request(t) => TypeOK'
         /\ \A k \in Codes : Operator(k) => TypeOK'
         /\ Outside \/ Tick \/ Restart => TypeOK'
<1>0. /\ voucher \in [Codes -> Row] /\ fails \in [Clients -> Fails] /\ issue \in [Codes -> Nat]
      /\ now \in Nat /\ MaxIssues \in Nat /\ MaxUpsets \in Nat /\ MaxTime \in Nat
  BY LimitsAssumption DEF TypeOK
<1>1. ASSUME NEW t \in Threads, NEW n \in 1..2, Generate(t, n)
      PROVE  TypeOK'
  <2> DEFINE w == [Idle EXCEPT !.pc = "draw", !.left = n]
  <2>0. n \in Nat
    OBVIOUS
  <2>1. w \in Thread /\ Proper(w)
    BY <2>0 DEF Idle, Thread, PCs, Proper, Redeeming, Claiming
  <2>2. th' = [th EXCEPT ![t] = w]
    BY <1>1 DEF Generate
  <2>3. ThreadsOK'
    BY <2>1, <2>2, ThreadSet
  <2> QED BY <1>1, <2>3 DEF Generate, TypeOK, ThreadsOK, history, world, upset
<1>2. ASSUME NEW t \in Threads, NEW c \in Clients, Redeem(t, c)
      PROVE  TypeOK'
  <2>1. \/ \E k \in Codes : th' = [th EXCEPT ![t] = [Idle EXCEPT !.pc = "ban", !.client = c, !.code = k]]
        \/ th' = [th EXCEPT ![t] = [Idle EXCEPT !.pc = "refuse", !.client = c]]
    BY <1>2 DEF Redeem
  <2>2. ASSUME NEW k \in Codes, th' = [th EXCEPT ![t] = [Idle EXCEPT !.pc = "ban", !.client = c, !.code = k]]
        PROVE  ThreadsOK'
    <3> DEFINE w == [Idle EXCEPT !.pc = "ban", !.client = c, !.code = k]
    <3>1. w \in Thread /\ Proper(w)
      BY DEF Idle, Thread, PCs, Proper, Redeeming, Claiming
    <3> HIDE DEF w
    <3> QED BY <2>2, <3>1, ThreadSet DEF w
  <2>3. LET w == [Idle EXCEPT !.pc = "refuse", !.client = c] IN w \in Thread /\ Proper(w)
    BY DEF Idle, Thread, PCs, Proper, Redeeming, Claiming
  <2>4. ThreadsOK'
    BY <2>1, <2>2, <2>3, ThreadSet
  <2> QED BY <1>2, <2>4 DEF Redeem, TypeOK, ThreadsOK, history, world, upset
<1>3. ASSUME NEW k \in Codes, Operator(k)
      PROVE  TypeOK'
  <2>1. voucher' \in [Codes -> Row]
    <3>1. \A id \in Nat : [NoRow EXCEPT !.status = "unused", !.id = id] \in Row
      BY DEF NoRow, Row
    <3>2. NoRow \in Row /\ voucher[k].id \in Nat /\ [voucher[k] EXCEPT !.status = "disabled"] \in Row
      BY <1>0 DEF NoRow, Row
    <3> QED BY <1>0, <1>3, <3>1, <3>2 DEF Operator, Reissue, Disable, Delete
  <2>2. /\ issue' \in [Codes -> 0..MaxIssues] /\ paid' \in [Codes -> Nat]
        /\ payee' \in [Codes -> Clients \cup {NoClient}]
    BY <1>0, <1>3 DEF Operator, Reissue, Disable, Delete, Issued, TypeOK, history
  <2> QED BY <1>3, <2>1, <2>2 DEF Operator, Reissue, Disable, Delete, TypeOK, world, upset
<1>4. ASSUME NEW c \in Clients, Ban(c)
      PROVE  TypeOK'
  BY <1>0, <1>4 DEF Ban, Upset, TypeOK, history
<1>5. ASSUME NEW c \in Clients, Detach(c)
      PROVE  TypeOK'
  <2>1. voucher' \in [Codes -> Row]
    BY <1>0, <1>5 DEF Detach, Row
  <2> QED BY <1>5, <2>1 DEF Detach, TypeOK, history, world, upset
<1>6. CASE Tick
  BY <1>0, <1>6 DEF Tick, TypeOK, history, upset
<1>7. CASE Restart
  <2>1. Idle \in Thread /\ Proper(Idle) /\ NoFails \in Fails
    BY DEF Idle, Thread, PCs, Proper, Redeeming, Claiming, NoFails, Fails
  <2>2. th' \in [Threads -> Thread] /\ (\A t \in Threads : Proper(th'[t])) /\ fails' \in [Clients -> Fails]
    BY <1>7, <2>1 DEF Restart
  <2>3. upsets' \in 0..MaxUpsets /\ faults' \in 0..upsets'
    BY <1>0, <1>7 DEF Restart, Upset, TypeOK
  <2> QED BY <1>7, <2>2, <2>3 DEF Restart, TypeOK, history, world
<1> QED BY <1>1, <1>2, <1>3, <1>4, <1>5, <1>6, <1>7 DEF Request, Outside

\* Rows, histories, counters and goroutines have their types in every
\* interleaving of redemptions, generation, edits, bans and restarts.
THEOREM TypeCorrect == Spec => []TypeOK
<1>1. Init => TypeOK
  BY LimitsAssumption
     DEF Init, TypeOK, NoRow, Row, NoFails, Fails, Idle, Thread, PCs, Proper, Redeeming, Claiming
<1>2. TypeOK /\ [Next]_vars => TypeOK'
  <2> SUFFICES ASSUME TypeOK, [Next]_vars
               PROVE  TypeOK'
    OBVIOUS
  <2>1. CASE UNCHANGED vars
    BY <2>1 DEF vars, TypeOK
  <2>2. CASE Next
    BY <2>2, HandlerType, OtherType DEF Next
  <2> QED BY <2>1, <2>2
<1> QED BY <1>1, <1>2, PTL DEF Spec

-----------------------------------------------------------------------------
(***************************************************************************)
(* The inductive invariant behind careful use.  A goroutine between claim  *)
(* and binding has the row to itself, and the row knows whether the credit *)
(* has been given; an unused row has been credited to nobody.              *)
(***************************************************************************)
At(t, k) == th[t].pc \in Claiming /\ th[t].code = k

HasRow(t) ==
  LET k == th[t].code IN
  th[t].pc \in Claiming =>
    /\ voucher[k].status = "used" /\ voucher[k].id = th[t].id
    /\ voucher[k].mac = th[t].client /\ voucher[k].bound = NoClient
    /\ th[t].issue = issue[k]
    /\ IF th[t].pc = "bind" THEN paid[k] = 1 /\ payee[k] = th[t].client ELSE paid[k] = 0

RowsRight(k) ==
  /\ voucher[k].status = "unused" => paid[k] = 0 /\ voucher[k].bound = NoClient
  /\ voucher[k].status = "used" => voucher[k].bound \in {voucher[k].mac, NoClient}
  /\ voucher[k].status = "used" /\ faults = 0 /\ ~InFlight(k) =>
       paid[k] = 1 /\ payee[k] = voucher[k].mac

Inv ==
  /\ \A t \in Threads : HasRow(t)
  /\ \A t, u \in Threads : \A k \in Codes : At(t, k) /\ At(u, k) => t = u
  /\ \A k \in Codes : RowsRight(k)

\* A step that leaves a code's row and history alone, and does not change who
\* is redeeming it, keeps what Inv says of that code.
LEMMA RowUntouched ==
  ASSUME TypeOK, NEW k \in Codes, RowsRight(k), UNCHANGED <<voucher[k], paid[k], payee[k]>>,
         faults' \in Nat, faults <= faults', \A t \in Threads : At(t, k) => At(t, k)'
  PROVE  RowsRight(k)'
<1>1. faults' = 0 => faults = 0
  BY DEF TypeOK
<1>2. InFlight(k) => InFlight(k)'
  BY DEF InFlight, At
<1> QED BY <1>1, <1>2 DEF RowsRight

\* Another goroutine keeps its row through a step that touches neither the
\* goroutine nor the row.
LEMMA HoldsOn ==
  ASSUME NEW u \in Threads, HasRow(u), th'[u] = th[u],
         th[u].pc \in Claiming => UNCHANGED <<voucher[th[u].code], issue[th[u].code],
                                              paid[th[u].code], payee[th[u].code]>>
  PROVE  HasRow(u)'
BY DEF HasRow

\* A goroutine that holds no row after its step, and did not touch a row or a
\* history, keeps the invariant; so does one that gave up nothing it held.
LEMMA Idling ==
  ASSUME TypeOK, Inv, NEW t \in Threads, th[t].pc \notin Claiming, th'[t].pc \notin Claiming,
         \A u \in Threads \ {t} : th'[u] = th[u], UNCHANGED <<voucher, history, faults>>
  PROVE  Inv'
<1>1. \A u \in Threads : HasRow(u)'
  <2> SUFFICES ASSUME NEW u \in Threads PROVE HasRow(u)'
    OBVIOUS
  <2>1. CASE u = t
    BY <2>1 DEF HasRow
  <2>2. CASE u # t
    BY <2>2, HoldsOn DEF Inv, history
  <2> QED BY <2>1, <2>2
<1>2. \A u \in Threads : \A k \in Codes : At(u, k)' <=> At(u, k)
  BY DEF At
<1>3. ASSUME NEW k \in Codes PROVE RowsRight(k)'
  <2>1. InFlight(k)' <=> InFlight(k)
    BY <1>2 DEF InFlight, At
  <2> QED BY <2>1 DEF Inv, RowsRight, history
<1> QED BY <1>1, <1>2, <1>3 DEF Inv

\* Inv survives a step of goroutine t that touches one row, when nobody else
\* holds that row before or after and what is written is right.
LEMMA OneRow ==
  ASSUME TypeOK, Inv, NEW t \in Threads, NEW k \in Codes,
         \A u \in Threads \ {t} : th'[u] = th[u] /\ ~At(u, k),
         \A j \in Codes \ {k} : UNCHANGED <<voucher[j], issue[j], paid[j], payee[j]>>,
         \A j \in Codes \ {k} : ~At(t, j) /\ ~At(t, j)',
         \A u \in Threads : th[u].pc \in Claiming => th[u].code \in Codes,
         th'[t].pc \in Claiming => th'[t].code = k,
         faults' \in Nat, faults <= faults',
         HasRow(t)', RowsRight(k)'
  PROVE  Inv'
<1>1. \A u \in Threads : HasRow(u)'
  <2> SUFFICES ASSUME NEW u \in Threads, u # t PROVE HasRow(u)'
    OBVIOUS
  <2>1. th'[u] = th[u] /\ HasRow(u)
    BY DEF Inv
  <2>2. th[u].pc \in Claiming => th[u].code \in Codes \ {k}
    BY DEF At
  <2> QED BY <2>1, <2>2, HoldsOn
<1>2. ASSUME NEW u \in Threads, NEW v \in Threads, NEW j \in Codes, At(u, j)', At(v, j)'
      PROVE  u = v
  <2>1. CASE u = t \/ v = t
    <3>1. j = k
      BY <1>2, <2>1 DEF At
    <3> QED BY <1>2, <2>1, <3>1 DEF At
  <2>2. CASE u # t /\ v # t
    BY <1>2, <2>2 DEF At, Inv
  <2> QED BY <2>1, <2>2
<1>3. ASSUME NEW j \in Codes PROVE RowsRight(j)'
  <2>1. CASE j # k
    <3>1. \A u \in Threads : At(u, j) => At(u, j)'
      BY <2>1 DEF At
    <3> QED BY <2>1, <3>1, RowUntouched DEF Inv
  <2> QED BY <2>1
<1> QED BY <1>1, <1>2, <1>3 DEF Inv

\* Inv is preserved by every step of a handler.
LEMMA HandlerInv ==
  ASSUME TypeOK, Inv, NEW t \in Threads, Handler(t)
  PROVE  Inv'
<1>0. /\ th \in [Threads -> Thread] /\ th[t] \in Thread /\ voucher \in [Codes -> Row]
      /\ issue \in [Codes -> Nat] /\ paid \in [Codes -> Nat] /\ faults \in Nat /\ upsets \in Nat
      /\ payee \in [Codes -> Clients \cup {NoClient}]
      /\ \A u \in Threads : th[u].pc \in Claiming => th[u].code \in Codes
      /\ \A u \in Threads : th[u].pc \in Redeeming => th[u].client \in Clients
  BY LimitsAssumption DEF TypeOK, Proper
<1>a. /\ \A pc : Goto(t, pc) => \A u \in Threads : th'[u] = IF u = t THEN [th[t] EXCEPT !.pc = pc] ELSE th[u]
      /\ Done(t) => \A u \in Threads : th'[u] = IF u = t THEN Idle ELSE th[u]
      /\ \A pc : Drop(t, pc) => \A u \in Threads : th'[u] =
             IF u = t THEN [Idle EXCEPT !.pc = pc, !.client = th[t].client] ELSE th[u]
  BY <1>0 DEF Goto, Done, Drop
<1>b. Idle.pc \notin Claiming
  BY DEF Idle, Claiming
<1>c. \A pc \in {"refuse", "clear"} : Drop(t, pc) =>
        /\ th'[t].pc \notin Claiming
        /\ \A u \in Threads \ {t} : th'[u] = th[u]
  <2> SUFFICES ASSUME NEW pc \in {"refuse", "clear"}, Drop(t, pc)
               PROVE  /\ th'[t].pc \notin Claiming
                      /\ \A u \in Threads \ {t} : th'[u] = th[u]
    OBVIOUS
  <2>1. [Idle EXCEPT !.pc = pc, !.client = th[t].client].pc = pc
    BY DEF Idle
  <2>2. pc \notin Claiming
    BY DEF Claiming
  <2> QED BY <2>1, <2>2, <1>a
<1>1. CASE Draw(t)
  <2>1. th'[t].pc \notin Claiming /\ \A u \in Threads \ {t} : th'[u] = th[u]
    <3>1. CASE Done(t)
      BY <3>1, <1>a, <1>b
    <3>2. ASSUME NEW k \in Codes, th' = [th EXCEPT ![t].pc = "insert", ![t].code = k]
          PROVE  th'[t].pc \notin Claiming /\ \A u \in Threads \ {t} : th'[u] = th[u]
      BY <1>0, <3>2 DEF Claiming, Thread
    <3> QED BY <1>1, <3>1, <3>2 DEF Draw
  <2> QED BY <1>1, <2>1, Idling DEF Draw, Claiming, upset
<1>2. CASE Insert(t)
  <2>0. PICK k \in Codes : k = th[t].code /\ th[t].pc = "insert"
    BY <1>2 DEF Insert, TypeOK, Proper
  <2>1. th'[t].pc \notin Claiming /\ \A u \in Threads \ {t} : th'[u] = th[u]
    <3>1. CASE Done(t)
      BY <3>1, <1>a, <1>b
    <3>2. CASE th' = [th EXCEPT ![t].pc = "draw", ![t].left = @ - 1]
      BY <1>0, <3>2 DEF Claiming, Thread
    <3> QED BY <1>2, <3>1, <3>2 DEF Insert
  <2>2. CASE UNCHANGED <<voucher, history>>
    BY <1>2, <2>0, <2>1, <2>2, Idling DEF Insert, Claiming, upset
  <2>3. CASE /\ voucher[k].status = "absent"
             /\ Issued(k)
             /\ voucher' = [voucher EXCEPT ![k] = [NoRow EXCEPT !.status = "unused", !.id = issue[k] + 1]]
    <3>1. \A u \in Threads : ~At(u, k)
      BY <2>3 DEF Inv, HasRow, At
    <3>2. \A j \in Codes \ {k} : UNCHANGED <<voucher[j], issue[j], paid[j], payee[j]>>
      BY <1>0, <2>3 DEF Issued
    <3>3. RowsRight(k)'
      <4>1. voucher'[k].status = "unused" /\ voucher'[k].bound = NoClient
        BY <1>0, <2>0, <2>3 DEF NoRow
      <4>2. paid'[k] = 0
        BY <1>0, <2>0, <2>3 DEF Issued
      <4> QED BY <4>1, <4>2 DEF RowsRight
    <3>4. HasRow(t)' /\ \A j \in Codes : ~At(t, j) /\ ~At(t, j)'
      <4>1. th[t].pc \notin Claiming
        BY <2>0 DEF Claiming
      <4> QED BY <2>1, <4>1 DEF HasRow, At
    <3>5. faults' \in Nat /\ faults <= faults'
      BY <1>0, <1>2 DEF Insert, upset
    <3> QED BY <1>0, <2>0, <2>1, <3>1, <3>2, <3>3, <3>4, <3>5, OneRow
  <2> QED BY <1>2, <2>0, <2>2, <2>3 DEF Insert
<1>3. CASE BanCheck(t)
  <2>1. th'[t].pc \notin Claiming /\ \A u \in Threads \ {t} : th'[u] = th[u]
    <3>1. CASE Done(t)
      BY <3>1, <1>a, <1>b
    <3>2. CASE Goto(t, "claim")
      <4>1. \A u \in Threads : th'[u] = IF u = t THEN [th[t] EXCEPT !.pc = "claim"] ELSE th[u]
        BY <3>2, <1>a
      <4>2. th'[t].pc = "claim"
        BY <1>0, <4>1 DEF Thread
      <4> QED BY <4>1, <4>2 DEF Claiming
    <3> QED BY <1>3, <3>1, <3>2 DEF BanCheck
  <2> QED BY <1>3, <2>1, Idling DEF BanCheck, Claiming, upset
<1>4. CASE Refuse(t) \/ Clear(t)
  <2>1. Done(t) /\ th[t].pc \notin Claiming /\ UNCHANGED <<voucher, history, faults>>
    BY <1>4 DEF Refuse, Clear, Claiming, upset
  <2>2. th'[t].pc \notin Claiming /\ \A u \in Threads \ {t} : th'[u] = th[u]
    BY <2>1, <1>a, <1>b
  <2> QED BY <2>1, <2>2, Idling
<1>5. CASE Claim(t)
  <2> DEFINE k == th[t].code
             c == th[t].client
  <2>0. k \in Codes /\ c \in Clients /\ th[t].pc = "claim"
    BY <1>5 DEF Claim, TypeOK, Proper, Redeeming
  <2>1. CASE (Drop(t, "refuse") \/ Done(t)) /\ UNCHANGED voucher
    <3>1. th'[t].pc \notin Claiming /\ \A u \in Threads \ {t} : th'[u] = th[u]
      BY <2>1, <1>a, <1>b, <1>c
    <3> QED BY <1>5, <2>0, <2>1, <3>1, Idling DEF Claim, Claiming, upset
  <2>2. CASE /\ Claimable(k)
             /\ voucher' = [voucher EXCEPT ![k].status = "used", ![k].mac = c]
             /\ th' = [th EXCEPT ![t].pc = "credit", ![t].id = voucher[k].id,
                                 ![t].issue = issue[k]]
    <3>1. \A u \in Threads \ {t} : th'[u] = th[u] /\ ~At(u, k)
      BY <1>0, <2>2 DEF Inv, HasRow, At, Claimable
    <3>2. /\ th'[t].pc = "credit" /\ th'[t].code = k /\ th'[t].client = c
          /\ th'[t].id = voucher[k].id /\ th'[t].issue = issue[k]
      BY <1>0, <2>2 DEF Thread
    <3>3. /\ voucher'[k].status = "used" /\ voucher'[k].mac = c /\ voucher'[k].id = voucher[k].id
          /\ voucher'[k].bound = NoClient /\ paid[k] = 0
          /\ \A j \in Codes \ {k} : voucher'[j] = voucher[j]
      BY <1>0, <2>0, <2>2 DEF Row, Inv, RowsRight, Claimable
    <3>4. UNCHANGED <<issue, paid, payee, faults>>
      BY <1>5 DEF Claim, history, upset
    <3>5. HasRow(t)'
      BY <3>2, <3>3, <3>4 DEF HasRow
    <3>6. RowsRight(k)'
      BY <3>2, <3>3 DEF RowsRight, InFlight, Claiming
    <3>7. \A j \in Codes \ {k} : ~At(t, j) /\ ~At(t, j)'
      BY <2>0, <3>2 DEF At, Claiming
    <3> QED BY <1>0, <2>0, <3>1, <3>2, <3>3, <3>4, <3>5, <3>6, <3>7, OneRow
  <2> QED BY <1>5, <2>1, <2>2 DEF Claim
<1>6. CASE Credit(t)
  <2> DEFINE k == th[t].code
             c == th[t].client
  <2>0. /\ k \in Codes /\ c \in Clients /\ th[t].pc = "credit" /\ At(t, k) /\ HasRow(t)
        /\ UNCHANGED <<voucher, issue, faults>>
    BY <1>0, <1>6 DEF Credit, Claiming, Redeeming, At, Inv, upset
  <2>1. \A u \in Threads \ {t} : th'[u] = th[u] /\ ~At(u, k)
    BY <1>6, <2>0, <1>a DEF Credit, Inv
  <2>2. /\ th'[t].code = k /\ th'[t].client = c /\ th'[t].id = th[t].id /\ th'[t].issue = th[t].issue
        /\ \/ th'[t].pc = "bind" /\ paid'[k] = 1 /\ payee'[k] = c
           \/ th'[t].pc = "rollback" /\ UNCHANGED <<paid, payee>>
        /\ \A j \in Codes \ {k} : UNCHANGED <<paid[j], payee[j]>>
    <3>1. paid[k] = 0 /\ th[t].issue = issue[k]
      BY <2>0 DEF HasRow, Claiming
    <3>2. ASSUME NEW pc \in {"bind", "rollback"}, Goto(t, pc)
          PROVE  /\ th'[t].code = k /\ th'[t].client = c /\ th'[t].id = th[t].id
                 /\ th'[t].issue = th[t].issue /\ th'[t].pc = pc
      BY <1>0, <3>2 DEF Goto, Thread
    <3>3. CASE /\ paid' = [paid EXCEPT ![k] = paid[k] + 1] /\ payee' = [payee EXCEPT ![k] = c]
               /\ Goto(t, "bind")
      BY <1>0, <2>0, <3>1, <3>2, <3>3
    <3>4. CASE Goto(t, "rollback") /\ UNCHANGED <<paid, payee>>
      BY <3>2, <3>4
    <3> QED BY <1>6, <3>1, <3>3, <3>4 DEF Credit
  <2>3. HasRow(t)'
    BY <2>0, <2>2 DEF HasRow, Claiming
  <2>4. RowsRight(k)'
    BY <2>0, <2>2 DEF RowsRight, InFlight, Claiming, Inv, HasRow
  <2>5. \A j \in Codes \ {k} : ~At(t, j) /\ ~At(t, j)'
    BY <2>0, <2>2 DEF At
  <2> QED BY <1>0, <2>0, <2>1, <2>2, <2>3, <2>4, <2>5, OneRow
<1>7. CASE Rollback(t)
  <2>0. PICK k \in Codes : /\ k = th[t].code /\ th[t].pc = "rollback" /\ At(t, k) /\ HasRow(t)
                          /\ UNCHANGED <<issue, paid, payee>>
    BY <1>0, <1>7 DEF Rollback, Claiming, Redeeming, At, Inv, history
  <2>1. \A u \in Threads \ {t} : th'[u] = th[u] /\ ~At(u, k)
    BY <1>7, <2>0, <1>a DEF Rollback, Inv
  <2>2. th'[t].pc \notin Claiming /\ HasRow(t)' /\ \A j \in Codes : ~At(t, j)'
    BY <1>7, <1>a, <1>b DEF Rollback, HasRow, At
  <2>3. /\ \A j \in Codes \ {k} : voucher'[j] = voucher[j]
        /\ \/ /\ voucher'[k].status = "unused" /\ voucher'[k].bound = voucher[k].bound
              /\ faults' = faults
           \/ voucher' = voucher /\ faults' = faults + 1
    BY <1>0, <1>7, <2>0 DEF Rollback, Fault, upset, HasRow, Row, Claiming
  <2>4. RowsRight(k)'
    <3>1. paid[k] = 0 /\ voucher[k].status = "used" /\ voucher[k].bound = NoClient
      BY <2>0 DEF HasRow, Claiming
    <3> QED BY <1>0, <2>0, <2>3, <3>1 DEF RowsRight
  <2>5. \A j \in Codes \ {k} : ~At(t, j) /\ ~At(t, j)'
    BY <2>0, <2>2 DEF At
  <2>6. faults' \in Nat /\ faults <= faults'
    BY <1>0, <2>3
  <2> QED BY <1>0, <2>0, <2>1, <2>2, <2>3, <2>4, <2>5, <2>6, OneRow
<1>8. CASE Bind(t)
  <2>c. PICK c \in Clients : c = th[t].client
    BY <1>0, <1>8 DEF Bind, Redeeming, Claiming
  <2>0. PICK k \in Codes : /\ k = th[t].code /\ th[t].pc = "bind" /\ At(t, k) /\ HasRow(t)
                          /\ UNCHANGED <<issue, paid, payee>>
    BY <1>0, <1>8 DEF Bind, Claiming, Redeeming, At, Inv, history
  <2>1. \A u \in Threads \ {t} : th'[u] = th[u] /\ ~At(u, k)
    BY <1>8, <2>0, <1>a DEF Bind, Inv
  <2>2. th'[t].pc \notin Claiming /\ HasRow(t)' /\ \A j \in Codes : ~At(t, j)'
    BY <1>8, <1>c DEF Bind, HasRow, At
  <2>3. /\ \A j \in Codes \ {k} : voucher'[j] = voucher[j]
        /\ voucher'[k].status = "used" /\ voucher'[k].mac = c
        /\ voucher'[k].bound \in {c, voucher[k].bound}
        /\ faults' \in {faults, faults + 1}
    BY <1>0, <1>8, <2>c, <2>0 DEF Bind, Fault, upset, HasRow, Row, Claiming
  <2>4. RowsRight(k)'
    <3>1. paid[k] = 1 /\ payee[k] = c /\ voucher[k].bound \in {c, NoClient}
      BY <2>c, <2>0 DEF HasRow, Claiming, Inv, RowsRight
    <3> QED BY <1>0, <2>0, <2>3, <3>1 DEF RowsRight
  <2>5. \A j \in Codes \ {k} : ~At(t, j) /\ ~At(t, j)'
    BY <2>0, <2>2 DEF At
  <2>6. faults' \in Nat /\ faults <= faults'
    BY <1>0, <2>3
  <2> QED BY <1>0, <2>0, <2>1, <2>2, <2>3, <2>4, <2>5, <2>6, OneRow
<1> QED BY <1>1, <1>2, <1>3, <1>4, <1>5, <1>6, <1>7, <1>8 DEF Handler

\* So is Inv by every other step of careful use: the operator edits no row in
\* flight, and a restart finds no redemption between claim and binding.
LEMMA OtherInv ==
  ASSUME TypeOK, Inv
  PROVE  /\ \A t \in Threads : Request(t) => Inv'
         /\ \A k \in Codes : ~InFlight(k) /\ Operator(k) => Inv'
         /\ Outside \/ Tick => Inv'
         /\ (\A k \in Codes : ~InFlight(k)) /\ Restart => Inv'
<1>0. /\ th \in [Threads -> Thread] /\ voucher \in [Codes -> Row] /\ issue \in [Codes -> Nat]
      /\ paid \in [Codes -> Nat] /\ payee \in [Codes -> Clients \cup {NoClient}]
      /\ faults \in Nat /\ \A t \in Threads : th[t].pc \in Claiming => th[t].code \in Codes
  BY LimitsAssumption DEF TypeOK, Proper
<1>1. ASSUME NEW t \in Threads, Request(t) PROVE Inv'
  <2>1. /\ th[t].pc = "idle" /\ th'[t].pc \in {"draw", "ban", "refuse"}
        /\ \A u \in Threads \ {t} : th'[u] = th[u]
        /\ UNCHANGED <<voucher, history, faults>>
    <3>1. CASE \E n \in 1..2 : Generate(t, n)
      BY <1>0, <3>1 DEF Generate, Idle, upset
    <3>2. ASSUME NEW c \in Clients, Redeem(t, c)
          PROVE  /\ th[t].pc = "idle" /\ th'[t].pc \in {"draw", "ban", "refuse"}
                 /\ \A u \in Threads \ {t} : th'[u] = th[u]
                 /\ UNCHANGED <<voucher, history, faults>>
      <4>1. PICK w : th' = [th EXCEPT ![t] = w] /\ w.pc \in {"ban", "refuse"}
        <5>1. [Idle EXCEPT !.pc = "refuse", !.client = c].pc = "refuse"
          BY DEF Idle
        <5>2. \A k \in Codes : [Idle EXCEPT !.pc = "ban", !.client = c, !.code = k].pc = "ban"
          BY DEF Idle
        <5> QED BY <3>2, <5>1, <5>2 DEF Redeem
      <4> QED BY <1>0, <3>2, <4>1 DEF Redeem, upset
    <3> QED BY <1>1, <3>1, <3>2 DEF Request
  <2> QED BY <2>1, Idling DEF Claiming
<1>2. ASSUME NEW k \in Codes, ~InFlight(k), Operator(k) PROVE Inv'
  <2>1. UNCHANGED <<th, faults>> /\ \A u \in Threads : ~At(u, k)
    BY <1>2 DEF Operator, Reissue, Disable, Delete, InFlight, At, upset
  <2>2. \A j \in Codes \ {k} : UNCHANGED <<voucher[j], issue[j], paid[j], payee[j]>>
    BY <1>0, <1>2 DEF Operator, Reissue, Disable, Delete, Issued, history
  <2>3. RowsRight(k)'
    <3>1. CASE Reissue(k)
      <4>1. voucher'[k].status = "unused" /\ voucher'[k].bound = NoClient
        BY <1>0, <3>1 DEF Reissue, NoRow
      <4>2. paid'[k] = 0
        BY <1>0, <3>1 DEF Reissue, Issued, Inv, RowsRight, history
      <4> QED BY <4>1, <4>2 DEF RowsRight
    <3>2. CASE Disable(k) \/ Delete(k)
      <4>1. voucher'[k].status \in {"disabled", "absent"}
        BY <1>0, <3>2 DEF Disable, Delete, NoRow, Row
      <4> QED BY <4>1 DEF RowsRight
    <3> QED BY <1>2, <3>1, <3>2 DEF Operator
  <2>4. ASSUME NEW u \in Threads PROVE HasRow(u)'
    <3>1. th'[u] = th[u] /\ HasRow(u) /\ (th[u].pc \in Claiming => th[u].code \in Codes \ {k})
      BY <1>0, <2>1 DEF Inv, At
    <3> QED BY <2>2, <3>1, HoldsOn
  <2>5. ASSUME NEW j \in Codes, j # k PROVE RowsRight(j)'
    <3>1. \A u \in Threads : At(u, j) => At(u, j)'
      BY <2>1 DEF At
    <3> QED BY <1>0, <2>1, <2>2, <2>5, <3>1, RowUntouched DEF Inv
  <2>6. \A u \in Threads : \A j \in Codes : At(u, j)' <=> At(u, j)
    BY <2>1 DEF At
  <2> QED BY <2>3, <2>4, <2>5, <2>6 DEF Inv
<1>3. ASSUME NEW c \in Clients, Detach(c) PROVE Inv'
  <2>1. UNCHANGED <<th, issue, paid, payee, faults>>
    BY <1>3 DEF Detach, history, upset
  <2>2. \A k \in Codes : /\ voucher'[k].status = voucher[k].status /\ voucher'[k].id = voucher[k].id
                         /\ voucher'[k].mac = voucher[k].mac
                         /\ voucher'[k].bound \in {voucher[k].bound, NoClient}
    BY <1>0, <1>3 DEF Detach, Row
  <2>3. ASSUME NEW u \in Threads PROVE HasRow(u)'
    BY <1>0, <2>1, <2>2 DEF HasRow, Inv
  <2>4. \A u \in Threads : \A j \in Codes : At(u, j)' <=> At(u, j)
    BY <2>1 DEF At
  <2>5. ASSUME NEW j \in Codes PROVE RowsRight(j)'
    <3>1. InFlight(j)' <=> InFlight(j)
      BY <2>1 DEF InFlight
    <3> QED BY <2>1, <2>2, <3>1 DEF Inv, RowsRight
  <2> QED BY <2>3, <2>4, <2>5 DEF Inv
<1>4. ASSUME UNCHANGED <<voucher, history, faults, th>> PROVE Inv'
  <2>1. \A j \in Codes : InFlight(j)' <=> InFlight(j)
    BY <1>4 DEF InFlight
  <2>2. \A u \in Threads : \A j \in Codes : At(u, j)' <=> At(u, j)
    BY <1>4 DEF At
  <2>3. \A u \in Threads : HasRow(u)'
    BY <1>4 DEF HasRow, Inv, history
  <2>4. \A j \in Codes : RowsRight(j)'
    BY <1>4, <2>1 DEF Inv, RowsRight, history
  <2> QED BY <2>2, <2>3, <2>4 DEF Inv
<1>5. ASSUME \A k \in Codes : ~InFlight(k), Restart PROVE Inv'
  <2>1. /\ \A u \in Threads : th'[u].pc \notin Claiming
        /\ UNCHANGED <<voucher, issue, paid, payee, faults>>
    BY <1>5 DEF Restart, Idle, Claiming, history
  <2>2. \A j \in Codes : RowsRight(j)'
    BY <1>5, <2>1 DEF Inv, RowsRight
  <2> QED BY <2>1, <2>2 DEF Inv, HasRow, At
<1> QED BY <1>1, <1>2, <1>3, <1>4, <1>5 DEF Outside, Ban, Tick, history, upset

\* Careful use is a restriction of every use: what Spec allows bounds it.
LEMMA CarefulInv == CarefulSpec => [](TypeOK /\ Inv)
<1>1. Init => TypeOK /\ Inv
  <2>1. Init => TypeOK
    BY LimitsAssumption
       DEF Init, TypeOK, NoRow, Row, NoFails, Fails, Idle, Thread, PCs, Proper, Redeeming, Claiming
  <2>2. Init => Inv
    BY DEF Init, Inv, HasRow, At, RowsRight, NoRow, Idle, Claiming
  <2> QED BY <2>1, <2>2
<1>2. TypeOK /\ Inv /\ [CarefulNext]_vars => (TypeOK /\ Inv)'
  <2> SUFFICES ASSUME TypeOK, Inv, [CarefulNext]_vars
               PROVE  TypeOK' /\ Inv'
    OBVIOUS
  <2>1. CASE UNCHANGED vars
    <3>1. \A j \in Codes : InFlight(j)' <=> InFlight(j)
      BY <2>1 DEF InFlight, vars
    <3>2. \A u \in Threads : HasRow(u)' /\ \A j \in Codes : At(u, j)' <=> At(u, j)
      BY <2>1 DEF vars, HasRow, At, Inv
    <3>3. \A j \in Codes : RowsRight(j)'
      BY <2>1, <3>1 DEF vars, RowsRight, Inv
    <3> QED BY <2>1, <3>2, <3>3 DEF vars, TypeOK, Inv
  <2>2. CASE CarefulNext
    <3>1. TypeOK'
      BY <2>2, HandlerType, OtherType DEF CarefulNext
    <3>2. Inv'
      BY <2>2, HandlerInv, OtherInv DEF CarefulNext
    <3> QED BY <3>1, <3>2
  <2> QED BY <2>1, <2>2
<1> QED BY <1>1, <1>2, PTL DEF CarefulSpec

\* When the operator edits no voucher in flight and the API is stopped between
\* redemptions, a credit that failed never eats a code (voucher.go:581-582).
THEOREM CodesNotEaten == CarefulSpec => []NothingEaten
<1>1. TypeOK /\ Inv => NothingEaten
  BY DEF Inv, RowsRight, NothingEaten
<1> QED BY <1>1, CarefulInv, PTL
-----------------------------------------------------------------------------
(***************************************************************************)
(* Refinement: what the table and the history are worth, step by step.     *)
(***************************************************************************)
Kept(k)   == Worth(k)' = Worth(k) /\ Owner(k)' = Owner(k)

\* What a code is worth depends on its status and on its credit only.
LEMMA SameWorth ==
  ASSUME NEW k \in Codes, voucher'[k].status = voucher[k].status,
         paid'[k] = paid[k], payee'[k] = payee[k]
  PROVE  Kept(k)
BY DEF Kept, Worth, Owner

\* A step after which every code is worth what it was is a stutter or a change
\* of the bans in the abstract table.
LEMMA AllKept ==
  ASSUME \A k \in Codes : Kept(k), banned' = banned \/ banned' \subseteq Clients
  PROVE  [Ledger!Next]_(Ledger!vars)
<1>1. [k \in Codes |-> Worth(k)]' = [k \in Codes |-> Worth(k)]
  BY DEF Kept
<1>2. [k \in Codes |-> Owner(k)]' = [k \in Codes |-> Owner(k)]
  BY DEF Kept
<1> QED BY <1>1, <1>2 DEF Ledger!Next, Ledger!Ban, Ledger!vars

\* A step that changes the worth of one code is an update of that code.
LEMMA OneMoved ==
  ASSUME NEW k \in Codes, NEW s, NEW o, Worth(k)' = s, Owner(k)' = o,
         \A j \in Codes \ {k} : Kept(j)
  PROVE  /\ [j \in Codes |-> Worth(j)]' = [[j \in Codes |-> Worth(j)] EXCEPT ![k] = s]
         /\ [j \in Codes |-> Owner(j)]' = [[j \in Codes |-> Owner(j)] EXCEPT ![k] = o]
BY DEF Kept

\* Every step of a handler is a step of the ledger or a stutter: an insert
\* issues, a credit spends, and claiming, giving back and binding change nothing.
LEMMA HandlerRefines ==
  ASSUME TypeOK, Inv, NEW t \in Threads, Handler(t)
  PROVE  [Ledger!Next]_(Ledger!vars)
<1>0. /\ voucher \in [Codes -> Row] /\ paid \in [Codes -> Nat] /\ issue \in [Codes -> Nat]
      /\ payee \in [Codes -> Clients \cup {NoClient}]
  BY LimitsAssumption DEF TypeOK
<1>a. banned' = banned
  BY DEF Handler, Draw, Insert, BanCheck, Refuse, Claim, Credit, Rollback, Bind, Clear, world
<1>b. ASSUME UNCHANGED <<voucher, paid, payee>> PROVE [Ledger!Next]_(Ledger!vars)
  BY <1>a, <1>b, SameWorth, AllKept
<1>1. CASE Draw(t) \/ BanCheck(t) \/ Refuse(t) \/ Clear(t)
  BY <1>1, <1>b DEF Draw, BanCheck, Refuse, Clear, history
<1>2. CASE Insert(t)
  <2>0. PICK k \in Codes : k = th[t].code
    BY <1>2 DEF Insert, TypeOK, Proper
  <2>1. CASE UNCHANGED <<voucher, history>>
    BY <2>1, <1>b DEF history
  <2>2. CASE /\ Issued(k)
             /\ voucher' = [voucher EXCEPT ![k] = [NoRow EXCEPT !.status = "unused", !.id = issue[k] + 1]]
    <3>1. voucher'[k].status = "unused" /\ paid'[k] = 0
      BY <1>0, <2>2 DEF Issued, NoRow
    <3>2. Worth(k)' = "live" /\ Owner(k)' = NoClient
      BY <3>1 DEF Worth, Owner
    <3>3. \A j \in Codes \ {k} : Kept(j)
      BY <1>0, <2>2, SameWorth DEF Issued
    <3>4. Ledger!Issue(k)
      BY <1>a, <3>2, <3>3, OneMoved DEF Ledger!Issue
    <3> QED BY <3>4 DEF Ledger!Next
  <2> QED BY <1>2, <2>0, <2>1, <2>2 DEF Insert
<1>3. CASE Claim(t)
  <2>0. PICK k \in Codes : k = th[t].code
    BY <1>3 DEF Claim, TypeOK, Proper
  <2>1. CASE UNCHANGED voucher
    BY <1>3, <2>1, <1>b DEF Claim, history
  <2>2. CASE Claimable(k) /\ voucher' = [voucher EXCEPT ![k].status = "used", ![k].mac = th[t].client]
    <3>0. UNCHANGED <<paid, payee>>
      BY <1>3 DEF Claim, history
    <3>1. voucher[k].status = "unused" /\ voucher'[k].status = "used" /\ paid'[k] = 0 /\ paid[k] = 0
      BY <1>0, <2>2, <3>0 DEF Claimable, Row, Inv, RowsRight
    <3>2. Kept(k)
      BY <3>1 DEF Kept, Worth, Owner
    <3>3. \A j \in Codes \ {k} : Kept(j)
      BY <1>0, <2>2, <3>0, SameWorth
    <3> QED BY <1>a, <3>2, <3>3, AllKept
  <2> QED BY <1>3, <2>0, <2>1, <2>2 DEF Claim
<1>4. CASE Credit(t)
  <2>0. PICK k \in Codes : k = th[t].code
    BY <1>4 DEF Credit, TypeOK, Proper, Claiming
  <2>c. PICK c \in Clients : c = th[t].client
    BY <1>4 DEF Credit, TypeOK, Proper, Claiming, Redeeming
  <2>1. CASE UNCHANGED <<paid, payee>>
    BY <1>4, <2>1, <1>b DEF Credit
  <2>2. CASE ~Barred(c) /\ paid' = [paid EXCEPT ![k] = paid[k] + 1] /\ payee' = [payee EXCEPT ![k] = c]
    <3>1. voucher' = voucher /\ voucher[k].status = "used" /\ paid[k] = 0
      BY <1>4, <2>0 DEF Credit, Inv, HasRow, Claiming
    <3>2. paid'[k] = 1 /\ payee'[k] = c
      BY <1>0, <2>2, <3>1
    <3>3. Worth(k) = "live" /\ Worth(k)' = "spent" /\ Owner(k)' = c
      BY <3>1, <3>2 DEF Worth, Owner
    <3>4. \A j \in Codes \ {k} : Kept(j)
      BY <1>0, <2>2, <3>1, SameWorth
    <3> QED BY <1>a, <2>2, <3>3, <3>4, OneMoved DEF Ledger!Next, Ledger!Spend, Barred
  <2> QED BY <1>4, <2>0, <2>c, <2>1, <2>2 DEF Credit
<1>5. CASE Rollback(t)
  <2>0. PICK k \in Codes : k = th[t].code
    BY <1>5 DEF Rollback, TypeOK, Proper, Claiming
  <2>1. UNCHANGED <<paid, payee>>
    BY <1>5 DEF Rollback, history
  <2>2. CASE UNCHANGED voucher
    BY <2>1, <2>2, <1>b
  <2>3. CASE voucher' = [voucher EXCEPT ![k].status = "unused", ![k].mac = NoClient]
    <3>1. voucher[k].status = "used" /\ voucher'[k].status = "unused" /\ paid[k] = 0
      BY <1>0, <1>5, <2>0, <2>3 DEF Rollback, Inv, HasRow, Claiming, Row
    <3>2. Kept(k)
      BY <2>1, <3>1 DEF Kept, Worth, Owner
    <3>3. \A j \in Codes \ {k} : Kept(j)
      BY <1>0, <2>1, <2>3, SameWorth
    <3> QED BY <1>a, <3>2, <3>3, AllKept
  <2> QED BY <1>5, <2>0, <2>2, <2>3 DEF Rollback
<1>6. CASE Bind(t)
  <2>1. UNCHANGED <<paid, payee>> /\ \A j \in Codes : voucher'[j].status = voucher[j].status
    BY <1>0, <1>6 DEF Bind, history, Row
  <2> QED BY <1>a, <2>1, SameWorth, AllKept
<1> QED BY <1>1, <1>2, <1>3, <1>4, <1>5, <1>6 DEF Handler

\* So is every other step of careful use.
LEMMA OtherRefines ==
  ASSUME TypeOK, Inv
  PROVE  /\ \A t \in Threads : Request(t) => [Ledger!Next]_(Ledger!vars)
         /\ \A k \in Codes : Operator(k) => [Ledger!Next]_(Ledger!vars)
         /\ Outside \/ Tick \/ Restart => [Ledger!Next]_(Ledger!vars)
<1>0. /\ voucher \in [Codes -> Row] /\ paid \in [Codes -> Nat] /\ issue \in [Codes -> Nat]
      /\ payee \in [Codes -> Clients \cup {NoClient}] /\ banned \subseteq Clients
  BY LimitsAssumption DEF TypeOK
<1>1. ASSUME UNCHANGED <<voucher, paid, payee>>, banned' = banned \/ banned' \subseteq Clients
      PROVE  [Ledger!Next]_(Ledger!vars)
  BY <1>1, SameWorth, AllKept
<1>2. ASSUME NEW k \in Codes, Operator(k) PROVE [Ledger!Next]_(Ledger!vars)
  <2>0. banned' = banned
    BY <1>2 DEF Operator, Reissue, Disable, Delete, world
  <2>1. \A j \in Codes \ {k} : Kept(j)
    <3>1. \A j \in Codes \ {k} : UNCHANGED <<voucher[j], paid[j], payee[j]>>
      BY <1>0, <1>2 DEF Operator, Reissue, Disable, Delete, Issued, history
    <3> QED BY <3>1, SameWorth
  <2>2. CASE Reissue(k) /\ voucher[k].status = "unused"
    <3>1. voucher'[k].status = "unused" /\ UNCHANGED <<paid, payee>>
      BY <1>0, <2>2 DEF Reissue, NoRow, history
    <3>2. Kept(k)
      BY <2>2, <3>1, SameWorth
    <3> QED BY <2>0, <2>1, <3>2, AllKept
  <2>3. CASE Reissue(k) /\ voucher[k].status # "unused"
    <3>1. voucher'[k].status = "unused" /\ paid'[k] = 0
      BY <1>0, <2>3 DEF Reissue, NoRow, Issued
    <3>2. Worth(k)' = "live" /\ Owner(k)' = NoClient
      BY <3>1 DEF Worth, Owner
    <3>3. Ledger!Issue(k)
      BY <2>0, <2>1, <3>2, OneMoved DEF Ledger!Issue
    <3> QED BY <3>3 DEF Ledger!Next
  <2>4. CASE Disable(k) \/ Delete(k)
    <3>1. voucher[k].status # "absent" /\ voucher'[k].status \in {"disabled", "absent"}
      BY <1>0, <2>4 DEF Disable, Delete, NoRow, Row
    <3>2. PICK s \in {"void", "none"} : Worth(k)' = s
      BY <3>1 DEF Worth
    <3>3. Owner(k)' = NoClient /\ Worth(k) # "none"
      BY <3>1 DEF Worth, Owner
    <3> QED BY <2>0, <2>1, <3>2, <3>3, OneMoved DEF Ledger!Next, Ledger!Withdraw
  <2> QED BY <1>2, <2>2, <2>3, <2>4 DEF Operator
<1>3. ASSUME NEW c \in Clients, Detach(c) PROVE [Ledger!Next]_(Ledger!vars)
  <2>1. /\ \A k \in Codes : voucher'[k].status = voucher[k].status
        /\ UNCHANGED <<paid, payee, banned>>
    BY <1>0, <1>3 DEF Detach, Row, history, world
  <2> QED BY <2>1, SameWorth, AllKept
<1>4. ASSUME NEW c \in Clients, Ban(c) PROVE [Ledger!Next]_(Ledger!vars)
  BY <1>0, <1>1, <1>4 DEF Ban, history
<1>5. ASSUME NEW t \in Threads, Request(t) PROVE [Ledger!Next]_(Ledger!vars)
  BY <1>1, <1>5 DEF Request, Generate, Redeem, history, world
<1>6. CASE Tick \/ Restart
  BY <1>1, <1>6 DEF Tick, Restart, history, world
<1> QED BY <1>2, <1>3, <1>4, <1>5, <1>6 DEF Outside

\* In careful use the voucher table implements the ledger: an issued code is
\* credited at most once, to one device that is not banned, and a code whose
\* credit failed is still worth it.
THEOREM TableKeepsLedger == CarefulSpec => KeepsLedger
<1>1. Init => Ledger!Init
  BY DEF Init, Ledger!Init, Worth, Owner, NoRow
<1>2. TypeOK /\ Inv /\ [CarefulNext]_vars => [Ledger!Next]_(Ledger!vars)
  <2> SUFFICES ASSUME TypeOK, Inv, [CarefulNext]_vars
               PROVE  [Ledger!Next]_(Ledger!vars)
    OBVIOUS
  <2>1. CASE UNCHANGED vars
    BY <2>1, SameWorth, AllKept DEF vars
  <2>2. CASE CarefulNext
    BY <2>2, HandlerRefines, OtherRefines DEF CarefulNext
  <2> QED BY <2>1, <2>2
<1> QED BY <1>1, <1>2, CarefulInv, PTL DEF CarefulSpec, KeepsLedger, Ledger!Spec
-----------------------------------------------------------------------------
(***************************************************************************)
(* The throttle.  Pending(c) are the requests of c that passed the check   *)
(* and may still be counted as wrong; what counts of c's failures and they *)
(* together never exceed the limit and one request per goroutine.          *)
(***************************************************************************)
Pending(c) == {t \in Threads : th[t].pc \in {"ban", "claim", "refuse"} /\ th[t].client = c}
Counting(c) == IF Current(c) THEN fails[c].n ELSE 0

Counted ==
  \A c \in Clients : /\ fails[c].n <= FailLimit + Cardinality(Threads)
                     /\ Counting(c) + Cardinality(Pending(c)) <= FailLimit + Cardinality(Threads)

\* Sizes of sets of goroutines are naturals, and grow with the set.
LEMMA ThreadSetSizes ==
  /\ Cardinality(Threads) \in Nat
  /\ \A S \in SUBSET Threads : /\ Cardinality(S) \in Nat /\ Cardinality(S) <= Cardinality(Threads)
                               /\ \A t \in S : Cardinality(S \ {t}) = Cardinality(S) - 1
                               /\ \A R \in SUBSET S : /\ Cardinality(R) \in Nat
                                                     /\ Cardinality(R) <= Cardinality(S)
<1>1. \A S \in SUBSET Threads : IsFiniteSet(S)
  BY ThreadsAssumption, FS_Subset
<1> QED BY <1>1, ThreadsAssumption, FS_Subset, FS_CardinalityType, FS_RemoveElement

\* A step that counts no failure and lets no request past the check keeps the bound.
LEMMA Fewer ==
  ASSUME TypeOK, Counted, UNCHANGED fails, now' \in Nat, now <= now',
         \A c \in Clients : Pending(c)' \subseteq Pending(c)
  PROVE  Counted'
<1> SUFFICES ASSUME NEW c \in Clients
             PROVE  /\ fails'[c].n <= FailLimit + Cardinality(Threads)
                    /\ Counting(c)' + Cardinality(Pending(c)') <= FailLimit + Cardinality(Threads)
  BY DEF Counted
<1>0. /\ fails[c].n \in Nat /\ fails[c].since \in Nat /\ now \in Nat /\ Window \in Nat /\ FailLimit \in Nat
  BY LimitsAssumption DEF TypeOK, Fails
<1>1. Current(c)' => Current(c)
  BY <1>0 DEF Current
<1>2. Counting(c) \in Nat /\ Counting(c)' \in Nat /\ Counting(c)' <= Counting(c)
  BY <1>0, <1>1 DEF Counting
<1>3. Pending(c) \in SUBSET Threads /\ Pending(c)' \in SUBSET Pending(c)
  BY DEF Pending
<1>4. Cardinality(Pending(c)') <= Cardinality(Pending(c)) /\ Cardinality(Pending(c)) \in Nat
      /\ Cardinality(Pending(c)') \in Nat /\ Cardinality(Threads) \in Nat
  BY <1>3, ThreadSetSizes
<1> QED BY <1>0, <1>2, <1>4 DEF Counted

\* A wrong code is counted once, by a request that was pending until then.
LEMMA RefuseCounts ==
  ASSUME TypeOK, Counted, NEW t \in Threads, Refuse(t)
  PROVE  Counted'
<1>0. /\ th \in [Threads -> Thread] /\ fails \in [Clients -> Fails] /\ now \in Nat
      /\ FailLimit \in Nat /\ Window \in Nat /\ Cardinality(Threads) \in Nat
  BY LimitsAssumption, ThreadSetSizes DEF TypeOK
<1>1. PICK c \in Clients : c = th[t].client /\ t \in Pending(c)
  BY DEF Refuse, TypeOK, Proper, Redeeming, Pending
<1>2. \A d \in Clients : Pending(d)' \subseteq Pending(d) \ {t}
  BY <1>0 DEF Refuse, Done, Idle, Pending
<1> SUFFICES ASSUME NEW d \in Clients
             PROVE  /\ fails'[d].n <= FailLimit + Cardinality(Threads)
                    /\ Counting(d)' + Cardinality(Pending(d)') <= FailLimit + Cardinality(Threads)
  BY DEF Counted
<1>3. /\ Pending(d) \in SUBSET Threads /\ Pending(d) \ {t} \in SUBSET Threads
      /\ Pending(d)' \in SUBSET (Pending(d) \ {t}) /\ Pending(d)' \in SUBSET Pending(d)
  BY <1>2 DEF Pending
<1>4. /\ Cardinality(Pending(d)) \in Nat /\ Cardinality(Pending(d)') \in Nat
      /\ Cardinality(Pending(d)') <= Cardinality(Pending(d))
      /\ Cardinality(Pending(d)) <= Cardinality(Threads)
  BY <1>3, ThreadSetSizes
<1>5. CASE d # c
  <2>1. fails'[d] = fails[d] /\ now' = now
    BY <1>0, <1>1, <1>5 DEF Refuse, world
  <2>2. Counting(d)' = Counting(d) /\ Counting(d) \in Nat
    BY <1>0, <2>1 DEF Counting, Current, Fails
  <2> QED BY <1>0, <1>4, <2>1, <2>2 DEF Counted, Fails
<1>6. CASE d = c
  <2>1. Cardinality(Pending(c)') <= Cardinality(Pending(c)) - 1
    <3>1. Cardinality(Pending(c) \ {t}) = Cardinality(Pending(c)) - 1
      BY <1>1, <1>3, <1>6, ThreadSetSizes
    <3>2. Cardinality(Pending(c)') <= Cardinality(Pending(c) \ {t})
      BY <1>3, <1>6, ThreadSetSizes
    <3> QED BY <3>1, <3>2
  <2>2. CASE Current(c)
    <3>1. fails'[c].n = fails[c].n + 1 /\ fails'[c].since = fails[c].since /\ now' = now
      BY <1>0, <1>1, <2>2 DEF Refuse, world, Fails
    <3>2. Counting(c) = fails[c].n /\ Counting(c)' = fails[c].n + 1 /\ fails[c].n \in Nat
      BY <1>0, <2>2, <3>1 DEF Counting, Current, Fails
    <3>3. fails[c].n + Cardinality(Pending(c)) <= FailLimit + Cardinality(Threads)
      BY <3>2 DEF Counted
    <3> QED BY <1>0, <1>4, <1>6, <2>1, <3>1, <3>2, <3>3
  <2>3. CASE ~Current(c)
    <3>1. fails'[c].n = 1
      BY <1>0, <1>1, <2>3 DEF Refuse
    <3>2. Counting(c)' \in {0, 1}
      BY <3>1 DEF Counting
    <3> QED BY <1>0, <1>4, <1>6, <2>1, <3>1, <3>2
  <2> QED BY <2>2, <2>3
<1> QED BY <1>5, <1>6

\* A request passes the check only when what counts is within the limit.
LEMMA RedeemCounts ==
  ASSUME TypeOK, Counted, NEW t \in Threads, NEW c \in Clients, Redeem(t, c)
  PROVE  Counted'
<1>0. /\ th \in [Threads -> Thread] /\ fails \in [Clients -> Fails] /\ now \in Nat
      /\ FailLimit \in Nat /\ Window \in Nat /\ Cardinality(Threads) \in Nat
  BY LimitsAssumption, ThreadSetSizes DEF TypeOK
<1>u. UNCHANGED <<fails, now>>
  BY DEF Redeem, world
<1>1. \A u \in Threads \ {t} : th'[u] = th[u]
  BY <1>0 DEF Redeem
<1>2. th'[t].client = c
  BY <1>0 DEF Redeem, Idle
<1> SUFFICES ASSUME NEW d \in Clients
             PROVE  Counting(d)' + Cardinality(Pending(d)') <= FailLimit + Cardinality(Threads)
  BY <1>u DEF Counted
<1>3. Counting(d)' = Counting(d) /\ Counting(d) \in Nat
  BY <1>0, <1>u DEF Counting, Current, Fails
<1>4. Pending(d) \in SUBSET Threads /\ Pending(d)' \in SUBSET Threads
  BY DEF Pending
<1>5. CASE d # c
  <2>1. Pending(d)' \in SUBSET Pending(d)
    BY <1>1, <1>2, <1>5 DEF Pending
  <2>2. /\ Cardinality(Pending(d)') <= Cardinality(Pending(d))
        /\ Cardinality(Pending(d)') \in Nat /\ Cardinality(Pending(d)) \in Nat
    BY <1>4, <2>1, ThreadSetSizes
  <2> QED BY <1>0, <1>3, <2>2 DEF Counted
<1>6. CASE d = c
  <2>1. Counting(c) <= FailLimit
    <3>1. fails[c].n \in Nat
      BY <1>0 DEF Fails
    <3>2. ~(Current(c) /\ fails[c].n > FailLimit)
      BY DEF Redeem, Throttled
    <3> QED BY <1>0, <3>1, <3>2 DEF Counting
  <2>2. Cardinality(Pending(d)') \in Nat /\ Cardinality(Pending(d)') <= Cardinality(Threads)
    BY <1>4, ThreadSetSizes
  <2> QED BY <1>0, <1>3, <1>6, <2>1, <2>2
<1> QED BY <1>5, <1>6

\* No other step counts a failure or lets a request past the check.
LEMMA OthersCount ==
  ASSUME TypeOK, Counted
  PROVE  /\ \A t \in Threads : Handler(t) => Counted'
         /\ \A t \in Threads : \A n \in 1..2 : Generate(t, n) => Counted'
         /\ \A k \in Codes : Operator(k) => Counted'
         /\ Outside \/ Tick \/ Restart => Counted'
<1>0. /\ th \in [Threads -> Thread] /\ fails \in [Clients -> Fails] /\ now \in Nat /\ MaxTime \in Nat
  BY LimitsAssumption DEF TypeOK
<1>1. ASSUME NEW t \in Threads, UNCHANGED <<fails, now>>, \A u \in Threads \ {t} : th'[u] = th[u],
             \/ th'[t].pc \notin {"ban", "claim", "refuse"}
             \/ th[t].pc \in {"ban", "claim", "refuse"} /\ th'[t].client = th[t].client
      PROVE  Counted'
  <2>1. \A c \in Clients : Pending(c)' \subseteq Pending(c)
    BY <1>1 DEF Pending
  <2> QED BY <1>0, <1>1, <2>1, Fewer
<1>2. ASSUME NEW t \in Threads, Handler(t) PROVE Counted'
  <2>a. \A w : th' = [th EXCEPT ![t] = w] => th'[t] = w /\ \A u \in Threads \ {t} : th'[u] = th[u]
    BY <1>0
  <2>b. th[t] \in Thread
    BY <1>0
  <2>1. CASE Draw(t)
    <3>1. th'[t].pc \in {"idle", "insert"} /\ \A u \in Threads \ {t} : th'[u] = th[u]
      BY <1>0, <2>1, <2>b DEF Draw, Done, Idle, Thread
    <3> QED BY <1>1, <2>1, <3>1 DEF Draw, world
  <2>2. CASE Insert(t)
    <3>1. th'[t].pc \in {"idle", "draw"} /\ \A u \in Threads \ {t} : th'[u] = th[u]
      BY <1>0, <2>2, <2>b DEF Insert, Done, Idle, Thread
    <3> QED BY <1>1, <2>2, <3>1 DEF Insert, world
  <2>3. CASE BanCheck(t)
    <3>1. /\ th'[t].pc = "idle" \/ th'[t].client = th[t].client
          /\ \A u \in Threads \ {t} : th'[u] = th[u]
      BY <1>0, <2>3, <2>b DEF BanCheck, Done, Goto, Idle, Thread
    <3> QED BY <1>1, <2>3, <3>1 DEF BanCheck, world
  <2>4. CASE Claim(t)
    <3>1. /\ th'[t].pc \in {"idle", "credit"} \/ th'[t].client = th[t].client
          /\ \A u \in Threads \ {t} : th'[u] = th[u]
      <4>1. CASE Done(t)
        BY <4>1, <2>a DEF Done, Idle
      <4>2. CASE Drop(t, "refuse")
        <5>1. [Idle EXCEPT !.pc = "refuse", !.client = th[t].client].client = th[t].client
          BY DEF Idle
        <5> QED BY <4>2, <5>1, <2>a DEF Drop
      <4>3. CASE th' = [th EXCEPT ![t].pc = "credit", ![t].id = voucher[th[t].code].id,
                                  ![t].issue = issue[th[t].code]]
        BY <1>0, <2>b, <4>3 DEF Thread
      <4> QED BY <2>4, <4>1, <4>2, <4>3 DEF Claim
    <3> QED BY <1>1, <2>4, <3>1 DEF Claim, world
  <2>5. CASE Credit(t)
    <3>1. th'[t].pc \in {"bind", "rollback"} /\ \A u \in Threads \ {t} : th'[u] = th[u]
      BY <1>0, <2>5, <2>b DEF Credit, Goto, Thread
    <3> QED BY <1>1, <2>5, <3>1 DEF Credit, world
  <2>6. CASE Rollback(t)
    <3>1. th'[t].pc = "idle" /\ \A u \in Threads \ {t} : th'[u] = th[u]
      BY <1>0, <2>6 DEF Rollback, Done, Idle
    <3> QED BY <1>1, <2>6, <3>1 DEF Rollback, world
  <2>7. CASE Bind(t)
    <3>1. th'[t].pc = "clear" /\ \A u \in Threads \ {t} : th'[u] = th[u]
      BY <1>0, <2>7 DEF Bind, Drop, Idle
    <3> QED BY <1>1, <2>7, <3>1 DEF Bind, world
  <2>8. CASE Clear(t)
    <3>1. /\ th'[t].pc = "idle" /\ \A u \in Threads \ {t} : th'[u] = th[u]
      BY <1>0, <2>8 DEF Clear, Done, Idle
    <3>2. now' = now /\ \A c \in Clients : fails'[c].n \in Nat /\ fails'[c] \in {fails[c], NoFails}
      BY <1>0, <2>8 DEF Clear, world, Fails, NoFails
    <3>3. \A c \in Clients : Pending(c)' \in SUBSET Pending(c) /\ Pending(c) \in SUBSET Threads
      BY <3>1 DEF Pending
    <3> SUFFICES ASSUME NEW c \in Clients
                 PROVE  /\ fails'[c].n <= FailLimit + Cardinality(Threads)
                        /\ Counting(c)' + Cardinality(Pending(c)') <= FailLimit + Cardinality(Threads)
      BY DEF Counted
    <3>4. /\ FailLimit \in Nat /\ Cardinality(Threads) \in Nat /\ Cardinality(Pending(c)) \in Nat
          /\ Cardinality(Pending(c)') \in Nat /\ Cardinality(Pending(c)') <= Cardinality(Pending(c))
          /\ Cardinality(Pending(c)) <= Cardinality(Threads)
      BY <3>3, LimitsAssumption, ThreadSetSizes
    <3>5. CASE fails'[c] = fails[c]
      <4>1. Counting(c)' = Counting(c) /\ Counting(c) \in Nat /\ fails[c].n \in Nat
        BY <1>0, <3>2, <3>5 DEF Counting, Current, Fails
      <4> QED BY <3>4, <3>5, <4>1 DEF Counted
    <3>6. CASE fails'[c] = NoFails
      <4>1. fails'[c].n = 0 /\ Counting(c)' = 0
        BY <3>6 DEF NoFails, Counting
      <4> QED BY <3>4, <4>1
    <3> QED BY <3>2, <3>5, <3>6
  <2> QED BY <1>2, <2>1, <2>2, <2>3, <2>4, <2>5, <2>6, <2>7, <2>8, RefuseCounts DEF Handler
<1>3. ASSUME NEW t \in Threads, NEW n \in 1..2, Generate(t, n) PROVE Counted'
  <2>1. th'[t].pc = "draw" /\ \A u \in Threads \ {t} : th'[u] = th[u]
    BY <1>0, <1>3 DEF Generate, Idle
  <2> QED BY <1>1, <1>3, <2>1 DEF Generate, world
<1>4. ASSUME UNCHANGED <<fails, th>>, now' \in {now, now + 1} PROVE Counted'
  <2>1. \A c \in Clients : Pending(c)' \subseteq Pending(c)
    BY <1>4 DEF Pending
  <2> QED BY <1>0, <1>4, <2>1, Fewer
<1>5. CASE Restart
  <2>1. \A c \in Clients : fails'[c].n = 0 /\ Counting(c)' = 0 /\ Pending(c)' = {}
    BY <1>5 DEF Restart, NoFails, Idle, Pending, Counting, Current
  <2>2. Cardinality({}) = 0 /\ FailLimit \in Nat /\ Cardinality(Threads) \in Nat
    BY LimitsAssumption, ThreadSetSizes, FS_EmptySet
  <2>3. \A c \in Clients : Cardinality(Pending(c)') = 0
    BY <2>1, <2>2
  <2> QED BY <2>1, <2>2, <2>3 DEF Counted
<1> QED BY <1>2, <1>3, <1>4, <1>5
        DEF Operator, Reissue, Disable, Delete, Outside, Ban, Detach, Tick, world

\* Whatever requests are in flight, an address is counted no more wrong codes
\* than the limit and one for each goroutine (voucher.go:508-518).
THEOREM GuessesStayBounded == Spec => []GuessesBounded
<1>1. Init => Counted
  <2> SUFFICES ASSUME Init PROVE Counted
    OBVIOUS
  <2>1. \A c \in Clients : fails[c].n = 0 /\ Counting(c) = 0 /\ Pending(c) = {}
    BY DEF Init, NoFails, Idle, Pending, Counting, Current
  <2>2. Cardinality({}) = 0 /\ FailLimit \in Nat /\ Cardinality(Threads) \in Nat
    BY LimitsAssumption, ThreadSetSizes, FS_EmptySet
  <2>3. \A c \in Clients : Cardinality(Pending(c)) = 0
    BY <2>1, <2>2
  <2> QED BY <2>1, <2>2, <2>3 DEF Counted
<1>2. TypeOK /\ Counted /\ [Next]_vars => Counted'
  <2> SUFFICES ASSUME TypeOK, Counted, [Next]_vars
               PROVE  Counted'
    OBVIOUS
  <2>1. CASE UNCHANGED vars
    BY <2>1 DEF vars, Counted, Counting, Current, Pending
  <2>2. CASE Next
    BY <2>2, RedeemCounts, OthersCount DEF Next, Request
  <2> QED BY <2>1, <2>2
<1>3. Counted => GuessesBounded
  BY DEF Counted, GuessesBounded
<1> QED BY <1>1, <1>2, <1>3, TypeCorrect, PTL DEF Spec
=============================================================================
