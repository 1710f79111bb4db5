------------------------------ MODULE Voucher ------------------------------
(***************************************************************************)
(* Vouchers (handlers/voucher.go): the operator generates codes and edits  *)
(* or deletes their rows, a customer redeems a code.  RedeemVoucher is a   *)
(* chain of statements without a transaction around it: it claims the row, *)
(* credits a session (the transaction of creditSession), and then either   *)
(* binds the row to the session or, when the credit failed, gives the row  *)
(* back.  Failed attempts are counted per address in process memory.       *)
(*                                                                         *)
(* Each statement and each section under redeemFailMu is one step.  A code *)
(* stands for its row; a row that was deleted and generated again has a    *)
(* new id.  The session that is credited is module Session's; here it is   *)
(* the device it belongs to.                                               *)
(***************************************************************************)
EXTENDS Integers, FiniteSets

CONSTANTS
  Codes,        \* voucher codes that are ever drawn
  Clients,      \* devices, each with its address
  NoClient,
  Threads,      \* goroutines serving requests
  FailLimit,    \* redeemFailLimit
  Window,       \* redeemFailWindow
  MaxTime,      \* bound: the clock
  MaxIssues,    \* bound: times a code is generated or put back to unused
  MaxUpsets     \* bound: restarts, failing rollbacks and bindings, changes of a ban

ASSUME ClientsAssumption == NoClient \notin Clients
ASSUME ThreadsAssumption == IsFiniteSet(Threads)
ASSUME LimitsAssumption  ==
  {FailLimit, Window, MaxTime, MaxIssues, MaxUpsets} \subseteq Nat

VARIABLES
  voucher,      \* voucher[k]: the row of code k
  issue,        \* issue[k]: history, how often k was issued
  paid,         \* paid[k]: history, credits given for the current issue of k
  payee,        \* payee[k]: history, the device credited last for it
  banned,       \* devices with a row in client_bans that has not ended
  fails,        \* fails[c]: redeemFailCounts, n = 0 for no entry
  th,           \* th[t]: where goroutine t stands
  now,
  faults,       \* history, rollbacks and bindings that failed
  upsets        \* restarts, faults and changes of a ban so far

vars    == <<voucher, issue, paid, payee, banned, fails, th, now, faults, upsets>>
history == <<issue, paid, payee>>
world   == <<banned, now>>
upset   == <<faults, upsets>>

Row   == [status : {"absent", "unused", "used", "disabled"}, id : Nat,
          mac : Clients \cup {NoClient}, bound : Clients \cup {NoClient}]
NoRow == [status |-> "absent", id |-> 0, mac |-> NoClient, bound |-> NoClient]

PCs    == {"idle", "ban", "claim", "refuse", "credit", "rollback", "bind", "clear",
           "draw", "insert"}
Thread == [pc : PCs, client : Clients \cup {NoClient}, code : Codes \cup {"none"},
           id : Nat, issue : Nat, left : Nat]
Idle   == [pc |-> "idle", client |-> NoClient, code |-> "none", id |-> 0, issue |-> 0,
           left |-> 0]
Fails  == [n : Nat, since : Nat]
NoFails == [n |-> 0, since |-> 0]

Claiming == {"credit", "rollback", "bind"}
Redeeming == {"ban", "claim", "refuse", "clear"} \cup Claiming
Proper(w) ==
  /\ w.pc \in Redeeming => w.client \in Clients
  /\ w.pc \in Claiming \cup {"ban", "claim", "insert"} => w.code \in Codes

TypeOK ==
  /\ voucher \in [Codes -> Row]
  /\ issue \in [Codes -> 0..MaxIssues]
  /\ paid \in [Codes -> Nat]
  /\ payee \in [Codes -> Clients \cup {NoClient}]
  /\ banned \subseteq Clients
  /\ fails \in [Clients -> Fails]
  /\ th \in [Threads -> Thread]
  /\ \A t \in Threads : Proper(th[t])
  /\ now \in 0..MaxTime
  /\ upsets \in 0..MaxUpsets
  /\ faults \in 0..upsets

Init ==
  /\ voucher = [k \in Codes |-> NoRow]
  /\ issue = [k \in Codes |-> 0]
  /\ paid = [k \in Codes |-> 0]
  /\ payee = [k \in Codes |-> NoClient]
  /\ banned = {}
  /\ fails = [c \in Clients |-> NoFails]
  /\ th = [t \in Threads |-> Idle]
  /\ now = 0 /\ faults = 0 /\ upsets = 0

----------------------------------------------------------------------------
Goto(t, pc) == th' = [th EXCEPT ![t].pc = pc]
Drop(t, pc) == th' = [th EXCEPT ![t] = [Idle EXCEPT !.pc = pc, !.client = th[t].client]]
Done(t)     == th' = [th EXCEPT ![t] = Idle]
Upset       == upsets < MaxUpsets /\ upsets' = upsets + 1
Fault       == Upset /\ faults' = faults + 1

\* A new issue of a code: nothing has been credited for it.
Issued(k) ==
  /\ issue[k] < MaxIssues
  /\ issue' = [issue EXCEPT ![k] = @ + 1]
  /\ paid' = [paid EXCEPT ![k] = 0]
  /\ payee' = [payee EXCEPT ![k] = NoClient]

(***************************************************************************)
(* Generate: draw a code that is not in the table, insert it, and so on    *)
(* for the batch.  code is UNIQUE: an INSERT that lost a race fails and    *)
(* the batch stays as far as it came.                                      *)
(***************************************************************************)
Generate(t, n) ==
  /\ th[t].pc = "idle"
  /\ th' = [th EXCEPT ![t] = [Idle EXCEPT !.pc = "draw", !.left = n]]
  /\ UNCHANGED <<voucher, history, fails, world, upset>>

Draw(t) ==
  /\ th[t].pc = "draw"
  /\ \/ \E k \in Codes : /\ voucher[k].status = "absent"
                         /\ th' = [th EXCEPT ![t].pc = "insert", ![t].code = k]
     \/ Done(t)                                \* no free code in 50 attempts
  /\ UNCHANGED <<voucher, history, fails, world, upset>>

Insert(t) ==
  LET k == th[t].code IN
  /\ th[t].pc = "insert"
  /\ IF voucher[k].status = "absent"
       THEN /\ Issued(k)
            /\ voucher' = [voucher EXCEPT ![k] =
                             [NoRow EXCEPT !.status = "unused", !.id = issue[k] + 1]]
            /\ IF th[t].left > 1
                 THEN th' = [th EXCEPT ![t].pc = "draw", ![t].left = @ - 1]
                 ELSE Done(t)
       ELSE Done(t) /\ UNCHANGED <<voucher, history>>
  /\ UNCHANGED <<fails, world, upset>>

(***************************************************************************)
(* The operator's PATCH and DELETE are one statement each.  Putting a      *)
(* voucher back to unused clears what bound it and issues it anew.         *)
(***************************************************************************)
Reissue(k) ==
  /\ voucher[k].status # "absent"
  /\ voucher' = [voucher EXCEPT ![k] = [NoRow EXCEPT !.status = "unused", !.id = voucher[k].id]]
  /\ IF voucher[k].status = "unused" THEN UNCHANGED history ELSE Issued(k)
  /\ UNCHANGED <<fails, th, world, upset>>

Disable(k) ==
  /\ voucher[k].status # "absent"
  /\ voucher' = [voucher EXCEPT ![k].status = "disabled"]
  /\ UNCHANGED <<history, fails, th, world, upset>>

Delete(k) ==
  /\ voucher[k].status # "absent"
  /\ voucher' = [voucher EXCEPT ![k] = NoRow]
  /\ UNCHANGED <<history, fails, th, world, upset>>

\* Deleting a session detaches the vouchers bound to it.
Detach(c) ==
  /\ \E k \in Codes : voucher[k].bound = c
  /\ voucher' = [k \in Codes |-> IF voucher[k].bound = c THEN [voucher[k] EXCEPT !.bound = NoClient]
                                 ELSE voucher[k]]
  /\ UNCHANGED <<history, fails, th, world, upset>>

----------------------------------------------------------------------------
(***************************************************************************)
(* RedeemVoucher.  The throttle is read here and written in Refuse: other  *)
(* requests of the same address may pass in between.                       *)
(***************************************************************************)
Current(c) == fails[c].n > 0 /\ now - fails[c].since <= Window

\* Mutant of Throttled: an address is never refused.
ThrottledNever(c) == FALSE

Throttled(c) == Current(c) /\ fails[c].n > FailLimit

Redeem(t, c) ==
  /\ th[t].pc = "idle"
  /\ ~Throttled(c)
  /\ \/ \E k \in Codes : th' = [th EXCEPT ![t] = [Idle EXCEPT !.pc = "ban", !.client = c, !.code = k]]
     \/ th' = [th EXCEPT ![t] = [Idle EXCEPT !.pc = "refuse", !.client = c]]  \* not six characters
  /\ UNCHANGED <<voucher, history, fails, world, upset>>

BanCheck(t) ==
  /\ th[t].pc = "ban"
  /\ IF th[t].client \in banned THEN Done(t) ELSE Goto(t, "claim")
  /\ UNCHANGED <<voucher, history, fails, world, upset>>

\* redeemFailAdd
Refuse(t) ==
  LET c == th[t].client IN
  /\ th[t].pc = "refuse"
  /\ fails' = [fails EXCEPT ![c] = IF Current(c) THEN [n |-> @.n + 1, since |-> @.since]
                                   ELSE [n |-> 1, since |-> now]]
  /\ Done(t)
  /\ UNCHANGED <<voucher, history, world, upset>>

\* Mutant of Claimable: a row that is used already can be claimed too.
ClaimableUsed(k) == voucher[k].status \in {"unused", "used"}

Claimable(k) == voucher[k].status = "unused"

Claim(t) ==
  LET k == th[t].code  c == th[t].client IN
  /\ th[t].pc = "claim"
  /\ \/ /\ Claimable(k)
        /\ voucher' = [voucher EXCEPT ![k].status = "used", ![k].mac = c]
        /\ th' = [th EXCEPT ![t].pc = "credit", ![t].id = voucher[k].id,
                            ![t].issue = issue[k]]
     \/ ~Claimable(k) /\ Drop(t, "refuse") /\ UNCHANGED voucher
     \/ Done(t) /\ UNCHANGED voucher                        \* the statement failed
  /\ UNCHANGED <<history, fails, world, upset>>

\* The credit is one transaction, which looks at the ban again.
Barred(c) == c \in banned

Credit(t) ==
  LET k == th[t].code  c == th[t].client IN
  /\ th[t].pc = "credit"
  /\ \/ /\ ~Barred(c)
        /\ IF th[t].issue = issue[k]
             THEN /\ paid' = [paid EXCEPT ![k] = @ + 1]
                  /\ payee' = [payee EXCEPT ![k] = c]
             ELSE UNCHANGED <<paid, payee>>
        /\ Goto(t, "bind")
     \/ Goto(t, "rollback") /\ UNCHANGED <<paid, payee>>    \* banned, or it failed
  /\ UNCHANGED <<voucher, issue, fails, world, upset>>

\* Mutant of Rollback: a failed credit leaves the row claimed.
RollbackNothing(t) ==
  /\ th[t].pc = "rollback"
  /\ Done(t)
  /\ UNCHANGED <<voucher, history, fails, world, upset>>

Rollback(t) ==
  LET k == th[t].code IN
  /\ th[t].pc = "rollback"
  /\ Done(t)
  /\ \/ /\ IF voucher[k].id = th[t].id /\ voucher[k].status = "used"
             THEN voucher' = [voucher EXCEPT ![k].status = "unused", ![k].mac = NoClient]
             ELSE UNCHANGED voucher
        /\ UNCHANGED upset
     \/ Fault /\ UNCHANGED voucher
  /\ UNCHANGED <<history, fails, world>>

Bind(t) ==
  LET k == th[t].code IN
  /\ th[t].pc = "bind"
  /\ Drop(t, "clear")
  /\ \/ /\ IF voucher[k].status # "absent" /\ voucher[k].id = th[t].id
             THEN voucher' = [voucher EXCEPT ![k].bound = th[t].client]
             ELSE UNCHANGED voucher
        /\ UNCHANGED upset
     \/ Fault /\ UNCHANGED voucher
  /\ UNCHANGED <<history, fails, world>>

\* redeemFailClear
Clear(t) ==
  /\ th[t].pc = "clear"
  /\ fails' = [fails EXCEPT ![th[t].client] = NoFails]
  /\ Done(t)
  /\ UNCHANGED <<voucher, history, world, upset>>

----------------------------------------------------------------------------
\* A ban is set by the tap rules, and lifted by time or by the operator.
Ban(c) ==
  /\ Upset
  /\ \E b \in {banned \cup {c}, banned \ {c}} : banned' = b
  /\ UNCHANGED <<voucher, history, fails, th, now, faults>>

Tick ==
  /\ now < MaxTime /\ now' = now + 1
  /\ UNCHANGED <<voucher, history, banned, fails, th, upset>>

\* Requests and counters are process memory; the table survives.
Restart ==
  /\ Upset
  /\ th' = [t \in Threads |-> Idle]
  /\ fails' = [c \in Clients |-> NoFails]
  /\ UNCHANGED <<voucher, history, world, faults>>

Handler(t) ==
  \/ Draw(t) \/ Insert(t)
  \/ BanCheck(t) \/ Refuse(t) \/ Claim(t) \/ Credit(t) \/ Rollback(t) \/ Bind(t) \/ Clear(t)
Request(t) ==
  \/ \E n \in 1..2 : Generate(t, n)
  \/ \E c \in Clients : Redeem(t, c)
Operator(k) == Reissue(k) \/ Disable(k) \/ Delete(k)
Outside     == \E c \in Clients : Ban(c) \/ Detach(c)

Next ==
  \/ \E t \in Threads : Handler(t) \/ Request(t)
  \/ \E k \in Codes : Operator(k)
  \/ Outside
  \/ Tick
  \/ Restart

Spec == Init /\ [][Next]_vars

(***************************************************************************)
(* Careful use: the operator edits no voucher that somebody is redeeming,  *)
(* and the API is stopped between redemptions, not within one.             *)
(***************************************************************************)
InFlight(k) == \E t \in Threads : th[t].pc \in Claiming /\ th[t].code = k

CarefulNext ==
  \/ \E t \in Threads : Handler(t) \/ Request(t)
  \/ \E k \in Codes : ~InFlight(k) /\ Operator(k)
  \/ Outside
  \/ Tick
  \/ (\A k \in Codes : ~InFlight(k)) /\ Restart

CarefulSpec == Init /\ [][CarefulNext]_vars

----------------------------------------------------------------------------
\* Under every interleaving, requests in flight included, an address gets no
\* more than FailLimit wrong codes per window, and one for each request that
\* passed the check before the last of them was counted (voucher.go:508-518).
GuessesBounded == \A c \in Clients : fails[c].n <= FailLimit + Cardinality(Threads)

\* A used row that nobody is at was credited, unless a rollback failed: a
\* credit that failed does not eat the code (voucher.go:581-582).
NothingEaten ==
  \A k \in Codes : voucher[k].status = "used" /\ ~InFlight(k) /\ faults = 0 =>
    /\ paid[k] = 1
    /\ payee[k] = voucher[k].mac
    /\ voucher[k].bound \in {payee[k], NoClient}

\* The table keeps the promises of VoucherLedger: above all, a code is
\* credited at most once each time it is issued (voucher.go:546-547), never to
\* a banned device (session.go:464-467).
Worth(k) ==
  CASE voucher[k].status = "absent"   -> "none"
    [] voucher[k].status = "disabled" -> "void"
    [] OTHER                          -> IF paid[k] = 0 THEN "live" ELSE "spent"
Owner(k) == IF Worth(k) = "spent" THEN payee[k] ELSE NoClient

Ledger == INSTANCE VoucherLedger WITH state <- [k \in Codes |-> Worth(k)],
                                      owner <- [k \in Codes |-> Owner(k)]
KeepsLedger == Ledger!Spec
=============================================================================
