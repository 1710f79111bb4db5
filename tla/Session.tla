------------------------------ MODULE Session ------------------------------
(***************************************************************************)
(* The life of a paid session: handlers/session.go and the two operations  *)
(* of handlers/session_admin.go that change a row.  A device (a MAC) has   *)
(* at most one row in the sessions table and is, or is not, let through by *)
(* the firewall.  The two are kept together by hand: a handler first       *)
(* changes the row in SQL and then runs `aircoins-captive-rules auth` or   *)
(* `unauth` as a subprocess, possibly in a goroutine of its own, and a     *)
(* background enforcer does the same for the rows whose time is up.        *)
(*                                                                         *)
(* Every SQL statement (or transaction) and every subprocess is one step.  *)
(* A worker remembers in its program counter what it read and which        *)
(* commands it still has to run; a row is referred to by its id, which     *)
(* changes when the row is deleted and inserted again.                     *)
(*                                                                         *)
(* Left out: what a payment is worth (the amounts are inputs), the roaming *)
(* of a session to another MAC, the IP fallback of the row lookup and the  *)
(* traffic-shaping class that follows every auth and unauth.               *)
(***************************************************************************)
EXTENDS Integers, FiniteSets

CONSTANTS
  Devices,       \* client devices, by MAC address
  Threads,       \* goroutines serving HTTP requests
  Enforcer,      \* the goroutine of StartExpiryEnforcer
  Rates,         \* pausable and expirationHours of the rates on sale
  Minutes,       \* the amounts of time a payment or an admin may add
  EditStatuses,  \* the statuses an operator writes with a PATCH
  PauseLimit,    \* setting pause_limit; 0 is unlimited
  DbZone,        \* how far the database's local time is ahead of UTC
  MaxTime,       \* bound: the clock stops here and no purchase goes beyond
  MaxRows,       \* bound: rows inserted per device
  MaxFaults,     \* bound: captive-rules commands that fail
  MaxBoot        \* bound: restarts of the API process

Workers  == Threads \cup {Enforcer}
Statuses == {"none", "active", "expired", "cancelled", "paused"}

ASSUME EnforcerAssumption == Enforcer \notin Threads
ASSUME RatesAssumption    == Rates \subseteq [pausable : BOOLEAN, hours : Nat]
ASSUME MinutesAssumption  == Minutes \subseteq Nat \ {0}
ASSUME EditAssumption     == EditStatuses \subseteq Statuses \ {"none"}
ASSUME ZoneAssumption     == DbZone \in Int
ASSUME LimitsAssumption   == {PauseLimit, MaxTime, MaxRows, MaxFaults, MaxBoot} \subseteq Nat

VARIABLES
  row,      \* row[d]: the row of device d in the sessions table
  open,     \* devices the firewall lets through (authorized MACs)
  now,      \* wall-clock time
  th,       \* th[t]: where worker t stands
  serving,  \* ListenAndServe was reached: requests are accepted
  owed,     \* history: time of d paid for, neither used up nor forfeited
  faults,   \* captive-rules commands that failed so far
  boots     \* restarts so far

vars == <<row, open, now, th, serving, owed, faults, boots>>
world == <<now, serving, faults, boots>>

(***************************************************************************)
(* exp is expires_at; paused says paused_at is set; bank is                *)
(* remaining_seconds_at_pause; deadline is pause_expires_at, 0 for NULL.   *)
(***************************************************************************)
Row == [id : Nat, status : Statuses, exp : Nat, paused : BOOLEAN, bank : Nat,
        deadline : Nat, pauses : Nat, pausable : BOOLEAN, hours : Nat]
NoRow(id) == [id |-> id, status |-> "none", exp |-> 0, paused |-> FALSE, bank |-> 0,
              deadline |-> 0, pauses |-> 0, pausable |-> FALSE, hours |-> 0]

PCs == {"idle", "auth", "unauth",     \* commands to run for every row of todo
        "pause", "resume",            \* selected the row, not yet updated
        "force", "forced",            \* forceExpirePaused: before, after its UPDATE
        "editlive", "editdead",       \* PATCH: read the status, active or not
        "deletelive", "delete",       \* DELETE: before unauth, before the transaction
        "list", "recover", "listen"}  \* enforcer: between its passes
Ref    == [dev : Devices, id : Nat]
Worker == [pc : PCs, todo : SUBSET Ref, cur : SUBSET Ref, bank : Nat, deadline : Nat]
Idle   == [pc |-> "idle", todo |-> {}, cur |-> {}, bank |-> 0, deadline |-> 0]

\* A handler between its two statements has the one row it selected.
Selecting == {"pause", "resume", "editlive", "editdead", "deletelive", "delete"}
Proper(w) == w.pc \in Selecting => \E r \in w.todo : w.todo = {r}

TypeOK ==
  /\ row \in [Devices -> Row]
  /\ open \subseteq Devices
  /\ now \in 0..MaxTime
  /\ th \in [Workers -> Worker]
  /\ \A t \in Workers : Proper(th[t])
  /\ serving \in BOOLEAN
  /\ owed \in [Devices -> Nat]
  /\ faults \in 0..MaxFaults
  /\ boots \in 0..MaxBoot

Init ==
  /\ row = [d \in Devices |-> NoRow(0)]
  /\ open = {}
  /\ now = 0
  /\ th = [t \in Workers |-> Idle]
  /\ serving = FALSE
  /\ owed = [d \in Devices |-> 0]
  /\ faults = 0
  /\ boots = 0

----------------------------------------------------------------------------
\* The row as the UPDATEs of Pause, Resume and forceExpirePaused leave it.
PausedRow(r, bank, deadline) ==
  [r EXCEPT !.paused = TRUE, !.bank = bank, !.deadline = deadline, !.pauses = @ + 1]
ResumedRow(r, exp) ==
  [r EXCEPT !.paused = FALSE, !.bank = 0, !.deadline = 0, !.exp = exp]
ForfeitedRow(r) ==
  [r EXCEPT !.status = "expired", !.paused = FALSE, !.bank = 0, !.deadline = 0]

Later(a, b) == IF a > b THEN a ELSE b
Active(r)   == r.status = "active"
Running(r)  == Active(r) /\ ~r.paused /\ r.exp > now
Overdue(r)  == Active(r) /\ ~r.paused /\ r.exp <= now
Elapsed(r)  == Active(r) /\ r.paused /\ r.deadline # 0 /\ r.deadline <= now
Left(r)     == CASE Active(r) /\ r.paused -> r.bank
                 [] Running(r)            -> r.exp - now
                 [] OTHER                 -> 0

RefOf(d)    == [dev |-> d, id |-> row[d].id]
Refs(D)     == {RefOf(d) : d \in D}
Exists(r)   == row[r.dev].id = r.id /\ row[r.dev].status # "none"
Devs(w)     == {r.dev : r \in w.todo \cup w.cur}
Quiet(d)    == \A t \in Workers : d \notin Devs(th[t])

\* What a worker does once nothing of its list is left: a request is over, the
\* enforcer goes on to its next pass and, after a start, opens the server.
Finished(t, pc) ==
  IF t # Enforcer THEN Idle
  ELSE [Idle EXCEPT !.pc = CASE pc = "unauth" -> "list"
                             [] pc = "auth"   -> "listen"
                             [] OTHER         -> IF serving THEN "idle" ELSE "recover"]
Work(t, pc, todo) ==
  th' = [th EXCEPT ![t] = IF todo = {} THEN Finished(t, pc)
                          ELSE [Idle EXCEPT !.pc = pc, !.todo = todo]]
Accepts(t) == t \in Threads /\ serving /\ th[t].pc = "idle"
Sole(t)    == CHOOSE r \in th[t].todo : TRUE

----------------------------------------------------------------------------
(***************************************************************************)
(* creditSession, from Start, AdminCreate and a voucher redemption, and    *)
(* the `auth` that its caller runs afterwards.                             *)
(***************************************************************************)
Fresh(id, n, rate) ==
  [NoRow(id) EXCEPT !.status = "active", !.exp = now + n,
                    !.pausable = rate.pausable, !.hours = rate.hours]

\* Mutant of Credited: the row is reset even when the device is online.
CreditedAfresh(r, n, rate) == Fresh(Later(r.id, 1), n, rate)

Credited(r, n, rate) ==
  IF Active(r) /\ r.exp > now THEN [r EXCEPT !.exp = @ + n]
  ELSE IF r.status = "none" THEN Fresh(r.id + 1, n, rate)
  ELSE Fresh(r.id, n, rate)

Credit(t, d, n, rate) ==
  LET r == Credited(row[d], n, rate) IN
  /\ Accepts(t)
  /\ r.exp <= MaxTime /\ r.id <= MaxRows
  /\ row' = [row EXCEPT ![d] = r]
  /\ owed' = [owed EXCEPT ![d] = @ + n]
  /\ Work(t, "auth", {[dev |-> d, id |-> r.id]})
  /\ UNCHANGED <<open, world>>

\* The admin's Extend works on any active row, a paused one included.
Extend(t, d, n) ==
  LET e == Later(row[d].exp, now) + n IN
  /\ Accepts(t)
  /\ Active(row[d])
  /\ e <= MaxTime
  /\ row' = [row EXCEPT ![d].exp = e]
  /\ owed' = [owed EXCEPT ![d] = @ + n]
  /\ Work(t, "auth", {RefOf(d)})
  /\ UNCHANGED <<open, world>>

\* Mutant of End: the reason of the request is stored as the status.
EndWithReason(t, d, s) ==
  /\ Accepts(t)
  /\ row[d].status # "none"
  /\ row' = [row EXCEPT ![d].status = "admin", ![d].exp = now]
  /\ owed' = [owed EXCEPT ![d] = 0]
  /\ Work(t, "unauth", {RefOf(d)})
  /\ UNCHANGED <<open, world>>

End(t, d, s) ==
  /\ Accepts(t)
  /\ row[d].status # "none"
  /\ row' = [row EXCEPT ![d].status = s, ![d].exp = now]
  /\ owed' = [owed EXCEPT ![d] = 0]
  /\ Work(t, "unauth", {RefOf(d)})
  /\ UNCHANGED <<open, world>>

----------------------------------------------------------------------------
(***************************************************************************)
(* Pause and Resume read the row, decide, and write it with a second       *)
(* statement whose WHERE clause repeats part of the decision.  Pause takes *)
(* the time left from Go's clock: expires_at is stored in the database's   *)
(* local time and read back as if it were UTC.                             *)
(***************************************************************************)
PauseSelect(t, d) ==
  LET r == row[d] IN
  /\ Accepts(t)
  /\ Running(r) /\ r.pausable
  /\ PauseLimit = 0 \/ r.pauses < PauseLimit
  /\ th' = [th EXCEPT ![t] =
       [pc |-> "pause", todo |-> {RefOf(d)}, cur |-> {},
        bank |-> Later(r.exp + DbZone - now, 0),
        deadline |-> IF r.hours > 0 THEN now + r.hours ELSE 0]]
  /\ UNCHANGED <<row, open, owed, world>>

\* Mutant of Pausable: the UPDATE asks for the id and the status only.
PausableByStatus(r) == Exists(r) /\ Active(row[r.dev])

Pausable(r) == Exists(r) /\ Running(row[r.dev])

PauseUpdate(t) ==
  LET r == Sole(t) IN
  /\ th[t].pc = "pause"
  /\ \/ /\ Pausable(r)
        /\ row' = [row EXCEPT ![r.dev] = PausedRow(@, th[t].bank, th[t].deadline)]
        /\ Work(t, "unauth", {r})
     \/ /\ ~Pausable(r)
        /\ Work(t, "unauth", {})
        /\ UNCHANGED row
  /\ UNCHANGED <<open, owed, world>>

ResumeSelect(t, d) ==
  LET r == row[d] IN
  /\ Accepts(t)
  /\ Active(r) /\ r.paused
  /\ th' = [th EXCEPT ![t] =
       [Idle EXCEPT !.pc = IF r.deadline # 0 /\ r.deadline < now THEN "force" ELSE "resume",
                    !.todo = {RefOf(d)}, !.bank = r.bank]]
  /\ UNCHANGED <<row, open, owed, world>>

\* Mutant of Resumable: the UPDATE does not ask whether the row is paused.
ResumableByStatus(r) == Exists(r) /\ Active(row[r.dev])

Resumable(r) == Exists(r) /\ Active(row[r.dev]) /\ row[r.dev].paused

ResumeUpdate(t) ==
  LET r == Sole(t) IN
  /\ th[t].pc = "resume"
  /\ \/ /\ Resumable(r)
        /\ row' = [row EXCEPT ![r.dev] = ResumedRow(@, now + th[t].bank)]
        /\ Work(t, "auth", {r})
     \/ /\ ~Resumable(r)
        /\ Work(t, "auth", {})
        /\ UNCHANGED row
  /\ UNCHANGED <<open, owed, world>>

----------------------------------------------------------------------------
(***************************************************************************)
(* Expiry: one UPDATE ... RETURNING ends every overdue row (from the       *)
(* enforcer and from every Status poll); the paused rows whose window has  *)
(* elapsed are listed first and ended one by one.                          *)
(***************************************************************************)
\* Mutant of Lapsed: paused rows are not spared.
LapsedAlsoPaused == {d \in Devices : Active(row[d]) /\ row[d].exp <= now}

Lapsed == {d \in Devices : Overdue(row[d])}

\* Mutant of ExpireOverdueSessions: the rows are ended and their access is not.
ExpireRowsOnly(t) ==
  /\ th[t].pc = "idle" /\ (t = Enforcer \/ serving)
  /\ row' = [d \in Devices |-> IF d \in Lapsed THEN [row[d] EXCEPT !.status = "expired"]
                               ELSE row[d]]
  /\ owed' = [d \in Devices |-> IF d \in Lapsed THEN 0 ELSE owed[d]]
  /\ Work(t, "unauth", {})
  /\ UNCHANGED <<open, world>>

ExpireOverdueSessions(t) ==
  /\ th[t].pc = "idle" /\ (t = Enforcer \/ serving)
  /\ row' = [d \in Devices |-> IF d \in Lapsed THEN [row[d] EXCEPT !.status = "expired"]
                               ELSE row[d]]
  /\ owed' = [d \in Devices |-> IF d \in Lapsed THEN 0 ELSE owed[d]]
  /\ Work(t, "unauth", Refs(Lapsed))
  /\ UNCHANGED <<open, world>>

ListOverduePaused ==
  /\ th[Enforcer].pc = "list"
  /\ Work(Enforcer, "force", Refs({d \in Devices : Elapsed(row[d])}))
  /\ UNCHANGED <<row, open, owed, world>>

\* The UPDATE of forceExpirePaused asks for the id and the status only, and the
\* unauth follows whether or not it found a row.
ForceExpire(t) ==
  \E r \in th[t].todo :
    /\ th[t].pc = "force"
    /\ th' = [th EXCEPT ![t].pc = "forced", ![t].cur = {r}, ![t].todo = @ \ {r}]
    /\ IF Exists(r) /\ Active(row[r.dev])
         THEN /\ row' = [row EXCEPT ![r.dev] = ForfeitedRow(@)]
              /\ owed' = [owed EXCEPT ![r.dev] = 0]
         ELSE UNCHANGED <<row, owed>>
    /\ UNCHANGED <<open, world>>

----------------------------------------------------------------------------
(***************************************************************************)
(* runCaptiveRules: the subprocess runs, or it fails and only the log says *)
(* so; the caller goes on either way.                                      *)
(***************************************************************************)
Runs(D) == \/ open' = D /\ UNCHANGED faults
           \/ faults < MaxFaults /\ faults' = faults + 1 /\ UNCHANGED open

Auth(t) ==
  \E r \in th[t].todo :
    /\ th[t].pc = "auth"
    /\ Runs(open \cup {r.dev})
    /\ Work(t, "auth", th[t].todo \ {r})
    /\ UNCHANGED <<row, now, serving, owed, boots>>

Unauth(t) ==
  \E r \in th[t].todo :
    /\ th[t].pc = "unauth"
    /\ Runs(open \ {r.dev})
    /\ Work(t, "unauth", th[t].todo \ {r})
    /\ UNCHANGED <<row, now, serving, owed, boots>>

UnauthForced(t) ==
  \E r \in th[t].cur :
    /\ th[t].pc = "forced"
    /\ Runs(open \ {r.dev})
    /\ Work(t, "force", th[t].todo)
    /\ UNCHANGED <<row, now, serving, owed, boots>>

----------------------------------------------------------------------------
(***************************************************************************)
(* The operator's PATCH and DELETE on a row (session_admin.go).  PATCH     *)
(* runs unauth only when the status it READ was active and the one it      *)
(* writes is terminal; it never runs auth.  DELETE runs unauth first.      *)
(***************************************************************************)
EditRead(t, d) ==
  /\ Accepts(t)
  /\ row[d].status # "none" /\ EditStatuses # {}
  /\ Work(t, IF Active(row[d]) THEN "editlive" ELSE "editdead", {RefOf(d)})
  /\ UNCHANGED <<row, open, owed, world>>

EditWrite(t) ==
  \E s \in EditStatuses :
    LET r == Sole(t)
        ends == s \in {"expired", "cancelled"} IN
    /\ th[t].pc \in {"editlive", "editdead"}
    /\ IF Exists(r)
         THEN /\ row' = [row EXCEPT ![r.dev].status = s,
                                    ![r.dev].exp = IF ends THEN now ELSE @]
              /\ owed' = [owed EXCEPT ![r.dev] = IF s = "active" THEN @ ELSE 0]
         ELSE UNCHANGED <<row, owed>>
    /\ Work(t, "unauth", IF ends /\ th[t].pc = "editlive" THEN {r} ELSE {})
    /\ UNCHANGED <<open, world>>

DeleteRead(t, d) ==
  /\ Accepts(t)
  /\ row[d].status # "none"
  /\ Work(t, IF Active(row[d]) THEN "deletelive" ELSE "delete", {RefOf(d)})
  /\ UNCHANGED <<row, open, owed, world>>

DeleteUnauth(t) ==
  /\ th[t].pc = "deletelive"
  /\ Runs(open \ Devs(th[t]))
  /\ Work(t, "delete", th[t].todo)
  /\ UNCHANGED <<row, now, serving, owed, boots>>

DeleteRow(t) ==
  LET r == Sole(t) IN
  /\ th[t].pc = "delete"
  /\ IF Exists(r)
       THEN /\ row' = [row EXCEPT ![r.dev] = NoRow(r.id)]
            /\ owed' = [owed EXCEPT ![r.dev] = 0]
       ELSE UNCHANGED <<row, owed>>
  /\ th' = [th EXCEPT ![t] = Idle]
  /\ UNCHANGED <<open, world>>

----------------------------------------------------------------------------
(***************************************************************************)
(* Startup: the enforcer makes one pass, authorizes the rows that are      *)
(* still running and only then does main() start to serve.  A restart      *)
(* loses the workers; a restart of the machine also clears the firewall.   *)
(***************************************************************************)
\* Mutant of Recover: only the overdue rows are dealt with at startup.
RecoverNobody ==
  /\ th[Enforcer].pc = "recover"
  /\ Work(Enforcer, "auth", {})
  /\ UNCHANGED <<row, open, owed, world>>

Recover ==
  /\ th[Enforcer].pc = "recover"
  /\ Work(Enforcer, "auth", Refs({d \in Devices : Running(row[d])}))
  /\ UNCHANGED <<row, open, owed, world>>

Listen ==
  /\ th[Enforcer].pc = "listen"
  /\ serving' = TRUE
  /\ th' = [th EXCEPT ![Enforcer] = Idle]
  /\ UNCHANGED <<row, open, now, owed, faults, boots>>

Restart ==
  /\ boots < MaxBoot
  /\ boots' = boots + 1
  /\ th' = [t \in Workers |-> Idle]
  /\ serving' = FALSE
  /\ open' \in {open, {}}
  /\ UNCHANGED <<row, now, owed, faults>>

Tick ==
  /\ now < MaxTime
  /\ now' = now + 1
  /\ owed' = [d \in Devices |-> IF Running(row[d]) THEN Later(owed[d] - 1, 0) ELSE owed[d]]
  /\ UNCHANGED <<row, open, th, serving, faults, boots>>

----------------------------------------------------------------------------
Request(t) ==
  \/ ExpireOverdueSessions(t)
  \/ \E d \in Devices :
       \/ \E n \in Minutes : (\E rate \in Rates : Credit(t, d, n, rate)) \/ Extend(t, d, n)
       \/ \E s \in {"expired", "cancelled"} : End(t, d, s)
       \/ PauseSelect(t, d)
       \/ ResumeSelect(t, d)
       \/ EditRead(t, d)
       \/ DeleteRead(t, d)

\* The rest of a handler that has begun, and of a pass of the enforcer.
Continue(t) ==
  \/ Auth(t) \/ Unauth(t)
  \/ PauseUpdate(t) \/ ResumeUpdate(t)
  \/ ForceExpire(t) \/ UnauthForced(t)
  \/ EditWrite(t)
  \/ DeleteUnauth(t) \/ DeleteRow(t)

EnforcerStep ==
  \/ ExpireOverdueSessions(Enforcer) \/ ListOverduePaused \/ Recover \/ Listen
  \/ Continue(Enforcer)

Next ==
  \/ \E t \in Threads : Request(t) \/ Continue(t)
  \/ EnforcerStep
  \/ Restart
  \/ Tick

Spec == Init /\ [][Next]_vars

(***************************************************************************)
(* The code takes no lock on a row across statements.  What it promises    *)
(* under all interleavings is small; the rest holds when                   *)
(*   OneAtATime     no two workers handle the same device at a time,       *)
(*   NothingPaidWhilePaused   nobody adds time to a paused session,        *)
(*   CleanCut       the process stops between requests, never within one.  *)
(***************************************************************************)
OneAtATime == \A t, u \in Workers : t # u => Devs(th[t]) \cap Devs(th[u]) = {}
NothingPaidWhilePaused ==
  \A d \in Devices : Active(row[d]) /\ row[d].paused => owed'[d] <= owed[d]
CleanCut == boots' # boots => \A d \in Devices : Quiet(d)

CarefulNext == Next /\ OneAtATime' /\ NothingPaidWhilePaused /\ CleanCut
CarefulSpec == Init /\ [][CarefulNext]_vars

\* Goroutines that can run do run, and the enforcer's 30 s ticker fires.
\* Nobody has to send a request, time need not pass, no restart has to happen.
FairCarefulSpec ==
  /\ CarefulSpec
  /\ \A t \in Threads : WF_vars(Continue(t) /\ CarefulNext)
  /\ WF_vars(EnforcerStep /\ CarefulNext)

----------------------------------------------------------------------------
(***************************************************************************)
(* Properties that hold under every interleaving.                          *)
(***************************************************************************)

\* The second statement of a Pause that lost a race never overwrites the time
\* another Pause banked (session.go:1128-1130, 1142-1146).
FrozenBankUntouched ==
  [][\A d \in Devices :
       Active(row[d]) /\ row[d].paused /\ row'[d].paused => row'[d].bank = row[d].bank]_vars

\* No operation but the operator's own takes time from a running session: a
\* second Resume that was decided while the session was still paused cannot
\* rewind expires_at after more time was bought (session.go:1215-1223).
RunningNeverRewinds ==
  [][\A d \in Devices :
       Running(row[d]) /\ Active(row'[d]) /\ ~row'[d].paused => row'[d].exp >= row[d].exp]_vars

----------------------------------------------------------------------------
(***************************************************************************)
(* Properties of careful use (CarefulSpec).                                *)
(***************************************************************************)

\* Row and firewall agree whenever nobody works on the device: who is let
\* through has an active session that is not paused, and who has time left on
\* a running session is let through - after a restart as well.  A command that
\* failed is not run again (client.go:151-158), so only while none has.
AccessMatchesSession ==
  serving /\ faults = 0 => \A d \in Devices : Quiet(d) =>
    /\ d \in open => Active(row[d]) /\ ~row[d].paused
    /\ Running(row[d]) => d \in open

\* Time that was paid for is still there until it is used up, forfeited by a
\* pause that lasted too long, or taken back by the operator; pausing, resuming,
\* extending, restarting and failing commands in any order lose none of it.
TimeKept == \A d \in Devices : owed[d] <= Left(row[d])

\* Only time that has run out, or a pause window that has elapsed, ends a
\* session without the operator (session.go:1277-1280).
Due(d) == Overdue(row[d]) \/ Elapsed(row[d])
Expires(d) == Active(row[d]) /\ ~Active(row'[d])
ForfeitsOnlyWhenDue ==
  [][\A t \in Workers : ForceExpire(t) \/ ExpireOverdueSessions(t) =>
       \A d \in Devices : Expires(d) => Due(d)]_vars

\* A session whose time is up does not keep its access: as long as the enforcer
\* runs, the access is closed or the session runs again, unless a command fails.
EndedAccessCloses ==
  \A d \in Devices : (d \in open /\ ~Running(row[d]))
                       ~> (d \notin open \/ Running(row[d]) \/ faults > 0)

=============================================================================
