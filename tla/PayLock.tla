------------------------------ MODULE PayLock ------------------------------
(***************************************************************************)
(* The per-VLAN pay lock of handlers/paylock.go and the four HTTP handlers *)
(* that use it: Arm and Disarm (coinslot.go), Start and CanStart           *)
(* (session.go).  Arm takes the lock and hands the client a ticket; Start  *)
(* trades the ticket in and frees the lock; a watchdog goroutine frees a   *)
(* lock that nobody gave back.                                             *)
(*                                                                         *)
(* The lock is a channel of capacity one (sem) next to three fields that a *)
(* mutex protects (holder, ticket, gen).  Sending to or draining the       *)
(* channel and touching the fields are separate critical sections, so each *)
(* is a step of its own here: a handler goroutine is a thread with a       *)
(* program counter and every mutex section or channel operation is atomic. *)
(*                                                                         *)
(* Callers whose address resolves to no VLAN never reach the lock (lines   *)
(* 77-81, 145-149) and are left out: every client of the model has a VLAN. *)
(***************************************************************************)
EXTENDS Integers, FiniteSets

CONSTANTS
  Clients,      \* client devices (their IP addresses)
  Vlans,        \* portal VLAN interfaces, the keys of the registry
  VlanOf,       \* resolveVLAN: the VLAN a client's address routes to
  Threads,      \* goroutines serving HTTP requests
  NoClient,     \* the empty holder string
  MaxGen,       \* bound: acquisitions per VLAN and boot
  MaxBoot       \* bound: restarts of the API process

ASSUME ClientsAssumption == NoClient \notin Clients
ASSUME VlanOfAssumption  == VlanOf \in [Clients -> Vlans]
ASSUME BoundsAssumption  == MaxGen \in Nat /\ MaxBoot \in Nat

VARIABLES
  entries,      \* VLANs that have an entry in payLockRegistry
  sem,          \* sem[v]: elements in the channel of v (capacity one)
  holder,       \* holder[v]: client recorded as the holder
  ticket,       \* ticket[v]: ticket recorded for the arm -> start handoff
  gen,          \* gen[v]: generation counter
  watchdogs,    \* the watchdog goroutines that have not ended
  th,           \* th[t]: where goroutine t stands in its handler
  got,          \* got[c]: the tickets that answers of Arm gave to client c
  accepted,     \* history: tickets Start accepted
  boot          \* number of restarts so far

vars == <<entries, sem, holder, ticket, gen, watchdogs, th, got, accepted, boot>>
lockVars == <<entries, sem, holder, ticket, gen>>

(***************************************************************************)
(* A ticket is 8 random bytes; two draws are taken to differ, so a ticket  *)
(* is identified by the acquisition it was drawn for.                      *)
(***************************************************************************)
Tickets  == [boot : Nat, vlan : Vlans, no : Nat \ {0}, to : Clients]
NoTicket == [boot |-> 0, vlan |-> "none", no |-> 0, to |-> NoClient]

PCs == {"idle",      \* no request is being served
        "set",       \* TryAcquire: sent to sem, fields not yet written
        "full",      \* TryAcquire: sem was full, holder not yet read
        "reissue",   \* Arm: the caller is the holder, ticket not yet read
        "granted",   \* TryAcquire returned true
        "drain",     \* about to drain sem in PayLockRelease
        "validated", \* Start: ticket compared equal, sem not yet drained
        "clear",     \* drained sem, fields not yet cleared
        "forget"}    \* Start: sem was empty, ticket not yet cleared

Goroutine == [pc : PCs, op : {"none", "arm", "canstart", "giveback", "start", "disarm"},
              cl : Clients \cup {NoClient}, tk : Tickets \cup {NoTicket}]
Proper(r) == (r.pc # "idle" => r.cl \in Clients) /\ (r.pc = "validated" => r.tk # NoTicket)
Watchdog  == [vlan : Vlans, gen : Nat \ {0}, at : {"asleep", "checked", "drained"}]
Idle      == [pc |-> "idle", op |-> "none", cl |-> NoClient, tk |-> NoTicket]

TypeOK ==
  /\ entries \subseteq Vlans
  /\ sem \in [Vlans -> {0, 1}]
  /\ holder \in [Vlans -> Clients \cup {NoClient}]
  /\ ticket \in [Vlans -> Tickets \cup {NoTicket}]
  /\ gen \in [Vlans -> Nat]
  /\ watchdogs \subseteq Watchdog
  /\ th \in [Threads -> Goroutine]
  /\ \A t \in Threads : Proper(th[t])
  /\ got \in [Clients -> SUBSET Tickets]
  /\ accepted \subseteq Tickets
  /\ boot \in Nat

----------------------------------------------------------------------------
At(t, v, pc) == th[t].pc = pc /\ VlanOf[th[t].cl] = v
Goto(t, pc)  == th' = [th EXCEPT ![t].pc = pc]
End(t)       == th' = [th EXCEPT ![t] = Idle]
Serve(t, pc, op, c, tk) ==
  /\ th[t].pc = "idle"
  /\ th' = [th EXCEPT ![t] = [pc |-> pc, op |-> op, cl |-> c, tk |-> tk]]

\* Mutant of ClearFields: the fields are left for the next holder to overwrite.
ClearNothing(v) == UNCHANGED <<holder, ticket>>

ClearFields(v) ==
  /\ holder' = [holder EXCEPT ![v] = NoClient]
  /\ ticket' = [ticket EXCEPT ![v] = NoTicket]

\* Acquisitions of v in this boot, the ones still to be registered included.
Acquisitions(v) == gen[v] + Cardinality({t \in Threads : At(t, v, "set")})

Init ==
  /\ entries = {}
  /\ sem = [v \in Vlans |-> 0]
  /\ holder = [v \in Vlans |-> NoClient]
  /\ ticket = [v \in Vlans |-> NoTicket]
  /\ gen = [v \in Vlans |-> 0]
  /\ watchdogs = {}
  /\ th = [t \in Threads |-> Idle]
  /\ got = [c \in Clients |-> {}]
  /\ accepted = {}
  /\ boot = 0

(***************************************************************************)
(* PayLockTryAcquire, called by Arm and CanStart: the non-blocking send.   *)
(***************************************************************************)
\* Mutant of Acquire: the send does not depend on room in the channel.
AcquireAlways(t, c, op) ==
  LET v == VlanOf[c] IN
  /\ Acquisitions(v) < MaxGen
  /\ Serve(t, "set", op, c, NoTicket)
  /\ entries' = entries \cup {v}
  /\ sem' = [sem EXCEPT ![v] = 1]
  /\ UNCHANGED <<holder, ticket, gen, watchdogs, got, accepted, boot>>

Acquire(t, c, op) ==
  LET v == VlanOf[c] IN
  /\ sem[v] = 0
  /\ Acquisitions(v) < MaxGen
  /\ Serve(t, "set", op, c, NoTicket)
  /\ entries' = entries \cup {v}
  /\ sem' = [sem EXCEPT ![v] = 1]
  /\ UNCHANGED <<holder, ticket, gen, watchdogs, got, accepted, boot>>

\* A CanStart that is refused reads holder too, but only to word its answer.
FindFull(t, c) ==
  /\ sem[VlanOf[c]] = 1
  /\ Serve(t, "full", "arm", c, NoTicket)
  /\ UNCHANGED <<lockVars, watchdogs, got, accepted, boot>>

\* Mutant of Spawn: the watchdog captures the counter before the increment.
SpawnEarly(v, g) == watchdogs' = watchdogs \cup {[vlan |-> v, gen |-> g - 1, at |-> "asleep"]}

Spawn(v, g) == watchdogs' = watchdogs \cup {[vlan |-> v, gen |-> g, at |-> "asleep"]}

\* The critical section after the send, and the watchdog it starts.
Register(t) ==
  LET c == th[t].cl
      v == VlanOf[c]
      g == gen[v] + 1
      k == [boot |-> boot, vlan |-> v, no |-> g, to |-> c] IN
  /\ th[t].pc = "set"
  /\ holder' = [holder EXCEPT ![v] = c]
  /\ ticket' = [ticket EXCEPT ![v] = k]
  /\ gen' = [gen EXCEPT ![v] = g]
  /\ Spawn(v, g)
  /\ th' = [th EXCEPT ![t].pc = "granted", ![t].tk = k]
  /\ UNCHANGED <<entries, sem, got, accepted, boot>>

\* The rejected Arm reads holder; it goes on when that is the caller itself.
ReadHolder(t) ==
  /\ th[t].pc = "full"
  /\ IF holder[VlanOf[th[t].cl]] = th[t].cl
       THEN Goto(t, "reissue")
       ELSE End(t)
  /\ UNCHANGED <<lockVars, watchdogs, got, accepted, boot>>

(***************************************************************************)
(* Arm answers armed:true with the ticket it drew (ArmAnswer) or, on a     *)
(* second tap, with the ticket it finds (Reissue).  An empty ticket is     *)
(* worth nothing to Start and is not recorded.                             *)
(***************************************************************************)
\* Mutant of Give: an empty ticket is stored like any other.
GiveEmpty(c, k) == got' = [got EXCEPT ![c] = @ \cup {k}]

Give(c, k) == got' = [got EXCEPT ![c] = @ \cup ({k} \ {NoTicket})]

ArmAnswer(t) ==
  /\ th[t].pc = "granted" /\ th[t].op = "arm"
  /\ Give(th[t].cl, th[t].tk)
  /\ End(t)
  /\ UNCHANGED <<lockVars, watchdogs, accepted, boot>>

Reissue(t) ==
  /\ th[t].pc = "reissue"
  /\ Give(th[t].cl, ticket[VlanOf[th[t].cl]])
  /\ End(t)
  /\ UNCHANGED <<lockVars, watchdogs, accepted, boot>>

\* CanStart gives the lock back at once; so does an Arm that cannot arm the slot.
GiveBack(t) ==
  /\ th[t].pc = "granted"
  /\ th' = [th EXCEPT ![t].pc = "drain", ![t].op = "giveback", ![t].tk = NoTicket]
  /\ UNCHANGED <<lockVars, watchdogs, got, accepted, boot>>

Disarm(t, c) ==
  /\ VlanOf[c] \in entries
  /\ Serve(t, "drain", "disarm", c, NoTicket)
  /\ UNCHANGED <<lockVars, watchdogs, got, accepted, boot>>

----------------------------------------------------------------------------
(***************************************************************************)
(* PayLockRelease and PayLockValidateAndRelease.  A Start whose ticket is  *)
(* not the recorded one is refused and changes nothing.                    *)
(***************************************************************************)
Validate(t, c, k) ==
  LET v == VlanOf[c] IN
  /\ v \in entries
  /\ k # NoTicket /\ ticket[v] # NoTicket /\ k = ticket[v]
  /\ Serve(t, "validated", "start", c, k)
  /\ UNCHANGED <<lockVars, watchdogs, got, accepted, boot>>

\* The drain of a Start: the ticket is accepted only if the channel was full.
DrainValidated(t) ==
  LET v == VlanOf[th[t].cl] IN
  /\ th[t].pc = "validated"
  /\ \/ /\ sem[v] = 1
        /\ sem' = [sem EXCEPT ![v] = 0]
        /\ accepted' = accepted \cup {th[t].tk}
        /\ Goto(t, "clear")
     \/ /\ sem[v] = 0
        /\ Goto(t, "forget")
        /\ UNCHANGED <<sem, accepted>>
  /\ UNCHANGED <<entries, holder, ticket, gen, watchdogs, got, boot>>

\* The drain of PayLockRelease, by whoever calls it.
Drain(t) ==
  LET v == VlanOf[th[t].cl] IN
  /\ th[t].pc = "drain"
  /\ \/ /\ sem[v] = 1
        /\ sem' = [sem EXCEPT ![v] = 0]
        /\ Goto(t, "clear")
     \/ /\ sem[v] = 0
        /\ End(t)
        /\ UNCHANGED sem
  /\ UNCHANGED <<entries, holder, ticket, gen, watchdogs, got, accepted, boot>>

Clear(t) ==
  /\ th[t].pc = "clear"
  /\ ClearFields(VlanOf[th[t].cl])
  /\ End(t)
  /\ UNCHANGED <<entries, sem, gen, watchdogs, got, accepted, boot>>

Forget(t) ==
  /\ th[t].pc = "forget"
  /\ ticket' = [ticket EXCEPT ![VlanOf[th[t].cl]] = NoTicket]
  /\ End(t)
  /\ UNCHANGED <<entries, sem, holder, gen, watchdogs, got, accepted, boot>>

----------------------------------------------------------------------------
(***************************************************************************)
(* The watchdog of generation w.gen wakes up, compares the generation,     *)
(* drains and clears; three critical sections.  It may wake at any time:   *)
(* how long 120 s are compared with a payment is not modelled.             *)
(***************************************************************************)
Move(w, at) == watchdogs' = (watchdogs \ {w}) \cup {[w EXCEPT !.at = at]}
Stop(w)     == watchdogs' = watchdogs \ {w}

\* Mutant of WatchdogCheck: the comparison with the generation is inverted.
WatchdogCheckInverted(w) ==
  /\ w.at = "asleep"
  /\ IF gen[w.vlan] # w.gen THEN Move(w, "checked") ELSE Stop(w)
  /\ UNCHANGED <<lockVars, th, got, accepted, boot>>

WatchdogCheck(w) ==
  /\ w.at = "asleep"
  /\ IF gen[w.vlan] = w.gen THEN Move(w, "checked") ELSE Stop(w)
  /\ UNCHANGED <<lockVars, th, got, accepted, boot>>

WatchdogDrain(w) ==
  /\ w.at = "checked"
  /\ \/ /\ sem[w.vlan] = 1
        /\ sem' = [sem EXCEPT ![w.vlan] = 0]
        /\ Move(w, "drained")
     \/ /\ sem[w.vlan] = 0
        /\ Stop(w)
        /\ UNCHANGED sem
  /\ UNCHANGED <<entries, holder, ticket, gen, th, got, accepted, boot>>

WatchdogClear(w) ==
  /\ w.at = "drained"
  /\ ClearFields(w.vlan)
  /\ Stop(w)
  /\ UNCHANGED <<entries, sem, gen, th, got, accepted, boot>>

\* Mutant of Restart: the ticket is reloaded, the rest of the entry is not.
RestartKeepsTickets ==
  /\ boot < MaxBoot
  /\ boot' = boot + 1
  /\ entries' = {}
  /\ sem' = [v \in Vlans |-> 0]
  /\ holder' = [v \in Vlans |-> NoClient]
  /\ gen' = [v \in Vlans |-> 0]
  /\ watchdogs' = {}
  /\ th' = [t \in Threads |-> Idle]
  /\ UNCHANGED <<ticket, got, accepted>>

\* The registry and every goroutine live in the process; tickets in the
\* portal pages of the clients survive it.
Restart ==
  /\ boot < MaxBoot
  /\ boot' = boot + 1
  /\ entries' = {}
  /\ sem' = [v \in Vlans |-> 0]
  /\ holder' = [v \in Vlans |-> NoClient]
  /\ ticket' = [v \in Vlans |-> NoTicket]
  /\ gen' = [v \in Vlans |-> 0]
  /\ watchdogs' = {}
  /\ th' = [t \in Threads |-> Idle]
  /\ UNCHANGED <<got, accepted>>

----------------------------------------------------------------------------
\* Requests that clients send.
Request(t, c) ==
  \/ \E op \in {"arm", "canstart"} : Acquire(t, c, op)
  \/ FindFull(t, c)
  \/ Disarm(t, c)
  \/ \E k \in got[c] : Validate(t, c, k)

\* Steps of a handler that is already running.
Continue(t) ==
  \/ Register(t)
  \/ ReadHolder(t)
  \/ ArmAnswer(t)
  \/ Reissue(t)
  \/ GiveBack(t)
  \/ DrainValidated(t)
  \/ Drain(t)
  \/ Clear(t)
  \/ Forget(t)

WatchdogStep(w) == WatchdogCheck(w) \/ WatchdogDrain(w) \/ WatchdogClear(w)

Next ==
  \/ \E t \in Threads : (\E c \in Clients : Request(t, c)) \/ Continue(t)
  \/ \E w \in watchdogs : WatchdogStep(w)
  \/ Restart

Spec == Init /\ [][Next]_vars

\* The Go scheduler runs every goroutine that can run, and timers fire.
\* Nothing obliges a client to send a request or the process to restart.
Fairness ==
  /\ \A t \in Threads : WF_vars(Continue(t))
  /\ \A v \in Vlans, g \in 1..MaxGen :
       WF_vars(\E w \in watchdogs : w.vlan = v /\ w.gen = g /\ WatchdogStep(w))

FairSpec == Spec /\ Fairness

(***************************************************************************)
(* The undisturbed system: nobody cancels, no payment lasts 120 s, every   *)
(* slot can be armed, the process stays up and a portal page waits for one *)
(* answer before it sends the next request.                                *)
(***************************************************************************)
Quiet(c) == \A t \in Threads : th[t].cl # c

CalmNext ==
  \E t \in Threads :
    \/ \E c \in Clients :
         /\ Quiet(c)
         /\ \/ \E op \in {"arm", "canstart"} : Acquire(t, c, op)
            \/ FindFull(t, c)
            \/ \E k \in got[c] : Validate(t, c, k)
    \/ Register(t) \/ ReadHolder(t) \/ ArmAnswer(t) \/ Reissue(t)
    \/ th[t].op = "canstart" /\ GiveBack(t)
    \/ DrainValidated(t) \/ Drain(t) \/ Clear(t) \/ Forget(t)

CalmSpec == Init /\ [][CalmNext]_vars

----------------------------------------------------------------------------
(***************************************************************************)
(* Properties that hold.                                                   *)
(***************************************************************************)

\* A full channel always has somebody who will free it if its client never
\* comes back: the goroutine that is about to start a watchdog, or a watchdog
\* of the current generation that has not drained yet.  This is what makes
\* "a stuck client cannot wedge the VLAN" (paylock.go:88) true however the
\* releases of other goroutines interleave.
WatchdogCovers ==
  \A v \in Vlans : sem[v] = 1 =>
    \/ \E t \in Threads : At(t, v, "set")
    \/ \E w \in watchdogs : w.vlan = v /\ w.gen = gen[v] /\ w.at # "drained"

\* The ticket Start compares with is the one of the last acquisition that was
\* registered, in this boot, and belongs to the recorded holder: an earlier
\* window's ticket can never validate against a later one.
TicketIsCurrent ==
  \A v \in Vlans : ticket[v] # NoTicket =>
    /\ ticket[v].boot = boot
    /\ ticket[v].vlan = v
    /\ ticket[v].no = gen[v]
    /\ ticket[v].to = holder[v]

\* A ticket that Start accepted stays recorded only until the goroutine that
\* accepted it clears it; it cannot come back later (paylock.go:166-173).
AcceptedIsLeaving ==
  \A v \in Vlans : ticket[v] \in accepted =>
    \E t \in Threads : At(t, v, "clear") /\ th[t].tk = ticket[v]

\* paylock.go:13-16: a lock that is held is eventually free again, whether or
\* not its client ever calls Start.
EventuallyFree == \A v \in Vlans : sem[v] = 1 ~> sem[v] = 0

\* coinslot.go:99-103: in the undisturbed system no two devices of a VLAN
\* hold an unredeemed ticket at a time.
Paying(c) == got[c] \ accepted # {}
OnePayer ==
  \A c, d \in Clients : c # d /\ VlanOf[c] = VlanOf[d] => ~(Paying(c) /\ Paying(d))
=============================
