----------------------------- MODULE CoinWindow -----------------------------
(***************************************************************************)
(* From INSERT COIN to DONE PAYING: the portal page of a device, the Arm,  *)
(* Disarm and Start handlers, the two marker files in /run, the            *)
(* gpio-coin-listener that watches the one coin slot of the box, and the   *)
(* coin_events rows a Start turns into time.  One slot serves every VLAN,  *)
(* the pay lock is per VLAN, and the files, the rows and the lock are      *)
(* changed by processes that do not wait for each other.                   *)
(*                                                                         *)
(* The lock is taken and released in one step here (module PayLock has its *)
(* critical sections) and a ticket is valid while its device holds the     *)
(* lock; what a coin is worth and what Start does to the session are left  *)
(* out.  A coin carries the device whose customer dropped it, which the    *)
(* program cannot know: the properties compare it with who is credited.    *)
(***************************************************************************)
EXTENDS Integers, FiniteSets

CONSTANTS
  Clients,        \* client devices, each with its portal page
  Vlans, VlanOf,  \* VLANs, and the VLAN of each device
  NoClient,       \* nobody
  Durations,      \* window lengths a portal may ask for (duration_sec)
  ExtendSec,      \* ARM_EXTEND_SEC of the listener
  MaxArmDuration, \* maxArmDuration, also the widest crediting window
  LockTimeout,    \* payLockTimeout
  MaxWindowCoins, \* maxWindowCoins: rows one Start credits
  Gpiomon,        \* TRUE: the listener streams edges; FALSE: it polls the pin
  MaxTime,        \* bound: the clock stops here
  MaxCoins,       \* bound: coins on their way or recorded
  MaxBoot         \* bound: restarts of the API and of the listener

ASSUME ClientsAssumption == NoClient \notin Clients /\ VlanOf \in [Clients -> Vlans]
ASSUME TimesAssumption ==
  /\ Durations \subseteq 1..MaxArmDuration
  /\ {ExtendSec, MaxArmDuration, LockTimeout, MaxWindowCoins} \subseteq Nat \ {0}
  /\ LockTimeout <= MaxArmDuration
  /\ {MaxTime, MaxCoins, MaxBoot} \subseteq Nat
  /\ Gpiomon \in BOOLEAN

VARIABLES
  now,        \* wall-clock seconds
  armed,      \* coinslot.armed: expiry of the window, 0 when there is no file
  armedAt,    \* coinslot.armed_at: start of the window, 0 when there is no file
  lock,       \* lock[v]: who holds the pay lock of v and since when
  stream,     \* the listener's gpiomon: 0 none, otherwise the expiry it runs until
  coin,       \* coin[i]: the i-th coin and its row in coin_events
  portal,     \* portal[c]: the coin modal of c
  req,        \* req[c]: the Arm or Start of c that is being served
  cancel,     \* cancel[c]: the Disarm of c on its way or being served
  boots       \* restarts so far

vars  == <<now, armed, armedAt, lock, stream, coin, portal, req, cancel, boots>>
files == <<armed, armedAt>>

Ids    == 1..MaxCoins
Free   == [holder |-> NoClient, since |-> 0]
NoReq  == [pc |-> "none", at |-> 0, span |-> 0, ids |-> {}]

(***************************************************************************)
(* A coin is "sent" while its POST is on the way and "row" once it is in   *)
(* coin_events; of a row with processed = true nothing else is remembered. *)
(***************************************************************************)
Coin   == [st : {"none", "sent", "row", "done"}, by : Clients \cup {NoClient}, at : Nat]
NoCoin == [st |-> "none", by |-> NoClient, at |-> 0]
Spent  == [NoCoin EXCEPT !.st = "done"]

TypeOK ==
  /\ now \in 1..MaxTime
  /\ armed \in Nat /\ armedAt \in Nat /\ stream \in Nat
  /\ lock \in [Vlans -> [holder : Clients \cup {NoClient}, since : Nat]]
  /\ coin \in [Ids -> Coin]
  /\ portal \in [Clients -> {"closed", "asking", "open", "paying"}]
  /\ req \in [Clients -> [pc : {"none", "write", "stamp", "window", "query", "credit",
                                "remove", "unstamp"},
                          at : Nat, span : Nat, ids : SUBSET Ids]]
  /\ cancel \in [Clients -> {"none", "sent", "unstamp", "unlock"}]
  /\ boots \in 0..MaxBoot

Init ==
  /\ now = 1
  /\ armed = 0 /\ armedAt = 0 /\ stream = 0
  /\ lock = [v \in Vlans |-> Free]
  /\ coin = [i \in Ids |-> NoCoin]
  /\ portal = [c \in Clients |-> "closed"]
  /\ req = [c \in Clients |-> NoReq]
  /\ cancel = [c \in Clients |-> "none"]
  /\ boots = 0

----------------------------------------------------------------------------
Holds(c)     == lock[VlanOf[c]].holder = c
Goto(c, pc)  == req' = [req EXCEPT ![c].pc = pc]
Serve(c, r)  == req' = [req EXCEPT ![c] = r]

\* closeGpioModal: the page always sends a Disarm, whatever it closes for.
Close(c) ==
  /\ portal' = [portal EXCEPT ![c] = "closed"]
  /\ cancel' = [cancel EXCEPT ![c] = IF @ = "none" THEN "sent" ELSE @]

WindowOpen == armed > now

(***************************************************************************)
(* INSERT COIN.  Arm takes the lock and writes the two files; the holder's *)
(* second tap is answered armed:true without writing them; anybody else is *)
(* told to wait, and its page closes the modal.                            *)
(***************************************************************************)
TapFree(c, d) ==
  /\ portal[c] = "closed" /\ req[c] = NoReq
  /\ lock[VlanOf[c]] = Free
  /\ lock' = [lock EXCEPT ![VlanOf[c]] = [holder |-> c, since |-> now]]
  /\ portal' = [portal EXCEPT ![c] = "asking"]
  /\ Serve(c, [pc |-> "write", at |-> now, span |-> d, ids |-> {}])
  /\ UNCHANGED <<now, files, stream, coin, cancel, boots>>

TapAgain(c) ==
  /\ portal[c] = "closed" /\ req[c] = NoReq
  /\ Holds(c)
  /\ portal' = [portal EXCEPT ![c] = "open"]
  /\ UNCHANGED <<now, files, lock, stream, coin, req, cancel, boots>>

TapRefused(c) ==
  /\ portal[c] = "closed" /\ req[c] = NoReq
  /\ ~Holds(c) /\ lock[VlanOf[c]] # Free
  /\ Close(c)
  /\ UNCHANGED <<now, files, lock, stream, coin, req, boots>>

ArmWrite(c) ==
  /\ req[c].pc = "write"
  /\ armed' = req[c].at + req[c].span
  /\ Goto(c, "stamp")
  /\ UNCHANGED <<now, armedAt, lock, stream, coin, portal, cancel, boots>>

ArmStamp(c) ==
  /\ req[c].pc = "stamp"
  /\ armedAt' = req[c].at
  /\ Serve(c, NoReq)
  /\ portal' = [portal EXCEPT ![c] = IF @ = "asking" THEN "open" ELSE @]
  /\ UNCHANGED <<now, armed, lock, stream, coin, cancel, boots>>

----------------------------------------------------------------------------
(***************************************************************************)
(* Cancel, countdown at zero, a Start unanswered for 25 s: the modal       *)
(* closes and Disarm removes both files and releases the lock of the VLAN. *)
(* Reloading or leaving the page sends nothing.                            *)
(***************************************************************************)
Cancel(c) ==
  /\ portal[c] # "closed"
  /\ Close(c)
  /\ UNCHANGED <<now, files, lock, stream, coin, req, boots>>

Reload(c) ==
  /\ portal[c] # "closed"
  /\ portal' = [portal EXCEPT ![c] = "closed"]
  /\ UNCHANGED <<now, files, lock, stream, coin, req, cancel, boots>>

Disarm(c) ==
  \/ /\ cancel[c] = "sent"
     /\ armed' = 0
     /\ cancel' = [cancel EXCEPT ![c] = "unstamp"]
     /\ UNCHANGED <<armedAt, lock>>
  \/ /\ cancel[c] = "unstamp"
     /\ armedAt' = 0
     /\ cancel' = [cancel EXCEPT ![c] = "unlock"]
     /\ UNCHANGED <<armed, lock>>
  \/ /\ cancel[c] = "unlock"
     /\ lock' = [lock EXCEPT ![VlanOf[c]] = Free]
     /\ cancel' = [cancel EXCEPT ![c] = "none"]
     /\ UNCHANGED files

DisarmStep(c) == Disarm(c) /\ UNCHANGED <<now, stream, coin, portal, req, boots>>

----------------------------------------------------------------------------
(***************************************************************************)
(* DONE PAYING.  Start trades the ticket in and releases the lock, works   *)
(* out how far back the window reaches, selects the unprocessed rows in    *)
(* it, credits and marks them, and closes the window.                      *)
(***************************************************************************)
Done(c) ==
  /\ portal[c] = "open" /\ req[c] = NoReq
  /\ Holds(c)
  /\ lock' = [lock EXCEPT ![VlanOf[c]] = Free]
  /\ portal' = [portal EXCEPT ![c] = "paying"]
  /\ Serve(c, [pc |-> "window", at |-> lock[VlanOf[c]].since, span |-> 0, ids |-> {}])
  /\ UNCHANGED <<now, files, stream, coin, cancel, boots>>

DoneRefused(c) ==
  /\ portal[c] = "open" /\ req[c] = NoReq
  /\ ~Holds(c)
  /\ Close(c)
  /\ UNCHANGED <<now, files, lock, stream, coin, req, boots>>

\* readArmedAt: the marker, or the widest window when the marker is no use.
WindowStart == IF armedAt # 0 /\ armedAt <= armed THEN armedAt ELSE armed - MaxArmDuration

\* Mutant of WindowAge: the second that covers the truncation is forgotten.
WindowAgeShort ==
  IF WindowOpen THEN (IF WindowStart < now THEN now - WindowStart - 1 ELSE 1)
  ELSE MaxArmDuration

WindowAge ==
  IF WindowOpen THEN (IF WindowStart < now THEN now - WindowStart + 1 ELSE 1)
  ELSE MaxArmDuration

StartWindow(c) ==
  /\ req[c].pc = "window"
  /\ req' = [req EXCEPT ![c].pc = "query", ![c].span = WindowAge]
  /\ UNCHANGED <<now, files, lock, stream, coin, portal, cancel, boots>>

\* The lowest MaxWindowCoins ids of S.
Lowest(S)   == {i \in S : Cardinality({j \in S : j < i}) < MaxWindowCoins}

\* Mutant of Unprocessed: the query forgets the condition processed = false.
Recorded == {i \in Ids : coin[i].st \in {"row", "done"}}

Unprocessed == {i \in Ids : coin[i].st = "row"}

\* Mutant of Credited: every unprocessed row, however old.
CreditedEver(c) == Lowest(Unprocessed)

Credited(c) == Lowest({i \in Unprocessed : coin[i].at >= now - req[c].span})

\* The answer of Start, whatever it is, makes the page close the modal.
Answered(c) == IF portal[c] = "paying" THEN Close(c) ELSE UNCHANGED <<portal, cancel>>

StartQuery(c) ==
  /\ req[c].pc = "query"
  /\ IF Credited(c) = {}
       THEN Serve(c, NoReq) /\ Answered(c)
       ELSE /\ req' = [req EXCEPT ![c].pc = "credit", ![c].ids = Credited(c)]
            /\ UNCHANGED <<portal, cancel>>
  /\ UNCHANGED <<now, files, lock, stream, coin, boots>>

Consume(ids) == coin' = [i \in Ids |-> IF i \in ids THEN Spent ELSE coin[i]]

StartCredit(c) ==
  /\ req[c].pc = "credit"
  /\ Consume(req[c].ids)
  /\ Goto(c, "remove")
  /\ UNCHANGED <<now, files, lock, stream, portal, cancel, boots>>

StartRemove(c) ==
  /\ req[c].pc = "remove"
  /\ armed' = 0
  /\ Goto(c, "unstamp")
  /\ UNCHANGED <<now, armedAt, lock, stream, coin, portal, cancel, boots>>

StartAnswer(c) ==
  /\ req[c].pc = "unstamp"
  /\ armedAt' = 0
  /\ Serve(c, NoReq)
  /\ Answered(c)
  /\ UNCHANGED <<now, armed, lock, stream, coin, boots>>

----------------------------------------------------------------------------
(***************************************************************************)
(* The listener.  With gpiomon it streams the edges of the pin until the   *)
(* expiry it read when it began, whatever happens to the file meanwhile;   *)
(* when it polls, it reads the file every time.  A coin rewrites the file  *)
(* and posts an event in the background.                                   *)
(***************************************************************************)
StreamStart ==
  /\ Gpiomon /\ stream = 0 /\ WindowOpen
  /\ stream' = armed
  /\ UNCHANGED <<now, files, lock, coin, portal, req, cancel, boots>>

StreamAt(t) == IF stream > t THEN stream ELSE 0
Listening   == IF Gpiomon THEN stream # 0 ELSE WindowOpen

Lapse ==
  /\ stream = 0 /\ armed # 0 /\ ~WindowOpen
  /\ armed' = 0
  /\ UNCHANGED <<now, armedAt, lock, stream, coin, portal, req, cancel, boots>>

Drop(c) ==
  /\ portal[c] = "open" /\ Listening
  /\ \E i \in Ids :
       /\ coin[i] = NoCoin /\ \A j \in 1..(i - 1) : coin[j] # NoCoin
       /\ coin' = [coin EXCEPT ![i] = [st |-> "sent", by |-> c, at |-> 0]]
  /\ armed' = now + ExtendSec
  /\ UNCHANGED <<now, armedAt, lock, stream, portal, req, cancel, boots>>

\* The POST of a coin reaches the API and becomes a row, or it is lost: the
\* listener's curl runs in the background and is not tried again.
Record(i) ==
  /\ coin[i].st = "sent"
  /\ \/ coin' = [coin EXCEPT ![i].st = "row", ![i].at = now]
     \/ coin' = [coin EXCEPT ![i] = NoCoin]
  /\ UNCHANGED <<now, files, lock, stream, portal, req, cancel, boots>>

----------------------------------------------------------------------------
\* The watchdog of the lock; it is taken to fire on time.
Watchdog(v) ==
  /\ lock[v] # Free /\ now >= lock[v].since + LockTimeout
  /\ lock' = [lock EXCEPT ![v] = Free]
  /\ UNCHANGED <<now, files, stream, coin, portal, req, cancel, boots>>

Tick ==
  /\ now < MaxTime
  /\ \A v \in Vlans : lock[v] = Free \/ now < lock[v].since + LockTimeout
  /\ now' = now + 1
  /\ stream' = StreamAt(now + 1)
  /\ UNCHANGED <<files, lock, coin, portal, req, cancel, boots>>

\* The API process restarts: its locks and requests are gone, the files stay.
\* An open modal stays open, without a ticket; a page whose Start went
\* unanswered closes it, and its Disarm may reach the new process.
RestartApi ==
  /\ boots < MaxBoot
  /\ boots' = boots + 1
  /\ lock' = [v \in Vlans |-> Free]
  /\ req' = [c \in Clients |-> NoReq]
  /\ \E S \in SUBSET {c \in Clients : portal[c] = "paying"} :
       cancel' = [c \in Clients |-> IF c \in S THEN "sent" ELSE "none"]
  /\ portal' = [c \in Clients |-> IF portal[c] \in {"asking", "open"} THEN "open" ELSE "closed"]
  /\ UNCHANGED <<now, files, stream, coin>>

\* The listener is restarted (main() does so at every start of the API).
RestartListener ==
  /\ boots < MaxBoot
  /\ boots' = boots + 1
  /\ armed' = 0 /\ stream' = 0
  /\ UNCHANGED <<now, armedAt, lock, coin, portal, req, cancel>>

Step(c) ==
  \/ \E d \in Durations : TapFree(c, d)
  \/ TapAgain(c) \/ TapRefused(c)
  \/ ArmWrite(c) \/ ArmStamp(c)
  \/ Cancel(c) \/ Reload(c) \/ DisarmStep(c)
  \/ Done(c) \/ DoneRefused(c)
  \/ StartWindow(c) \/ StartQuery(c) \/ StartCredit(c) \/ StartRemove(c) \/ StartAnswer(c)
  \/ Drop(c)

Next ==
  \/ \E c \in Clients : Step(c)
  \/ StreamStart \/ Lapse
  \/ \E i \in Ids : Record(i)
  \/ \E v \in Vlans : Watchdog(v)
  \/ Tick
  \/ RestartApi \/ RestartListener

Spec == Init /\ [][Next]_vars

(***************************************************************************)
(* Customers one at a time.  InTurn: a device comes in only when the one   *)
(* before it has left and its lock is gone; others may tap and be refused. *)
(* DisarmInTurn: a Disarm is served only while nobody else is at the slot. *)
(* NothingLeft: nobody comes in while a coin of another customer is on its *)
(* way, or was recorded within the widest window and never credited.       *)
(* Prompt: no time passes while a coin is on its way or a request is being *)
(* served, except a Disarm that waits because somebody else is at the slot.*)
(***************************************************************************)
Engaged(c)  == portal[c] # "closed" \/ req[c] # NoReq \/ Holds(c)
Owed(c)     == \E i \in Ids :
  /\ coin[i].by = c
  /\ coin[i].st = "sent" \/ coin[i].at >= now - MaxArmDuration
InTurn      == \A c, d \in Clients : c # d => ~(Engaged(c) /\ Engaged(d))
NothingLeft == \A c, d \in Clients : c # d => ~(Engaged(c) /\ Owed(d))
DisarmInTurn == \A c \in Clients : cancel[c] # "none" /\ DisarmStep(c) => \A d \in Clients \ {c} : ~Engaged(d)
Waiting(c)  == cancel[c] = "sent" /\ \E d \in Clients \ {c} : Engaged(d)
Prompt      == now' # now => /\ \A i \in Ids : coin[i].st # "sent"
                             /\ \A c \in Clients : req[c] = NoReq
                             /\ \A c \in Clients : cancel[c] = "none" \/ Waiting(c)

CarefulSpec == Init /\ [][Next /\ InTurn' /\ DisarmInTurn /\ NothingLeft' /\ Prompt]_vars

----------------------------------------------------------------------------
(***************************************************************************)
(* Properties of customers in turn (CarefulSpec).                          *)
(***************************************************************************)

\* A device is credited with the coins of its own customer and no others
\* (session.go:211-221): window, lock and processed flag together see to it.
OwnCoinsOnly ==
  [][\A c \in Clients : StartCredit(c) =>
       \A i \in req[c].ids : coin[i].st = "row" => coin[i].by = c]_vars

\* No coin is credited a second time (session.go:578).
CreditedOnce ==
  [][\A c \in Clients : StartCredit(c) => \A i \in req[c].ids : coin[i].st # "done"]_vars

\* A Start takes every coin its customer dropped since the lock was taken: the
\* window never leaves out a coin that was recorded (session.go:217-219).
StartTakesWindow ==
  [][\A c \in Clients : StartQuery(c) =>
       \A i \in Unprocessed : coin[i].by = c /\ coin[i].at >= req[c].at => i \in Credited(c)]_vars

=============================================================================
