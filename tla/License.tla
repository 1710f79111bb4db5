------------------------------- MODULE License -------------------------------
(***************************************************************************)
(* The license of a device (handlers/license.go).  A license is a row of   *)
(* the vendor's table in the cloud; a device keeps a copy in memory under  *)
(* a lock and writes that copy to its card.  The heartbeat and the admin's *)
(* requests are processes: each takes the lock for a moment, talks to the  *)
(* cloud without it, and saves a snapshot taken in one critical section    *)
(* and written later.  A device may stop anywhere, and a card may be       *)
(* cloned to another board.                                                *)
(*                                                                         *)
(* Times are ages: a Day step is 24 hours, after which an answer of the    *)
(* cloud is stale and the heartbeat's timer has fired.                     *)
(***************************************************************************)
EXTENDS Naturals, FiniteSets

CONSTANTS Device,      \* boards
          Key,         \* license keys the vendor sold
          NoKey,       \* the empty license_key
          Cpu, Tree, Mac,  \* [Device -> Nat]: identifiers of a board, 0 if none
          DummyMac,    \* MAC numbers every board of some vendor carries
          TrialDays,   \* length of the trial, 7 in the code
          Overlap,     \* may the heartbeat and a request of a device overlap?
          MaxEvents    \* bound on the events from outside: requests, restarts,
                       \* clones, faults and acts of the vendor

ASSUME LicenseAssumption ==
    /\ NoKey \notin Key
    /\ Cpu \in [Device -> Nat] /\ Tree \in [Device -> Nat]
    /\ Mac \in [Device -> Nat] /\ DummyMac \subseteq Nat
    /\ TrialDays \in Nat \ {0} /\ Overlap \in BOOLEAN /\ MaxEvents \in Nat

VARIABLES cloud,    \* cloud[k]: the row of key k, its status and hardware id
          card,     \* card[d]: license row, /etc/machine-id and its stamp file
          mem,      \* mem[d]: the state of the LicenseHandler
          up,       \* the devices whose API runs
          job,      \* job[d][w]: what worker w of device d is doing
          due,      \* the devices whose heartbeat timer has fired
          minted,   \* number of machine ids generated so far
          events,   \* number of events from outside so far
          holders,  \* history: holders[k], the boards that activated key k
          promise,  \* history: promise[d], what the admin of d was told last
          unread,   \* history: the devices that started without reading their row
  revoked   \* history: the keys that were ever revoked in the cloud

vars == <<cloud, card, mem, up, job, due, minted, events, holders, promise, unread, revoked>>

-----------------------------------------------------------------------------
\* Values

NoHw == <<"none", 0>>
NoRow == [status |-> "no row", key |-> NoKey, hw |-> NoHw, left |-> 0, resp |-> "never"]
ZeroState == [status |-> "", key |-> NoKey, hw |-> NoHw, left |-> 0, resp |-> "never"]
TrialState(id) ==
    [status |-> "trial", key |-> NoKey, hw |-> id, left |-> TrialDays, resp |-> "never"]

HwId == {"none", "cpu", "dt", "mac", "machine"} \X Nat
CloudStatus == {"available", "active", "revoked"}
LicenseState ==
    [status: {"no row", "", "trial", "active", "locked", "revoked"},
     key: Key \cup {NoKey}, hw: HwId, left: 0 .. TrialDays,
     resp: {"never", "fresh", "stale"}]

Worker == {"heartbeat", "admin"}
Idle == [pc |-> "idle", key |-> NoKey, ans |-> "none",
         snap |-> NoRow, then |-> "idle"]
Job == [pc: {"idle", "ask", "post", "apply", "save", "write", "stamp",
             "claim", "claimed", "release", "released"},
        key: Key \cup {NoKey}, ans: CloudStatus \cup {"none"},
        snap: LicenseState, then: {"idle", "stamp"}]

\* isLicenseValidLocked: a trial also needs a recent answer, once there was one.
IsLicenseValid(st) ==
    \/ st.status = "active"
    \/ st.status = "trial" /\ st.left > 0 /\ st.resp # "stale"

\* LicenseGateMiddleware: the routes every device serves, and the rest.
LicenseGate(st, route) ==
    \/ route \in {"/api/admin/license/", "/api/admin/update/", "/api/admin/login",
                  "/api/health"}
    \/ IsLicenseValid(st)

-----------------------------------------------------------------------------
\* The identity of a board

\* buildHardwareStamp
HardwareStamp(d) == <<Cpu[d], Tree[d], Mac[d]>>

\* HardwareFingerprint keeps the machine-id of a card stamped on this board.
StampedHere(d, c) == c.machine # 0 /\ c.stamp = HardwareStamp(d)

\* HardwareFingerprint: the first source that identifies the board.
HardwareFingerprint(d, c) ==
    CASE Cpu[d] # 0 -> <<"cpu", Cpu[d]>>
      [] Cpu[d] = 0 /\ Tree[d] # 0 -> <<"dt", Tree[d]>>
      [] Cpu[d] = 0 /\ Tree[d] = 0 /\ Mac[d] \notin DummyMac \cup {0} -> <<"mac", Mac[d]>>
      [] OTHER -> <<"machine", IF StampedHere(d, c) THEN c.machine ELSE minted + 1>>

\* ... and the card it leaves: a machine-id from another board is replaced.
Mints(d, c) ==
    HardwareFingerprint(d, c) = <<"machine", minted + 1>> /\ ~StampedHere(d, c)
Restamped(d, c) ==
    IF Mints(d, c)
    THEN [c EXCEPT !.machine = minted + 1, !.stamp = HardwareStamp(d)]
    ELSE c

-----------------------------------------------------------------------------
\* Start of the API

\* Mutant: the hardware of the row is not compared.
LoadedAnywhere(d, c) ==
    IF c.row = NoRow THEN TrialState(HardwareFingerprint(d, c)) ELSE c.row

\* InitOrLoadLicense: the state it builds from the row it read.
LoadedState(d, c) ==
    LET id == HardwareFingerprint(d, c)
    IN CASE c.row = NoRow -> TrialState(id)
         [] c.row # NoRow /\ c.row.hw = NoHw -> [c.row EXCEPT !.hw = id]
         [] c.row # NoRow /\ c.row.hw \notin {NoHw, id} -> TrialState(id)
         [] OTHER -> c.row

Events(n) == events + n <= MaxEvents /\ events' = events + n
Event == Events(1)

\* main() on the card c: the license is loaded, saved unless the database refuses
\* (a second event), and the heartbeat started.  What was running is gone.
StartWith(d, c) ==
    LET st == LoadedState(d, c)
    IN /\ mem' = [mem EXCEPT ![d] = st]
       /\ \E row \in {st, c.row} :
            /\ Events(IF row = st THEN 1 ELSE 2)
            /\ card' = [card EXCEPT ![d] = [Restamped(d, c) EXCEPT !.row = row]]
       /\ minted' = IF Mints(d, c) THEN minted + 1 ELSE minted
       /\ up' = up \cup {d}
       /\ job' = [job EXCEPT ![d] = [w \in Worker |-> Idle]]
       /\ due' = due \cup {d}

\* First start, crash and restart, reboot.
Boot(d) ==
    /\ StartWith(d, card[d])
    /\ UNCHANGED <<cloud, holders, promise, unread, revoked>>

\* InitOrLoadLicense cannot read the row: main() logs it and goes on with the
\* zero state.
BootUnread(d) ==
    /\ Event
    /\ card[d].row # NoRow
    /\ mem' = [mem EXCEPT ![d] = ZeroState]
    /\ up' = up \cup {d}
    /\ job' = [job EXCEPT ![d] = [w \in Worker |-> Idle]]
    /\ due' = due \cup {d}
    /\ promise' = [promise EXCEPT ![d] = "none"]
    /\ unread' = unread \cup {d}
    /\ UNCHANGED <<cloud, card, minted, holders, revoked>>

\* The card of device d is copied to another board, which starts with it.
CloneCard(d, e) ==
    /\ d # e
    /\ StartWith(e, card[d])
    /\ promise' = [promise EXCEPT ![e] = "none"]
    /\ UNCHANGED <<cloud, holders, unread, revoked>>

-----------------------------------------------------------------------------
\* Steps of the workers

Busy(d) == {w \in Worker : job[d][w].pc # "idle"}
MayStart(d, w) ==
    /\ d \in up
    /\ job[d][w].pc = "idle"
    /\ Overlap \/ Busy(d) = {}
At(d, w, pc) == d \in up /\ job[d][w].pc = pc
Goto(d, w, j) == job' = [job EXCEPT ![d][w] = j]
SaveThen(d, w, next) ==
    Goto(d, w, [job[d][w] EXCEPT !.pc = "save", !.then = next])

\* saveState copies the state under the read lock ...
SaveSnapshot(d, w) ==
    /\ At(d, w, "save")
    /\ Goto(d, w, [job[d][w] EXCEPT !.pc = "write", !.snap = mem[d]])
    /\ UNCHANGED <<cloud, card, mem, up, due, minted, events, holders, promise, unread, revoked>>

\* What the admin is told when the request is over.
Answer(d, w) ==
    IF w = "admin" /\ job[d][w].then = "idle"
    THEN [promise EXCEPT ![d] = job[d][w].ans]
    ELSE promise

\* ... and upserts it without a lock.
SaveWrite(d, w) ==
    /\ At(d, w, "write")
    /\ card' = [card EXCEPT ![d].row = job[d][w].snap]
    /\ promise' = Answer(d, w)
    /\ Goto(d, w, IF job[d][w].then = "idle" THEN Idle
                  ELSE [job[d][w] EXCEPT !.pc = job[d][w].then, !.snap = NoRow])
    /\ UNCHANGED <<cloud, mem, up, due, minted, events, holders, unread, revoked>>

\* The database refuses the upsert: logged and ignored.
SaveFails(d, w) ==
    /\ At(d, w, "write")
    /\ Event
    /\ promise' = [promise EXCEPT ![d] = "none"]
    /\ Goto(d, w, IF job[d][w].then = "idle" THEN Idle
                  ELSE [job[d][w] EXCEPT !.pc = job[d][w].then, !.snap = NoRow])
    /\ UNCHANGED <<cloud, card, mem, up, due, minted, holders, unread, revoked>>

\* HeartbeatSupabase reads key and hardware id under the read lock.
HeartbeatStart(d) ==
    /\ d \in due
    /\ MayStart(d, "heartbeat")
    /\ Goto(d, "heartbeat",
            [Idle EXCEPT !.pc = IF mem[d].key = NoKey THEN "post" ELSE "ask",
                         !.key = mem[d].key])
    /\ due' = due \ {d}
    /\ UNCHANGED <<cloud, card, mem, up, minted, events, holders, promise, unread, revoked>>

\* The cloud answers the GET with the row of the key the heartbeat asked for.
HeartbeatAsk(d) ==
    /\ At(d, "heartbeat", "ask")
    /\ Goto(d, "heartbeat",
            [job[d]["heartbeat"] EXCEPT
                !.pc = "apply", !.ans = cloud[job[d]["heartbeat"].key].status])
    /\ UNCHANGED <<cloud, card, mem, up, due, minted, events, holders, promise, unread, revoked>>

\* Mutant: the status of the row is not taken over.
HeartbeatDeaf(d) ==
    /\ At(d, "heartbeat", "apply")
    /\ mem' = [mem EXCEPT ![d].resp = "fresh"]
    /\ SaveThen(d, "heartbeat", "stamp")
    /\ UNCHANGED <<cloud, card, up, due, minted, events, holders, promise, unread, revoked>>

\* The answer is applied to the state of the moment, whatever its key is now.
HeartbeatApply(d) ==
    /\ At(d, "heartbeat", "apply")
    /\ LET j == job[d]["heartbeat"]
       IN mem' = [mem EXCEPT
            ![d].status = IF j.ans \in {"active", "available"} THEN mem[d].status ELSE j.ans,
            ![d].resp = "fresh"]
    /\ SaveThen(d, "heartbeat", "stamp")
    /\ UNCHANGED <<cloud, card, up, due, minted, events, holders, promise, unread, revoked>>

\* The PATCH after it stamps the row with the hardware id of this device.
HeartbeatStamp(d) ==
    /\ At(d, "heartbeat", "stamp")
    /\ cloud' = [cloud EXCEPT
                    ![job[d]["heartbeat"].key].hw = HardwareFingerprint(d, card[d])]
    /\ Goto(d, "heartbeat", Idle)
    /\ UNCHANGED <<card, mem, up, due, minted, events, holders, promise, unread, revoked>>

\* ... or is lost; its result is not looked at.
HeartbeatStampLost(d) ==
    /\ At(d, "heartbeat", "stamp")
    /\ Goto(d, "heartbeat", Idle)
    /\ UNCHANGED <<cloud, card, mem, up, due, minted, events, holders, promise, unread, revoked>>

\* A device without a key posts a row of its own.
HeartbeatPost(d) ==
    /\ At(d, "heartbeat", "post")
    /\ mem' = [mem EXCEPT ![d].resp = "fresh"]
    /\ SaveThen(d, "heartbeat", "idle")
    /\ UNCHANGED <<cloud, card, up, due, minted, events, holders, promise, unread, revoked>>

\* recordHeartbeatError, also for missing credentials: only the error is stored.
HeartbeatError(d) ==
    /\ \E pc \in {"ask", "post"} : At(d, "heartbeat", pc)
    /\ mem' = mem
    /\ SaveThen(d, "heartbeat", "idle")
    /\ UNCHANGED <<cloud, card, up, due, minted, events, holders, promise, unread, revoked>>

\* ActivateLicense: the row must be available, and not bound to other hardware.
ActivateCheck(d, k) ==
    /\ Event
    /\ MayStart(d, "admin")
    /\ cloud[k].status = "available"
    /\ cloud[k].hw \in {NoHw, mem[d].hw}
    /\ Goto(d, "admin", [Idle EXCEPT !.pc = "claim", !.key = k, !.ans = "active"])
    /\ UNCHANGED <<cloud, card, mem, up, due, minted, holders, promise, unread, revoked>>

\* The PATCH that claims the row is unconditional.
ActivateClaim(d) ==
    /\ At(d, "admin", "claim")
    /\ LET k == job[d]["admin"].key
       IN /\ cloud' = [cloud EXCEPT ![k] = [status |-> "active", hw |-> mem[d].hw]]
          /\ holders' = [holders EXCEPT ![k] = @ \cup {d}]
    /\ Goto(d, "admin", [job[d]["admin"] EXCEPT !.pc = "claimed"])
    /\ UNCHANGED <<card, mem, up, due, minted, events, promise, unread, revoked>>

\* No answer comes: the handler gives up and changes nothing.
RequestFails(d) ==
    /\ \E pc \in {"claim", "claimed", "release", "released"} : At(d, "admin", pc)
    /\ Event
    /\ Goto(d, "admin", Idle)
    /\ UNCHANGED <<cloud, card, mem, up, due, minted, holders, promise, unread, revoked>>

\* Mutant: the handler answers without saving.
ActivateUnsaved(d) ==
    /\ At(d, "admin", "claimed")
    /\ mem' = [mem EXCEPT ![d].status = "active", ![d].key = job[d]["admin"].key,
                          ![d].resp = "fresh"]
    /\ promise' = [promise EXCEPT ![d] = "active"]
    /\ Goto(d, "admin", Idle)
    /\ UNCHANGED <<cloud, card, up, due, minted, events, holders, unread, revoked>>

\* The answer has come: the device is licensed.
ActivateDone(d) ==
    /\ At(d, "admin", "claimed")
    /\ LET j == job[d]["admin"]
       IN mem' = [mem EXCEPT ![d].status = "active", ![d].key = j.key, ![d].resp = "fresh"]
    /\ SaveThen(d, "admin", "idle")
    /\ UNCHANGED <<cloud, card, up, due, minted, events, holders, promise, unread, revoked>>

\* DeactivateLicense needs a key; what was promised ends here.
DeactivateStart(d) ==
    /\ Event
    /\ MayStart(d, "admin")
    /\ mem[d].key # NoKey
    /\ Goto(d, "admin", [Idle EXCEPT !.pc = "release", !.key = mem[d].key, !.ans = "revoked"])
    /\ promise' = [promise EXCEPT ![d] = "none"]
    /\ UNCHANGED <<cloud, card, mem, up, due, minted, holders, unread, revoked>>

DeactivateRelease(d) ==
    /\ At(d, "admin", "release")
    /\ cloud' = [cloud EXCEPT
                    ![job[d]["admin"].key] = [status |-> "revoked", hw |-> NoHw]]
    /\ Goto(d, "admin", [job[d]["admin"] EXCEPT !.pc = "released"])
    /\ revoked' = revoked \cup {job[d]["admin"].key}
    /\ UNCHANGED <<card, mem, up, due, minted, events, holders, promise, unread>>

\* Without credentials in the environment the cloud is not told.
DeactivateOffline(d) ==
    /\ At(d, "admin", "release")
    /\ Event
    /\ Goto(d, "admin", [job[d]["admin"] EXCEPT !.pc = "released"])
    /\ UNCHANGED <<cloud, card, mem, up, due, minted, holders, promise, unread, revoked>>

\* Mutant: the lock is kept in memory only.
DeactivateUnsaved(d) ==
    /\ At(d, "admin", "released")
    /\ mem' = [mem EXCEPT ![d].status = "locked"]
    /\ promise' = [promise EXCEPT ![d] = "revoked"]
    /\ Goto(d, "admin", Idle)
    /\ UNCHANGED <<cloud, card, up, due, minted, events, holders, unread, revoked>>

DeactivateDone(d) ==
    /\ At(d, "admin", "released")
    /\ mem' = [mem EXCEPT ![d].status = "locked"]
    /\ SaveThen(d, "admin", "idle")
    /\ UNCHANGED <<cloud, card, up, due, minted, events, holders, promise, unread, revoked>>

-----------------------------------------------------------------------------
\* Outside

\* The vendor revokes a key, or sells it again.
Vendor(k, s) ==
    /\ Event
    /\ cloud[k].status # s
    /\ cloud' = [cloud EXCEPT ![k].status = s]
    /\ revoked' = IF s = "revoked" THEN revoked \cup {k} ELSE revoked
    /\ UNCHANGED <<card, mem, up, job, due, minted, holders, promise, unread>>

Older(st) == [st EXCEPT !.left = IF st.left > 0 THEN st.left - 1 ELSE 0,
                        !.resp = IF st.resp = "fresh" THEN "stale" ELSE st.resp]

\* 24 hours pass; no call lasts that long (15 s timeouts), so nobody is working.
Day ==
    /\ up # {} /\ due \cap up = {}
    /\ \A d \in Device : Busy(d) = {}
    /\ mem' = [d \in Device |-> IF d \in up THEN Older(mem[d]) ELSE mem[d]]
    /\ card' = [d \in Device |->
                  IF card[d].row = NoRow THEN card[d]
                  ELSE [card[d] EXCEPT !.row = Older(card[d].row)]]
    /\ due' = due \cup up
    /\ UNCHANGED <<cloud, up, job, minted, events, holders, promise, unread, revoked>>

-----------------------------------------------------------------------------
Init ==
    /\ cloud = [k \in Key |-> [status |-> "available", hw |-> NoHw]]
    /\ card = [d \in Device |-> [row |-> NoRow, machine |-> 0, stamp |-> <<0, 0, 0>>]]
    /\ mem = [d \in Device |-> ZeroState]
    /\ up = {} /\ due = {} /\ unread = {} /\ revoked = {} /\ minted = 0 /\ events = 0
    /\ job = [d \in Device |-> [w \in Worker |-> Idle]]
    /\ holders = [k \in Key |-> {}]
    /\ promise = [d \in Device |-> "none"]

HeartbeatStep(d) ==
    \/ HeartbeatStart(d) \/ HeartbeatAsk(d) \/ HeartbeatApply(d) \/ HeartbeatStamp(d)
    \/ HeartbeatStampLost(d) \/ HeartbeatPost(d) \/ HeartbeatError(d)
AdminStep(d) ==
    \/ ActivateClaim(d) \/ ActivateDone(d)
    \/ DeactivateRelease(d) \/ DeactivateDone(d)
SaveStep(d, w) == SaveSnapshot(d, w) \/ SaveWrite(d, w)

Next ==
    \/ \E d \in Device :
         \/ Boot(d) \/ BootUnread(d) \/ \E e \in Device : CloneCard(d, e)
         \/ HeartbeatStep(d) \/ AdminStep(d) \/ RequestFails(d)
         \/ DeactivateStart(d) \/ DeactivateOffline(d)
         \/ \E k \in Key : ActivateCheck(d, k)
         \/ \E w \in Worker : SaveStep(d, w) \/ SaveFails(d, w)
    \/ \E k \in Key, s \in {"revoked", "available"} : Vendor(k, s)
    \/ Day

\* Goroutines run, days pass, and the cloud answers again and again.
Fairness ==
    /\ WF_vars(Day)
    /\ \A d \in Device :
         /\ WF_vars(HeartbeatStep(d)) /\ SF_vars(HeartbeatAsk(d)) /\ WF_vars(AdminStep(d))
         /\ \A w \in Worker : WF_vars(SaveStep(d, w))

Spec == Init /\ [][Next]_vars /\ Fairness

-----------------------------------------------------------------------------
TypeOK ==
    /\ cloud \in [Key -> [status: CloudStatus, hw: HwId]]
    /\ card \in [Device -> [row: LicenseState, machine: Nat, stamp: Nat \X Nat \X Nat]]
    /\ mem \in [Device -> LicenseState]
    /\ up \subseteq Device /\ due \subseteq Device /\ unread \subseteq Device
    /\ revoked \subseteq Key
    /\ job \in [Device -> [Worker -> Job]]
    /\ minted \in Nat /\ events \in 0 .. MaxEvents
    /\ holders \in [Key -> SUBSET Device]
    /\ promise \in [Device -> CloudStatus \cup {"none"}]

\* A board is licensed only by a key that was activated on this very board: a
\* cloned card, started on other hardware, is on trial again.  The identity is
\* read from several sources and compared at every start (InitOrLoadLicense).
\* A start that could not read the row ends this: an activation after it stores
\* an empty hardware id, which the next board takes for its own.
LicenseStaysOnItsBoard ==
    unread = {} => \A d \in up : mem[d].status = "active" => d \in holders[mem[d].key]

\* Once the admin was told that the license is activated, the device stays
\* licensed through outages, failing heartbeats and restarts, until the key is
\* revoked or released or the card cannot be read.
ActiveUntilRevoked ==
    \A d \in up : promise[d] = "active" /\ mem[d].key \notin revoked
                    => mem[d].status = "active"

\* Once the admin was told that the license is deactivated, the gate stays closed:
\* no restart and no heartbeat opens it, it takes a new activation.
DeactivatedStaysLocked ==
    \A d \in up : promise[d] = "revoked" /\ job[d]["admin"].pc = "idle"
                    => ~LicenseGate(mem[d], "/api/admin/sessions")

\* A key that stays revoked in the cloud is, sooner or later, active on no
\* device that runs: the heartbeat brings the news.
RevocationReachesDevices ==
    \A d \in Device, k \in Key :
        <>[](cloud[k].status = "revoked")
            => <>[](~(mem[d].status = "active" /\ mem[d].key = k))
=============================================================================
