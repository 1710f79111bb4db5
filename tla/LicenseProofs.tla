---------------------------- MODULE LicenseProofs ----------------------------
(***************************************************************************)
(* Proofs about License for any number of boards and keys, any length of   *)
(* the trial and any number of events from outside.                        *)
(***************************************************************************)
EXTENDS License, TLAPS

Jobs == [Device -> [Worker -> Job]]
Card == [row: LicenseState, machine: Nat, stamp: Nat \X Nat \X Nat]

\* What a worker is doing names a key wherever the code uses it, and an answer of
\* the cloud is one of its statuses.
Proper(j) ==
    /\ \/ j.pc \in {"idle", "post"} \/ (j.pc \in {"save", "write"} /\ j.then = "idle")
       \/ j.key \in Key
    /\ j.pc = "apply" => j.ans \in CloudStatus
TypeInv == TypeOK /\ \A d \in Device, w \in Worker : Proper(job[d][w])

-----------------------------------------------------------------------------
\* Workers

\* A step of one worker leaves the others alone.
LEMMA JobSet ==
  ASSUME job \in Jobs, NEW d \in Device, NEW w \in Worker, NEW j \in Job, Goto(d, w, j)
  PROVE  /\ job' \in Jobs /\ job'[d][w] = j
         /\ \A e \in Device, u \in Worker : e # d \/ u # w => job'[e][u] = job[e][u]
<1>1. job' = [job EXCEPT ![d] = [job[d] EXCEPT ![w] = j]]
  BY DEF Goto, Jobs
<1>2. job[d] \in [Worker -> Job]
  BY DEF Jobs
<1>3. [job[d] EXCEPT ![w] = j] \in [Worker -> Job]
  BY <1>2
<1> QED BY <1>1, <1>2, <1>3 DEF Jobs

\* A worker that does a proper job leaves the jobs well typed.
LEMMA JobType ==
  ASSUME TypeInv, NEW d \in Device, NEW w \in Worker, NEW j \in Job, Proper(j), Goto(d, w, j)
  PROVE  job' \in Jobs /\ \A e \in Device, u \in Worker : Proper(job'[e][u])
<1>1. job \in Jobs /\ \A e \in Device, u \in Worker : Proper(job[e][u])
  BY DEF TypeInv, TypeOK, Jobs
<1> QED BY <1>1, JobSet

\* The idle job is proper, and the values at the start are well typed.
LEMMA EmptyTypes ==
  /\ Idle \in Job /\ Proper(Idle)
  /\ NoRow \in LicenseState /\ ZeroState \in LicenseState /\ NoHw \in HwId
BY LicenseAssumption DEF Idle, Proper, Job, NoRow, ZeroState, NoHw, LicenseState, HwId

\* saveState, whatever follows it, is a proper job.
LEMMA SaveType ==
  ASSUME TypeInv, NEW d \in Device, NEW w \in Worker, NEW next \in {"idle", "stamp"},
         next = "stamp" => job[d][w].key \in Key, SaveThen(d, w, next)
  PROVE  job' \in Jobs /\ \A e \in Device, u \in Worker : Proper(job'[e][u])
<1> DEFINE j == [job[d][w] EXCEPT !.pc = "save", !.then = next]
<1>1. job[d][w] \in Job
  BY DEF TypeInv, TypeOK
<1>2. j \in Job /\ Proper(j)
  BY <1>1 DEF Job, Proper
<1>3. Goto(d, w, j)
  BY DEF SaveThen
<1> HIDE DEF j
<1> QED BY <1>2, <1>3, JobType

\* ... and so is what follows the upsert.
LEMMA SavedType ==
  ASSUME TypeInv, NEW d \in Device, NEW w \in Worker, At(d, w, "write"),
         Goto(d, w, IF job[d][w].then = "idle" THEN Idle
                    ELSE [job[d][w] EXCEPT !.pc = job[d][w].then, !.snap = NoRow])
  PROVE  job' \in Jobs /\ \A e \in Device, u \in Worker : Proper(job'[e][u])
<1> DEFINE j == [job[d][w] EXCEPT !.pc = job[d][w].then, !.snap = NoRow]
<1>1. job[d][w] \in Job /\ Proper(job[d][w]) /\ job[d][w].pc = "write"
  BY DEF TypeInv, TypeOK, At
<1>2. CASE job[d][w].then = "idle"
  BY <1>2, EmptyTypes, JobType
<1>3. CASE job[d][w].then # "idle"
  <2>1. job[d][w].then = "stamp"
    BY <1>1, <1>3 DEF Job
  <2>2. j \in Job /\ Proper(j)
    BY <1>1, <2>1, EmptyTypes DEF Job, Proper
  <2>3. Goto(d, w, j)
    BY <1>3
  <2> HIDE DEF j
  <2> QED BY <2>2, <2>3, JobType
<1> QED BY <1>2, <1>3

\* A new job with a key is proper.
LEMMA NewJobType ==
  ASSUME NEW pc \in {"ask", "claim", "release"}, NEW k \in Key, NEW a \in CloudStatus \cup {"none"}
  PROVE  LET j == [Idle EXCEPT !.pc = pc, !.key = k, !.ans = a] IN j \in Job /\ Proper(j)
BY EmptyTypes DEF Job, Proper, CloudStatus

-----------------------------------------------------------------------------
\* Identities

\* Restamping a card, and the fingerprint, are well typed.
LEMMA IdentityType ==
  ASSUME TypeInv, NEW d \in Device, NEW c \in Card
  PROVE  /\ HardwareFingerprint(d, c) \in HwId
         /\ Restamped(d, c) \in Card
<1>1. HardwareStamp(d) \in Nat \X Nat \X Nat /\ Cpu[d] \in Nat /\ Tree[d] \in Nat /\ Mac[d] \in Nat
  BY LicenseAssumption DEF HardwareStamp
<1>2. minted \in Nat /\ c.machine \in Nat
  BY DEF TypeInv, TypeOK, Card
<1>3. HardwareFingerprint(d, c) \in HwId
  BY <1>1, <1>2 DEF HardwareFingerprint, HwId
<1>4. Restamped(d, c) \in Card
  <2> DEFINE s == HardwareStamp(d)
             m == minted + 1
  <2>1. s \in Nat \X Nat \X Nat /\ m \in Nat
    BY <1>1, <1>2
  <2> HIDE DEF s, m
  <2>2. [c EXCEPT !.machine = m, !.stamp = s] \in Card
    BY <2>1 DEF Card
  <2> QED BY <2>2 DEF Restamped, m, s
<1> QED BY <1>3, <1>4

\* The state a start loads is well typed.
LEMMA LoadedType ==
  ASSUME TypeInv, NEW d \in Device, NEW c \in Card
  PROVE  LoadedState(d, c) \in LicenseState
<1> DEFINE id == HardwareFingerprint(d, c)
<1>1. id \in HwId /\ c.row \in LicenseState
  BY IdentityType DEF Card
<1> HIDE DEF id
<1>2. TrialState(id) \in LicenseState /\ [c.row EXCEPT !.hw = id] \in LicenseState
  <2>1. TrialDays \in 0 .. TrialDays
    BY LicenseAssumption
  <2>2. TrialState(id) \in LicenseState
    BY <1>1, <2>1 DEF TrialState, LicenseState
  <2>3. [c.row EXCEPT !.hw = id] \in LicenseState
    BY <1>1 DEF LicenseState
  <2> QED BY <2>2, <2>3
<1>3. \A x : x \in {TrialState(id), [c.row EXCEPT !.hw = id], c.row} => x \in LicenseState
  BY <1>1, <1>2
<1>4. LoadedState(d, c) \in {TrialState(id), [c.row EXCEPT !.hw = id], c.row}
  BY DEF LoadedState, id
<1> QED BY <1>3, <1>4

\* Starting the API leaves the state well typed.
LEMMA StartType ==
  ASSUME TypeInv, NEW d \in Device, NEW c \in Card, StartWith(d, c)
  PROVE  /\ mem' \in [Device -> LicenseState] /\ card' \in [Device -> Card]
         /\ minted' \in Nat /\ up' \subseteq Device /\ due' \subseteq Device
         /\ events' \in 0 .. MaxEvents
         /\ job' \in Jobs /\ \A e \in Device, u \in Worker : Proper(job'[e][u])
<1>0. /\ mem \in [Device -> LicenseState] /\ card \in [Device -> Card] /\ minted \in Nat
      /\ up \subseteq Device /\ due \subseteq Device /\ job \in Jobs /\ events \in 0 .. MaxEvents
      /\ \A e \in Device, u \in Worker : Proper(job[e][u])
  BY DEF TypeInv, TypeOK, Jobs, Card
<1>1. LoadedState(d, c) \in LicenseState /\ c.row \in LicenseState /\ Restamped(d, c) \in Card
  BY LoadedType, IdentityType DEF Card
<1>2. mem' \in [Device -> LicenseState] /\ minted' \in Nat /\ up' \subseteq Device /\ due' \subseteq Device
  BY <1>0, <1>1 DEF StartWith
<1>3. card' \in [Device -> Card] /\ events' \in 0 .. MaxEvents
  <2>1. PICK row \in {LoadedState(d, c), c.row} :
          /\ Events(IF row = LoadedState(d, c) THEN 1 ELSE 2)
          /\ card' = [card EXCEPT ![d] = [Restamped(d, c) EXCEPT !.row = row]]
    BY DEF StartWith
  <2>2. [Restamped(d, c) EXCEPT !.row = row] \in Card
    BY <1>1 DEF Card
  <2>3. events' \in 0 .. MaxEvents
    BY <1>0, <2>1, LicenseAssumption DEF Events
  <2> QED BY <1>0, <2>1, <2>2, <2>3
<1>4. job' \in Jobs /\ \A e \in Device, u \in Worker : Proper(job'[e][u])
  <2>1. job' = [job EXCEPT ![d] = [w \in Worker |-> Idle]]
    BY DEF StartWith
  <2> QED BY <1>0, <2>1, EmptyTypes DEF Jobs
<1> QED BY <1>2, <1>3, <1>4

-----------------------------------------------------------------------------
\* Types

\* A step of the heartbeat leaves the state well typed.
LEMMA HeartbeatType ==
  ASSUME TypeInv, NEW d \in Device, HeartbeatStep(d)
  PROVE  TypeInv'
<1>0. /\ TypeOK /\ job \in Jobs /\ mem[d] \in LicenseState /\ card[d] \in Card
      /\ job[d]["heartbeat"] \in Job /\ Proper(job[d]["heartbeat"]) /\ "heartbeat" \in Worker
      /\ \A k \in Key : cloud[k] \in [status: CloudStatus, hw: HwId]
  BY DEF TypeInv, TypeOK, Jobs, Card, Worker
<1> DEFINE j == job[d]["heartbeat"]
<1>1. CASE HeartbeatStart(d)
  <2> DEFINE r == [Idle EXCEPT !.pc = IF mem[d].key = NoKey THEN "post" ELSE "ask", !.key = mem[d].key]
  <2>1. r \in Job /\ Proper(r)
    <3>1. mem[d].key \in Key \cup {NoKey}
      BY <1>0 DEF LicenseState
    <3>2. CASE mem[d].key = NoKey
      BY <3>1, <3>2, EmptyTypes DEF Job, Proper
    <3>3. CASE mem[d].key # NoKey
      BY <3>1, <3>3, EmptyTypes DEF Job, Proper
    <3> QED BY <3>2, <3>3
  <2>2. Goto(d, "heartbeat", r)
    BY <1>1 DEF HeartbeatStart
  <2> HIDE DEF r
  <2>3. job' \in Jobs /\ \A e \in Device, u \in Worker : Proper(job'[e][u])
    BY <1>0, <2>1, <2>2, JobType
  <2> QED BY <1>0, <1>1, <2>3 DEF HeartbeatStart, TypeInv, TypeOK, Jobs
<1>2. CASE HeartbeatAsk(d)
  <2> DEFINE r == [j EXCEPT !.pc = "apply", !.ans = cloud[j.key].status]
  <2>1. j.key \in Key
    BY <1>0, <1>2 DEF HeartbeatAsk, At, Proper
  <2>2. r \in Job /\ Proper(r)
    BY <1>0, <2>1 DEF Job, Proper
  <2>3. Goto(d, "heartbeat", r)
    BY <1>2 DEF HeartbeatAsk
  <2> HIDE DEF r
  <2>4. job' \in Jobs /\ \A e \in Device, u \in Worker : Proper(job'[e][u])
    BY <1>0, <2>2, <2>3, JobType
  <2> QED BY <1>0, <1>2, <2>4 DEF HeartbeatAsk, TypeInv, TypeOK, Jobs
<1>3. CASE HeartbeatApply(d)
  <2>1. j.key \in Key /\ j.ans \in CloudStatus
    BY <1>0, <1>3 DEF HeartbeatApply, At, Proper
  <2>2. job' \in Jobs /\ \A e \in Device, u \in Worker : Proper(job'[e][u])
    BY <1>0, <1>3, <2>1, SaveType DEF HeartbeatApply
  <2>3. mem' = [mem EXCEPT ![d] = [mem[d] EXCEPT
                  !.status = IF j.ans \in {"active", "available"} THEN mem[d].status ELSE j.ans,
                  !.resp = "fresh"]]
    BY <1>0, <1>3 DEF HeartbeatApply, TypeOK
  <2>4. mem' \in [Device -> LicenseState]
    BY <1>0, <2>1, <2>3 DEF TypeOK, LicenseState, CloudStatus
  <2> QED BY <1>0, <1>3, <2>2, <2>4 DEF HeartbeatApply, TypeInv, TypeOK, Jobs
<1>4. CASE HeartbeatStamp(d)
  <2>1. j.key \in Key /\ HardwareFingerprint(d, card[d]) \in HwId
    BY <1>0, <1>4, IdentityType DEF HeartbeatStamp, At, Proper
  <2>2. job' \in Jobs /\ \A e \in Device, u \in Worker : Proper(job'[e][u])
    BY <1>0, <1>4, EmptyTypes, JobType DEF HeartbeatStamp
  <2>3. cloud' \in [Key -> [status: CloudStatus, hw: HwId]]
    BY <1>0, <1>4, <2>1 DEF HeartbeatStamp, TypeOK
  <2> QED BY <1>0, <1>4, <2>2, <2>3 DEF HeartbeatStamp, TypeInv, TypeOK, Jobs
<1>5. CASE HeartbeatStampLost(d)
  <2>1. job' \in Jobs /\ \A e \in Device, u \in Worker : Proper(job'[e][u])
    BY <1>0, <1>5, EmptyTypes, JobType DEF HeartbeatStampLost
  <2> QED BY <1>0, <1>5, <2>1 DEF HeartbeatStampLost, TypeInv, TypeOK, Jobs
<1>6. CASE HeartbeatPost(d)
  <2>1. job' \in Jobs /\ \A e \in Device, u \in Worker : Proper(job'[e][u])
    BY <1>0, <1>6, SaveType DEF HeartbeatPost
  <2>2. mem' \in [Device -> LicenseState]
    BY <1>0, <1>6 DEF HeartbeatPost, TypeOK, LicenseState
  <2> QED BY <1>0, <1>6, <2>1, <2>2 DEF HeartbeatPost, TypeInv, TypeOK, Jobs
<1>7. CASE HeartbeatError(d)
  <2>1. job' \in Jobs /\ \A e \in Device, u \in Worker : Proper(job'[e][u])
    BY <1>0, <1>7, SaveType DEF HeartbeatError
  <2> QED BY <1>0, <1>7, <2>1 DEF HeartbeatError, TypeInv, TypeOK, Jobs
<1> QED BY <1>1, <1>2, <1>3, <1>4, <1>5, <1>6, <1>7 DEF HeartbeatStep

\* What the admin of a device does.
AdminRequest(d) ==
    \/ AdminStep(d) \/ RequestFails(d) \/ DeactivateStart(d) \/ DeactivateOffline(d)
    \/ \E k \in Key : ActivateCheck(d, k)

\* A step of a request leaves the state well typed.
LEMMA AdminType ==
  ASSUME TypeInv, NEW d \in Device, AdminRequest(d)
  PROVE  TypeInv'
<1>0. /\ TypeOK /\ job \in Jobs /\ mem[d] \in LicenseState
      /\ job[d]["admin"] \in Job /\ Proper(job[d]["admin"]) /\ "admin" \in Worker
      /\ \A k \in Key : cloud[k] \in [status: CloudStatus, hw: HwId]
  BY DEF TypeInv, TypeOK, Jobs, Worker
<1>e. Event => events' \in 0 .. MaxEvents
  BY <1>0, LicenseAssumption DEF Event, Events, TypeOK
<1> DEFINE j == job[d]["admin"]
<1>m. ASSUME NEW pc \in {"claimed", "released"}, j.key \in Key, Goto(d, "admin", [j EXCEPT !.pc = pc])
      PROVE  job' \in Jobs /\ \A e \in Device, u \in Worker : Proper(job'[e][u])
  <2> DEFINE r == [j EXCEPT !.pc = pc]
  <2>1. r \in Job /\ Proper(r)
    BY <1>0, <1>m DEF Job, Proper
  <2>2. Goto(d, "admin", r)
    BY <1>m
  <2> HIDE DEF r
  <2> QED BY <1>0, <2>1, <2>2, JobType
<1>1. CASE ActivateClaim(d)
  <2>1. j.key \in Key
    BY <1>0, <1>1 DEF ActivateClaim, At, Proper
  <2>2. job' \in Jobs /\ \A e \in Device, u \in Worker : Proper(job'[e][u])
    BY <1>1, <1>m, <2>1 DEF ActivateClaim
  <2>3. [status |-> "active", hw |-> mem[d].hw] \in [status: CloudStatus, hw: HwId]
    BY <1>0 DEF LicenseState, CloudStatus
  <2>4. cloud' \in [Key -> [status: CloudStatus, hw: HwId]] /\ holders' \in [Key -> SUBSET Device]
    BY <1>0, <1>1, <2>1, <2>3 DEF ActivateClaim, TypeOK
  <2> QED BY <1>0, <1>1, <2>2, <2>4 DEF ActivateClaim, TypeInv, TypeOK, Jobs
<1>2. CASE ActivateDone(d)
  <2>1. j.key \in Key
    BY <1>0, <1>2 DEF ActivateDone, At, Proper
  <2>2. job' \in Jobs /\ \A e \in Device, u \in Worker : Proper(job'[e][u])
    BY <1>0, <1>2, <2>1, SaveType DEF ActivateDone
  <2>3. mem' = [mem EXCEPT ![d] = [mem[d] EXCEPT !.status = "active", !.key = j.key, !.resp = "fresh"]]
    BY <1>0, <1>2 DEF ActivateDone, TypeOK
  <2>4. mem' \in [Device -> LicenseState]
    BY <1>0, <2>1, <2>3 DEF TypeOK, LicenseState
  <2> QED BY <1>0, <1>2, <2>2, <2>4 DEF ActivateDone, TypeInv, TypeOK, Jobs
<1>3. CASE DeactivateRelease(d)
  <2>1. j.key \in Key
    BY <1>0, <1>3 DEF DeactivateRelease, At, Proper
  <2>2. job' \in Jobs /\ \A e \in Device, u \in Worker : Proper(job'[e][u])
    BY <1>3, <1>m, <2>1 DEF DeactivateRelease
  <2>3. [status |-> "revoked", hw |-> NoHw] \in [status: CloudStatus, hw: HwId]
    BY EmptyTypes DEF CloudStatus
  <2>4. cloud' \in [Key -> [status: CloudStatus, hw: HwId]] /\ revoked' \subseteq Key
    BY <1>0, <1>3, <2>1, <2>3 DEF DeactivateRelease, TypeOK
  <2> QED BY <1>0, <1>3, <2>2, <2>4 DEF DeactivateRelease, TypeInv, TypeOK, Jobs
<1>4. CASE DeactivateDone(d)
  <2>1. job' \in Jobs /\ \A e \in Device, u \in Worker : Proper(job'[e][u])
    BY <1>0, <1>4, SaveType DEF DeactivateDone
  <2>2. mem' \in [Device -> LicenseState]
    BY <1>0, <1>4 DEF DeactivateDone, TypeOK, LicenseState
  <2> QED BY <1>0, <1>4, <2>1, <2>2 DEF DeactivateDone, TypeInv, TypeOK, Jobs
<1>5. CASE RequestFails(d)
  <2>1. job' \in Jobs /\ \A e \in Device, u \in Worker : Proper(job'[e][u])
    BY <1>0, <1>5, EmptyTypes, JobType DEF RequestFails
  <2> QED BY <1>0, <1>e, <1>5, <2>1 DEF RequestFails, TypeInv, TypeOK, Jobs
<1>6. CASE DeactivateStart(d)
  <2> DEFINE r == [Idle EXCEPT !.pc = "release", !.key = mem[d].key, !.ans = "revoked"]
  <2>1. mem[d].key \in Key
    BY <1>0, <1>6 DEF DeactivateStart, LicenseState
  <2>2. r \in Job /\ Proper(r)
    BY <2>1, NewJobType DEF CloudStatus
  <2>3. Goto(d, "admin", r)
    BY <1>6 DEF DeactivateStart
  <2> HIDE DEF r
  <2>4. job' \in Jobs /\ \A e \in Device, u \in Worker : Proper(job'[e][u])
    BY <1>0, <2>2, <2>3, JobType
  <2> QED BY <1>0, <1>e, <1>6, <2>4 DEF DeactivateStart, TypeInv, TypeOK, Jobs
<1>7. CASE DeactivateOffline(d)
  <2>1. j.key \in Key
    BY <1>0, <1>7 DEF DeactivateOffline, At, Proper
  <2>2. job' \in Jobs /\ \A e \in Device, u \in Worker : Proper(job'[e][u])
    BY <1>7, <1>m, <2>1 DEF DeactivateOffline
  <2> QED BY <1>0, <1>e, <1>7, <2>2 DEF DeactivateOffline, TypeInv, TypeOK, Jobs
<1>8. ASSUME NEW k \in Key, ActivateCheck(d, k)
      PROVE  TypeInv'
  <2> DEFINE r == [Idle EXCEPT !.pc = "claim", !.key = k, !.ans = "active"]
  <2>1. r \in Job /\ Proper(r)
    BY NewJobType DEF CloudStatus
  <2>2. Goto(d, "admin", r)
    BY <1>8 DEF ActivateCheck
  <2> HIDE DEF r
  <2>3. job' \in Jobs /\ \A e \in Device, u \in Worker : Proper(job'[e][u])
    BY <1>0, <2>1, <2>2, JobType
  <2> QED BY <1>0, <1>e, <1>8, <2>3 DEF ActivateCheck, TypeInv, TypeOK, Jobs
<1> QED BY <1>1, <1>2, <1>3, <1>4, <1>5, <1>6, <1>7, <1>8 DEF AdminRequest, AdminStep

\* Saving leaves the state well typed.
LEMMA SavingType ==
  ASSUME TypeInv, NEW d \in Device, NEW w \in Worker, SaveStep(d, w) \/ SaveFails(d, w)
  PROVE  TypeInv'
<1>0. /\ TypeOK /\ job \in Jobs /\ mem[d] \in LicenseState
      /\ job[d][w] \in Job /\ Proper(job[d][w])
  BY DEF TypeInv, TypeOK, Jobs
<1>e. Event => events' \in 0 .. MaxEvents
  BY <1>0, LicenseAssumption DEF Event, Events, TypeOK
<1>1. CASE SaveSnapshot(d, w)
  <2> DEFINE r == [job[d][w] EXCEPT !.pc = "write", !.snap = mem[d]]
  <2>1. r \in Job /\ Proper(r)
    BY <1>0, <1>1 DEF SaveSnapshot, At, Job, Proper
  <2>2. Goto(d, w, r)
    BY <1>1 DEF SaveSnapshot
  <2> HIDE DEF r
  <2>3. job' \in Jobs /\ \A e \in Device, u \in Worker : Proper(job'[e][u])
    BY <1>0, <2>1, <2>2, JobType
  <2> QED BY <1>0, <1>1, <2>3 DEF SaveSnapshot, TypeInv, TypeOK, Jobs
<1>2. CASE SaveWrite(d, w)
  <2>1. job' \in Jobs /\ \A e \in Device, u \in Worker : Proper(job'[e][u])
    BY <1>0, <1>2, SavedType DEF SaveWrite
  <2>2. promise' \in [Device -> CloudStatus \cup {"none"}]
    BY <1>0, <1>2 DEF SaveWrite, Answer, TypeOK, Job
  <2>3. job[d][w].snap \in LicenseState
    BY <1>0 DEF Job
  <2>4. card' \in [Device -> [row: LicenseState, machine: Nat, stamp: Nat \X Nat \X Nat]]
    BY <1>0, <1>2, <2>3 DEF SaveWrite, TypeOK
  <2> QED BY <1>0, <1>2, <2>1, <2>2, <2>4 DEF SaveWrite, TypeInv, TypeOK, Jobs
<1>3. CASE SaveFails(d, w)
  <2>1. job' \in Jobs /\ \A e \in Device, u \in Worker : Proper(job'[e][u])
    BY <1>0, <1>3, SavedType DEF SaveFails
  <2> QED BY <1>0, <1>e, <1>3, <2>1 DEF SaveFails, TypeInv, TypeOK, Jobs
<1> QED BY <1>1, <1>2, <1>3 DEF SaveStep

\* Starts, the vendor and the calendar.
Outside ==
    \/ \E d \in Device : Boot(d) \/ BootUnread(d) \/ \E e \in Device : CloneCard(d, e)
    \/ \E k \in Key, s \in {"revoked", "available"} : Vendor(k, s)
    \/ Day

\* A state grows older within its type.
LEMMA OlderType ==
  ASSUME NEW st \in LicenseState
  PROVE  Older(st) \in LicenseState
<1> DEFINE n == IF st.left > 0 THEN st.left - 1 ELSE 0
           r == IF st.resp = "fresh" THEN "stale" ELSE st.resp
<1>1. n \in 0 .. TrialDays
  <2>1. st.left \in 0 .. TrialDays /\ TrialDays \in Nat
    BY LicenseAssumption DEF LicenseState
  <2> QED BY <2>1
<1>2. r \in {"never", "fresh", "stale"}
  BY DEF LicenseState
<1> HIDE DEF n, r
<1>3. [st EXCEPT !.left = n, !.resp = r] \in LicenseState
  BY <1>1, <1>2 DEF LicenseState
<1> QED BY <1>3 DEF Older, n, r

\* What happens outside leaves the state well typed.
LEMMA OutsideType ==
  ASSUME TypeInv, Outside
  PROVE  TypeInv'
<1>0. /\ TypeOK /\ job \in Jobs /\ card \in [Device -> Card]
      /\ \A d \in Device, w \in Worker : Proper(job[d][w])
  BY DEF TypeInv, TypeOK, Jobs, Card
<1>e. Event => events' \in 0 .. MaxEvents
  BY <1>0, LicenseAssumption DEF Event, Events, TypeOK
<1>1. ASSUME NEW d \in Device, Boot(d)
      PROVE  TypeInv'
  BY <1>0, <1>1, StartType DEF Boot, TypeInv, TypeOK, Jobs, Card
<1>2. ASSUME NEW d \in Device, NEW e \in Device, CloneCard(d, e)
      PROVE  TypeInv'
  <2>1. promise' \in [Device -> CloudStatus \cup {"none"}]
    BY <1>0, <1>2 DEF CloneCard, TypeOK
  <2> QED BY <1>0, <1>2, <2>1, StartType DEF CloneCard, TypeInv, TypeOK, Jobs, Card
<1>3. ASSUME NEW d \in Device, BootUnread(d)
      PROVE  TypeInv'
  <2>1. job' \in Jobs /\ \A e \in Device, u \in Worker : Proper(job'[e][u])
    BY <1>0, <1>3, EmptyTypes DEF BootUnread, Jobs
  <2>2. mem' \in [Device -> LicenseState]
    BY <1>0, <1>3, EmptyTypes DEF BootUnread, TypeOK
  <2> QED BY <1>0, <1>e, <1>3, <2>1, <2>2 DEF BootUnread, TypeInv, TypeOK, Jobs
<1>4. ASSUME NEW k \in Key, NEW s \in {"revoked", "available"}, Vendor(k, s)
      PROVE  TypeInv'
  <2>1. cloud' \in [Key -> [status: CloudStatus, hw: HwId]] /\ revoked' \subseteq Key
    BY <1>0, <1>4 DEF Vendor, TypeOK, CloudStatus
  <2> QED BY <1>0, <1>e, <1>4, <2>1 DEF Vendor, TypeInv, TypeOK, Jobs
<1>5. CASE Day
  <2>1. mem' \in [Device -> LicenseState]
    BY <1>0, <1>5, OlderType DEF Day, TypeOK
  <2>2. card' \in [Device -> Card]
    <3>1. ASSUME NEW d \in Device
          PROVE  [card[d] EXCEPT !.row = Older(card[d].row)] \in Card
      <4>1. card[d] \in Card /\ Older(card[d].row) \in LicenseState
        BY <1>0, OlderType DEF Card
      <4> QED BY <4>1 DEF Card
    <3> QED BY <1>0, <1>5, <3>1 DEF Day
  <2> QED BY <1>0, <1>5, <2>1, <2>2 DEF Day, TypeInv, TypeOK, Jobs, Card
<1> QED BY <1>1, <1>2, <1>3, <1>4, <1>5 DEF Outside

\* Every step is one of a heartbeat, a request, a save, or comes from outside.
LEMMA Steps ==
  ASSUME [Next]_vars
  PROVE  \/ \E d \in Device : HeartbeatStep(d) \/ AdminRequest(d)
         \/ \E d \in Device, w \in Worker : SaveStep(d, w) \/ SaveFails(d, w)
         \/ Outside \/ UNCHANGED vars
BY DEF Next, AdminRequest, Outside

\* The state at the start is well typed.
LEMMA InitType == ASSUME Init PROVE TypeInv
<1>1. cloud \in [Key -> [status: CloudStatus, hw: HwId]]
  BY EmptyTypes DEF Init, CloudStatus
<1>2. card \in [Device -> [row: LicenseState, machine: Nat, stamp: Nat \X Nat \X Nat]]
  BY EmptyTypes DEF Init
<1>3. mem \in [Device -> LicenseState]
  BY EmptyTypes DEF Init
<1>4. job \in [Device -> [Worker -> Job]] /\ \A d \in Device, w \in Worker : Proper(job[d][w])
  BY EmptyTypes DEF Init
<1>5. events \in 0 .. MaxEvents
  BY LicenseAssumption DEF Init
<1> QED BY <1>1, <1>2, <1>3, <1>4, <1>5 DEF Init, TypeInv, TypeOK

\* Every step leaves the state well typed.
LEMMA StepType ==
  ASSUME TypeInv, [Next]_vars
  PROVE  TypeInv'
<1>1. CASE UNCHANGED vars
  BY <1>1 DEF vars, TypeInv, TypeOK
<1> QED BY <1>1, Steps, HeartbeatType, AdminType, SavingType, OutsideType

\* Every reachable state is well typed.
LEMMA TypeInvariant == Spec => []TypeInv
<1>1. Init => TypeInv
  BY InitType
<1>2. TypeInv /\ [Next]_vars => TypeInv'
  BY StepType
<1> QED BY <1>1, <1>2, PTL DEF Spec

\* Type correctness: in every interleaving of heartbeats, requests, saves, starts
\* and clones, the state in memory, the row on the card and the rows in the cloud
\* keep the declared types, and no call is made without a key.
THEOREM TypeCorrect == Spec => []TypeOK
<1>1. TypeInv => TypeOK
  BY DEF TypeInv
<1> QED BY <1>1, TypeInvariant, PTL

-----------------------------------------------------------------------------
\* A license stays on its board

\* A board without a serial number or a MAC of its own is known by its machine-id.
MachineBoard(d) == Cpu[d] = 0 /\ Tree[d] = 0 /\ Mac[d] \in DummyMac \cup {0}
FixedId(d) ==
    IF Cpu[d] # 0 THEN <<"cpu", Cpu[d]>>
    ELSE IF Tree[d] # 0 THEN <<"dt", Tree[d]>> ELSE <<"mac", Mac[d]>>

\* The premise of the code: boards differ in what it reads from them.
DistinctBoards ==
    \A d, e \in Device : d # e =>
        /\ HardwareStamp(d) # HardwareStamp(e)
        /\ ~MachineBoard(d) /\ ~MachineBoard(e) => FixedId(d) # FixedId(e)

\* Board d, started with one of the cards, may take id for its own.
MayBe(d, id, cards) ==
    IF MachineBoard(d)
    THEN \E x \in Device : StampedHere(d, cards[x]) /\ id = <<"machine", cards[x].machine>>
    ELSE id = FixedId(d)

\* The identity of a board that runs, which its card carries if the board does not.
Settled(d) == MachineBoard(d) => StampedHere(d, card[d])
OwnId(d) == IF MachineBoard(d) THEN <<"machine", card[d].machine>> ELSE FixedId(d)

\* Machine ids are minted once, for one board each; none of the n first is new.
Known(id, n) == id[1] = "machine" => id[2] <= n
MintedOnce ==
    /\ \A x \in Device : card[x].machine <= minted
    /\ \A x, y \in Device : card[x].machine = card[y].machine /\ card[x].machine # 0
                                => card[x].stamp = card[y].stamp
    /\ \A x \in Device : Known(card[x].row.hw, minted) /\ Known(mem[x].hw, minted)
    /\ \A x \in Device, w \in Worker : Known(job[x][w].snap.hw, minted)

\* An active license names a board, and whoever may be that board activated the key.
Bound(r, cards, h) ==
    r.status = "active" =>
        /\ r.hw # NoHw /\ r.key \in Key
        /\ \A d \in Device : MayBe(d, r.hw, cards) => d \in h[r.key]

BoundInv ==
    /\ \A x \in Device : Bound(card[x].row, card, holders)
    /\ \A d \in up : Settled(d) /\ mem[d].hw = OwnId(d) /\ Bound(mem[d], card, holders)
    /\ \A d \in Device, w \in Worker : job[d][w].pc # "idle" => d \in up
    /\ \A d \in Device, w \in Worker : job[d][w].pc = "write" => Bound(job[d][w].snap, card, holders)
    /\ \A d \in Device : job[d]["admin"].pc = "claimed" => d \in holders[job[d]["admin"].key]
BoardInv == MintedOnce /\ (unread = {} => BoundInv)

\* What a worker leaves alone, and where what it writes comes from.
FrameState ==
    /\ UNCHANGED <<up, minted, unread>>
    /\ \A k \in Key : holders[k] \subseteq holders'[k]
    /\ \A x \in Device :
         /\ card'[x].machine = card[x].machine /\ card'[x].stamp = card[x].stamp
         /\ \/ card'[x].row = card[x].row
            \/ \E w \in Worker : job[x][w].pc = "write" /\ card'[x].row = job[x][w].snap
FrameMem ==
    \A x \in Device :
        /\ mem'[x].hw = mem[x].hw
        /\ mem'[x].status = "active" =>
             \/ mem[x].status = "active" /\ mem'[x].key = mem[x].key
             \/ job[x]["admin"].pc = "claimed" /\ mem'[x].key = job[x]["admin"].key
FrameJob(x, w) ==
    /\ job'[x][w].pc # "idle" => job[x][w].pc # "idle" \/ x \in up
    /\ job'[x][w].pc = "write" =>
         \/ job[x][w].pc = "write" /\ job'[x][w].snap = job[x][w].snap
         \/ x \in up /\ job'[x][w].snap = mem[x]
    /\ job'[x][w].snap \in {job[x][w].snap, NoRow, mem[x]}
    /\ job'[x][w].pc = "claimed" =>
         \/ job[x][w].pc = "claimed" /\ job'[x][w].key = job[x][w].key
         \/ x \in holders'[job'[x][w].key]
WorkerFrame == FrameState /\ FrameMem /\ \A x \in Device, w \in Worker : FrameJob(x, w)

\* A step of worker w of device d is framed when its own new job is.
LEMMA OneJobFrame ==
  ASSUME job \in Jobs, NEW d \in Device, NEW w \in Worker, NEW j \in Job, Goto(d, w, j),
         j.pc # "idle" => d \in up, j.pc \notin {"write", "claimed"},
         j.snap \in {job[d][w].snap, NoRow}
  PROVE  \A x \in Device, u \in Worker : FrameJob(x, u)
<1>1. /\ job' \in Jobs /\ job'[d][w] = j
      /\ \A e \in Device, u \in Worker : e # d \/ u # w => job'[e][u] = job[e][u]
  BY JobSet
<1>2. FrameJob(d, w)
  BY <1>1 DEF FrameJob
<1>3. ASSUME NEW x \in Device, NEW u \in Worker, x # d \/ u # w
      PROVE  FrameJob(x, u)
  BY <1>1, <1>3 DEF FrameJob
<1> QED BY <1>2, <1>3

\* ... in particular when it goes on to save,
LEMMA SaveFrame ==
  ASSUME TypeInv, NEW d \in Device, NEW w \in Worker, d \in up,
         NEW next \in {"idle", "stamp"}, SaveThen(d, w, next)
  PROVE  \A x \in Device, u \in Worker : FrameJob(x, u)
<1> DEFINE j == [job[d][w] EXCEPT !.pc = "save", !.then = next]
<1>1. job \in Jobs /\ job[d][w] \in Job
  BY DEF TypeInv, TypeOK, Jobs
<1>2. j \in Job /\ j.pc = "save" /\ j.snap = job[d][w].snap
  BY <1>1 DEF Job
<1>3. Goto(d, w, j)
  BY DEF SaveThen
<1> HIDE DEF j
<1> QED BY <1>1, <1>2, <1>3, OneJobFrame

\* ... or is done.
LEMMA IdleFrame ==
  ASSUME TypeInv, NEW d \in Device, NEW w \in Worker, Goto(d, w, Idle)
  PROVE  \A x \in Device, u \in Worker : FrameJob(x, u)
<1>1. job \in Jobs
  BY DEF TypeInv, TypeOK, Jobs
<1>2. Idle.pc = "idle" /\ Idle.snap = NoRow
  BY DEF Idle
<1> QED BY <1>1, <1>2, EmptyTypes, OneJobFrame

\* What is written in memory by a step that changes one entry.
LEMMA OneMemFrame ==
  ASSUME TypeInv, NEW d \in Device, NEW st \in LicenseState, mem' = [mem EXCEPT ![d] = st],
         st.hw = mem[d].hw,
         st.status = "active" =>
             \/ mem[d].status = "active" /\ st.key = mem[d].key
             \/ job[d]["admin"].pc = "claimed" /\ st.key = job[d]["admin"].key
  PROVE  FrameMem
BY DEF FrameMem, TypeInv, TypeOK

\* The heartbeat is framed.
LEMMA HeartbeatFrame ==
  ASSUME TypeInv, NEW d \in Device, HeartbeatStep(d)
  PROVE  WorkerFrame
<1>0. /\ TypeOK /\ job \in Jobs /\ mem[d] \in LicenseState
      /\ job[d]["heartbeat"] \in Job /\ Proper(job[d]["heartbeat"]) /\ "heartbeat" \in Worker
      /\ \A k \in Key : cloud[k] \in [status: CloudStatus, hw: HwId]
  BY DEF TypeInv, TypeOK, Jobs, Worker
<1> DEFINE j == job[d]["heartbeat"]
<1>s. UNCHANGED <<up, minted, unread, holders, card>> => FrameState
  BY DEF FrameState
<1>m. UNCHANGED mem => FrameMem
  BY DEF FrameMem
<1>1. CASE HeartbeatStart(d)
  <2> DEFINE r == [Idle EXCEPT !.pc = IF mem[d].key = NoKey THEN "post" ELSE "ask", !.key = mem[d].key]
  <2>1. r \in Job /\ r.pc \in {"post", "ask"} /\ r.snap = NoRow
    <3>1. mem[d].key \in Key \cup {NoKey}
      BY <1>0 DEF LicenseState
    <3>2. CASE mem[d].key = NoKey
      BY <3>1, <3>2, EmptyTypes DEF Job, Idle
    <3>3. CASE mem[d].key # NoKey
      BY <3>1, <3>3, EmptyTypes DEF Job, Idle
    <3> QED BY <3>2, <3>3
  <2>2. Goto(d, "heartbeat", r) /\ d \in up
    BY <1>1 DEF HeartbeatStart, MayStart
  <2> HIDE DEF r
  <2>3. \A x \in Device, u \in Worker : FrameJob(x, u)
    BY <1>0, <2>1, <2>2, OneJobFrame
  <2> QED BY <1>s, <1>m, <1>1, <2>3 DEF HeartbeatStart, WorkerFrame
<1>2. CASE HeartbeatAsk(d)
  <2> DEFINE r == [j EXCEPT !.pc = "apply", !.ans = cloud[j.key].status]
  <2>1. j.key \in Key /\ d \in up
    BY <1>0, <1>2 DEF HeartbeatAsk, At, Proper
  <2>2. r \in Job /\ r.pc = "apply" /\ r.snap = j.snap
    BY <1>0, <2>1 DEF Job
  <2>3. Goto(d, "heartbeat", r)
    BY <1>2 DEF HeartbeatAsk
  <2> HIDE DEF r
  <2>4. \A x \in Device, u \in Worker : FrameJob(x, u)
    BY <1>0, <2>1, <2>2, <2>3, OneJobFrame
  <2> QED BY <1>s, <1>m, <1>2, <2>4 DEF HeartbeatAsk, WorkerFrame
<1>3. CASE HeartbeatApply(d)
  <2> DEFINE a == IF j.ans \in {"active", "available"} THEN mem[d].status ELSE j.ans
             st == [mem[d] EXCEPT !.status = a, !.resp = "fresh"]
  <2>1. d \in up /\ j.ans \in CloudStatus
    BY <1>0, <1>3 DEF HeartbeatApply, At, Proper
  <2>2. \A x \in Device, u \in Worker : FrameJob(x, u)
    BY <1>0, <1>3, <2>1, SaveFrame DEF HeartbeatApply
  <2>3. mem' = [mem EXCEPT ![d] = st]
    BY <1>0, <1>3 DEF HeartbeatApply, TypeOK
  <2>4. a \in {"no row", "", "trial", "active", "locked", "revoked"} /\ (a = "active" => mem[d].status = "active")
    BY <1>0, <2>1 DEF LicenseState, CloudStatus
  <2> HIDE DEF a
  <2>5. st \in LicenseState /\ st.hw = mem[d].hw /\ st.key = mem[d].key /\ st.status = a
    BY <1>0, <2>4 DEF LicenseState
  <2> HIDE DEF st
  <2>6. FrameMem
    BY <2>3, <2>4, <2>5, OneMemFrame
  <2> QED BY <1>s, <1>3, <2>2, <2>6 DEF HeartbeatApply, WorkerFrame
<1>4. CASE HeartbeatStamp(d) \/ HeartbeatStampLost(d)
  <2>1. \A x \in Device, u \in Worker : FrameJob(x, u)
    BY <1>0, <1>4, IdleFrame DEF HeartbeatStamp, HeartbeatStampLost
  <2> QED BY <1>s, <1>m, <1>4, <2>1 DEF HeartbeatStamp, HeartbeatStampLost, WorkerFrame
<1>5. CASE HeartbeatPost(d)
  <2> DEFINE st == [mem[d] EXCEPT !.resp = "fresh"]
  <2>1. \A x \in Device, u \in Worker : FrameJob(x, u)
    BY <1>0, <1>5, SaveFrame DEF HeartbeatPost, At
  <2>2. mem' = [mem EXCEPT ![d] = st]
    BY <1>0, <1>5 DEF HeartbeatPost, TypeOK
  <2>3. st \in LicenseState /\ st.hw = mem[d].hw /\ st.key = mem[d].key /\ st.status = mem[d].status
    BY <1>0 DEF LicenseState
  <2> HIDE DEF st
  <2>4. FrameMem
    BY <2>2, <2>3, OneMemFrame
  <2> QED BY <1>s, <1>5, <2>1, <2>4 DEF HeartbeatPost, WorkerFrame
<1>6. CASE HeartbeatError(d)
  <2>1. \A x \in Device, u \in Worker : FrameJob(x, u)
    BY <1>0, <1>6, SaveFrame DEF HeartbeatError, At
  <2> QED BY <1>s, <1>m, <1>6, <2>1 DEF HeartbeatError, WorkerFrame
<1> QED BY <1>1, <1>2, <1>3, <1>4, <1>5, <1>6 DEF HeartbeatStep

\* So are requests,
LEMMA AdminFrame ==
  ASSUME TypeInv, NEW d \in Device, AdminRequest(d)
  PROVE  WorkerFrame
<1>0. /\ TypeOK /\ job \in Jobs /\ mem[d] \in LicenseState
      /\ job[d]["admin"] \in Job /\ Proper(job[d]["admin"]) /\ "admin" \in Worker
  BY DEF TypeInv, TypeOK, Jobs, Worker
<1> DEFINE j == job[d]["admin"]
<1>s. UNCHANGED <<up, minted, unread, holders, card>> => FrameState
  BY DEF FrameState
<1>m. UNCHANGED mem => FrameMem
  BY DEF FrameMem
<1>r. ASSUME Goto(d, "admin", [j EXCEPT !.pc = "released"]), d \in up
      PROVE  \A x \in Device, u \in Worker : FrameJob(x, u)
  <2> DEFINE r == [j EXCEPT !.pc = "released"]
  <2>1. r \in Job /\ r.pc = "released" /\ r.snap = j.snap
    BY <1>0 DEF Job
  <2>2. Goto(d, "admin", r)
    BY <1>r
  <2> HIDE DEF r
  <2> QED BY <1>0, <1>r, <2>1, <2>2, OneJobFrame
<1>1. CASE ActivateClaim(d)
  <2> DEFINE r == [j EXCEPT !.pc = "claimed"]
  <2>1. r \in Job /\ r.pc = "claimed" /\ r.snap = j.snap /\ r.key = j.key
    BY <1>0 DEF Job
  <2>2. Goto(d, "admin", r) /\ d \in up
    BY <1>1 DEF ActivateClaim, At
  <2>3. j.key \in Key
    BY <1>0, <1>1 DEF ActivateClaim, At, Proper
  <2>4. /\ d \in holders'[j.key]
        /\ \A k \in Key : holders[k] \subseteq holders'[k]
    BY <1>0, <1>1, <2>3 DEF ActivateClaim, TypeOK
  <2> HIDE DEF r
  <2>5. /\ job'[d]["admin"] = r
        /\ \A e \in Device, u \in Worker : e # d \/ u # "admin" => job'[e][u] = job[e][u]
    BY <1>0, <2>1, <2>2, JobSet
  <2>6. FrameJob(d, "admin")
    BY <2>1, <2>2, <2>4, <2>5 DEF FrameJob
  <2>7. ASSUME NEW x \in Device, NEW u \in Worker, x # d \/ u # "admin"
        PROVE  FrameJob(x, u)
    BY <2>5, <2>7 DEF FrameJob
  <2>8. FrameState
    BY <1>1, <2>4 DEF ActivateClaim, FrameState
  <2> QED BY <1>m, <1>1, <2>6, <2>7, <2>8 DEF ActivateClaim, WorkerFrame
<1>2. CASE ActivateDone(d)
  <2> DEFINE st == [mem[d] EXCEPT !.status = "active", !.key = j.key, !.resp = "fresh"]
  <2>1. d \in up /\ j.pc = "claimed" /\ j.key \in Key
    BY <1>0, <1>2 DEF ActivateDone, At, Proper
  <2>2. \A x \in Device, u \in Worker : FrameJob(x, u)
    BY <1>0, <1>2, <2>1, SaveFrame DEF ActivateDone
  <2>3. mem' = [mem EXCEPT ![d] = st]
    BY <1>0, <1>2 DEF ActivateDone, TypeOK
  <2>4. st \in LicenseState /\ st.hw = mem[d].hw /\ st.key = j.key
    BY <1>0, <2>1 DEF LicenseState
  <2> HIDE DEF st
  <2>5. FrameMem
    BY <2>1, <2>3, <2>4, OneMemFrame
  <2> QED BY <1>s, <1>2, <2>2, <2>5 DEF ActivateDone, WorkerFrame
<1>3. CASE DeactivateRelease(d)
  <2>1. \A x \in Device, u \in Worker : FrameJob(x, u)
    BY <1>3, <1>r DEF DeactivateRelease, At
  <2> QED BY <1>s, <1>m, <1>3, <2>1 DEF DeactivateRelease, WorkerFrame
<1>4. CASE DeactivateDone(d)
  <2> DEFINE st == [mem[d] EXCEPT !.status = "locked"]
  <2>1. \A x \in Device, u \in Worker : FrameJob(x, u)
    BY <1>0, <1>4, SaveFrame DEF DeactivateDone, At
  <2>2. mem' = [mem EXCEPT ![d] = st]
    BY <1>0, <1>4 DEF DeactivateDone, TypeOK
  <2>3. st \in LicenseState /\ st.hw = mem[d].hw /\ st.status = "locked"
    BY <1>0 DEF LicenseState
  <2> HIDE DEF st
  <2>4. FrameMem
    BY <2>2, <2>3, OneMemFrame
  <2> QED BY <1>s, <1>4, <2>1, <2>4 DEF DeactivateDone, WorkerFrame
<1>5. CASE RequestFails(d)
  <2>1. \A x \in Device, u \in Worker : FrameJob(x, u)
    BY <1>0, <1>5, IdleFrame DEF RequestFails
  <2> QED BY <1>s, <1>m, <1>5, <2>1 DEF RequestFails, WorkerFrame
<1>6. CASE DeactivateStart(d)
  <2> DEFINE r == [Idle EXCEPT !.pc = "release", !.key = mem[d].key, !.ans = "revoked"]
  <2>1. mem[d].key \in Key /\ d \in up
    BY <1>0, <1>6 DEF DeactivateStart, MayStart, LicenseState
  <2>2. r \in Job /\ r.pc = "release" /\ r.snap = NoRow
    BY <2>1, NewJobType DEF CloudStatus, Idle
  <2>3. Goto(d, "admin", r)
    BY <1>6 DEF DeactivateStart
  <2> HIDE DEF r
  <2>4. \A x \in Device, u \in Worker : FrameJob(x, u)
    BY <1>0, <2>1, <2>2, <2>3, OneJobFrame
  <2> QED BY <1>s, <1>m, <1>6, <2>4 DEF DeactivateStart, WorkerFrame
<1>7. CASE DeactivateOffline(d)
  <2>1. \A x \in Device, u \in Worker : FrameJob(x, u)
    BY <1>7, <1>r DEF DeactivateOffline, At
  <2> QED BY <1>s, <1>m, <1>7, <2>1 DEF DeactivateOffline, WorkerFrame
<1>8. ASSUME NEW k \in Key, ActivateCheck(d, k)
      PROVE  WorkerFrame
  <2> DEFINE r == [Idle EXCEPT !.pc = "claim", !.key = k, !.ans = "active"]
  <2>1. r \in Job /\ r.pc = "claim" /\ r.snap = NoRow
    BY NewJobType DEF CloudStatus, Idle
  <2>2. Goto(d, "admin", r) /\ d \in up
    BY <1>8 DEF ActivateCheck, MayStart
  <2> HIDE DEF r
  <2>3. \A x \in Device, u \in Worker : FrameJob(x, u)
    BY <1>0, <2>1, <2>2, OneJobFrame
  <2> QED BY <1>s, <1>m, <1>8, <2>3 DEF ActivateCheck, WorkerFrame
<1> QED BY <1>1, <1>2, <1>3, <1>4, <1>5, <1>6, <1>7, <1>8 DEF AdminRequest, AdminStep

\* ... and saves.
LEMMA SavingFrame ==
  ASSUME TypeInv, NEW d \in Device, NEW w \in Worker, SaveStep(d, w) \/ SaveFails(d, w)
  PROVE  WorkerFrame
<1>0. /\ TypeOK /\ job \in Jobs /\ mem[d] \in LicenseState /\ job[d][w] \in Job
  BY DEF TypeInv, TypeOK, Jobs
<1>m. UNCHANGED mem => FrameMem
  BY DEF FrameMem
<1>1. CASE SaveSnapshot(d, w)
  <2> DEFINE r == [job[d][w] EXCEPT !.pc = "write", !.snap = mem[d]]
  <2>1. r \in Job /\ r.pc = "write" /\ r.snap = mem[d]
    BY <1>0 DEF Job
  <2>2. Goto(d, w, r) /\ d \in up
    BY <1>1 DEF SaveSnapshot, At
  <2> HIDE DEF r
  <2>3. /\ job'[d][w] = r
        /\ \A e \in Device, u \in Worker : e # d \/ u # w => job'[e][u] = job[e][u]
    BY <1>0, <2>1, <2>2, JobSet
  <2>4. FrameJob(d, w)
    BY <2>1, <2>2, <2>3 DEF FrameJob
  <2>5. ASSUME NEW x \in Device, NEW u \in Worker, x # d \/ u # w
        PROVE  FrameJob(x, u)
    BY <2>3, <2>5 DEF FrameJob
  <2>6. FrameState
    BY <1>1 DEF SaveSnapshot, FrameState
  <2> QED BY <1>m, <1>1, <2>4, <2>5, <2>6 DEF SaveSnapshot, WorkerFrame
<1>2. ASSUME At(d, w, "write"),
             Goto(d, w, IF job[d][w].then = "idle" THEN Idle
                        ELSE [job[d][w] EXCEPT !.pc = job[d][w].then, !.snap = NoRow])
      PROVE  \A x \in Device, u \in Worker : FrameJob(x, u)
  <2> DEFINE r == [job[d][w] EXCEPT !.pc = job[d][w].then, !.snap = NoRow]
  <2>1. CASE job[d][w].then = "idle"
    BY <1>2, <2>1, IdleFrame
  <2>2. CASE job[d][w].then # "idle"
    <3>1. job[d][w].then = "stamp"
      BY <1>0, <2>2 DEF Job
    <3>2. r \in Job /\ r.pc = "stamp" /\ r.snap = NoRow
      BY <1>0, <3>1, EmptyTypes DEF Job
    <3>3. Goto(d, w, r) /\ d \in up
      BY <1>2, <2>2 DEF At
    <3> HIDE DEF r
    <3> QED BY <1>0, <3>2, <3>3, OneJobFrame
  <2> QED BY <2>1, <2>2
<1>3. CASE SaveWrite(d, w)
  <2>1. card \in [Device -> Card] /\ job[d][w].snap \in LicenseState
    BY <1>0 DEF TypeOK, Job, Card
  <2>2. card' = [card EXCEPT ![d] = [card[d] EXCEPT !.row = job[d][w].snap]]
    BY <1>3, <2>1 DEF SaveWrite
  <2>3. \A x \in Device : /\ card'[x].machine = card[x].machine /\ card'[x].stamp = card[x].stamp
                         /\ x # d => card'[x].row = card[x].row
    BY <2>1, <2>2 DEF Card
  <2>4. card'[d].row = job[d][w].snap /\ job[d][w].pc = "write"
    BY <1>3, <2>1, <2>2 DEF Card, SaveWrite, At
  <2>5. FrameState
    BY <1>3, <2>3, <2>4 DEF SaveWrite, FrameState
  <2> QED BY <1>2, <1>m, <1>3, <2>5 DEF SaveWrite, WorkerFrame
<1>4. CASE SaveFails(d, w)
  <2>1. FrameState
    BY <1>4 DEF SaveFails, FrameState
  <2> QED BY <1>2, <1>m, <1>4, <2>1 DEF SaveFails, WorkerFrame
<1> QED BY <1>1, <1>3, <1>4 DEF SaveStep

\* A start, on a card that was some board's: the card is settled on this board,
\* the loaded state carries its identity, and nothing else changes.
LEMMA Started ==
  ASSUME TypeInv, \A x \in Device : card[x].machine <= minted,
         NEW d \in Device, NEW y \in Device, StartWith(d, card[y])
  PROVE  /\ \A x \in Device \ {d} : card'[x] = card[x] /\ mem'[x] = mem[x]
         /\ card'[d].row \in {mem'[d], card[y].row}
         /\ mem'[d] = LoadedState(d, card[y]) /\ up' = up \cup {d} /\ minted <= minted'
         /\ job' = [job EXCEPT ![d] = [w \in Worker |-> Idle]]
         /\ Settled(d)' /\ OwnId(d)' = HardwareFingerprint(d, card[y])
         /\ \/ card'[d].machine = card[y].machine /\ card'[d].stamp = card[y].stamp
            \/ minted' = minted + 1 /\ card'[d].machine = minted + 1
<1>0. /\ card \in [Device -> Card] /\ mem \in [Device -> LicenseState] /\ minted \in Nat
      /\ card[y] \in Card /\ card[y].machine \in Nat
  BY DEF TypeInv, TypeOK, Card
<1> DEFINE c == card[y]
           st == LoadedState(d, c)
           n == Restamped(d, c)
<1>1. PICK row \in {st, c.row} : card' = [card EXCEPT ![d] = [n EXCEPT !.row = row]]
  BY DEF StartWith
<1>2. n \in Card /\ st \in LicenseState
  BY <1>0, IdentityType, LoadedType
<1>3. mem' = [mem EXCEPT ![d] = st]
  BY DEF StartWith
<1>4. card'[d].row = row /\ card'[d].machine = n.machine /\ card'[d].stamp = n.stamp
  <2> HIDE DEF n
  <2> QED BY <1>0, <1>1, <1>2 DEF Card
<1>5. CASE Mints(d, c)
  <2>1. n.machine = minted + 1 /\ n.stamp = HardwareStamp(d)
    BY <1>0, <1>5 DEF Restamped, Card
  <2>2. minted' = minted + 1
    BY <1>5 DEF StartWith
  <2>3. MachineBoard(d) /\ HardwareFingerprint(d, c) = <<"machine", minted + 1>>
    <3>1. HardwareFingerprint(d, c)[1] = "machine"
      BY <1>5 DEF Mints
    <3> QED BY <1>5, <3>1 DEF Mints, HardwareFingerprint, MachineBoard
  <2>4. Settled(d)' /\ OwnId(d)' = <<"machine", minted + 1>>
    BY <1>0, <1>4, <2>1, <2>3 DEF Settled, OwnId, StampedHere, MachineBoard, HardwareStamp
  <2> QED BY <1>0, <1>1, <1>2, <1>3, <1>4, <2>1, <2>2, <2>3, <2>4 DEF StartWith
<1>6. CASE ~Mints(d, c)
  <2>1. n = c /\ minted' = minted
    BY <1>6 DEF Restamped, StartWith
  <2>2. CASE MachineBoard(d)
    <3>1. StampedHere(d, c) /\ HardwareFingerprint(d, c) = <<"machine", c.machine>>
      BY <1>6, <2>2 DEF Mints, HardwareFingerprint, MachineBoard
    <3>2. Settled(d)' /\ OwnId(d)' = HardwareFingerprint(d, c)
      BY <1>4, <2>1, <2>2, <3>1 DEF Settled, OwnId, StampedHere, MachineBoard, HardwareStamp
    <3> QED BY <1>0, <1>1, <1>2, <1>3, <1>4, <2>1, <3>2 DEF StartWith
  <2>3. CASE ~MachineBoard(d)
    <3>1. HardwareFingerprint(d, c) = FixedId(d)
      BY <2>3, LicenseAssumption DEF HardwareFingerprint, FixedId, MachineBoard
    <3>2. Settled(d)' /\ OwnId(d)' = HardwareFingerprint(d, c)
      BY <2>3, <3>1 DEF Settled, OwnId, MachineBoard, FixedId
    <3> QED BY <1>0, <1>1, <1>2, <1>3, <1>4, <2>1, <3>2 DEF StartWith
  <2> QED BY <2>2, <2>3
<1> QED BY <1>5, <1>6

\* The loaded state carries the identity of the board, and it is active only if the
\* row on the card is, with the key of that row, for this identity or for none.
LEMMA Loaded ==
  ASSUME TypeInv, NEW d \in Device, NEW y \in Device
  PROVE  LET st == LoadedState(d, card[y])
             id == HardwareFingerprint(d, card[y])
             row == card[y].row
         IN /\ st.hw = id
            /\ st.status = "active" =>
                 row.status = "active" /\ st.key = row.key /\ row.hw \in {NoHw, id}
            /\ row # NoRow /\ row.hw \in {NoHw, id} => st.status = row.status /\ st.key = row.key
<1> DEFINE row == card[y].row
           id == HardwareFingerprint(d, card[y])
           st == LoadedState(d, card[y])
<1>0. row \in LicenseState
  BY DEF TypeInv, TypeOK
<1> HIDE DEF id, row
<1>1. /\ st = CASE row = NoRow -> TrialState(id)
                [] row # NoRow /\ row.hw = NoHw -> [row EXCEPT !.hw = id]
                [] row # NoRow /\ row.hw \notin {NoHw, id} -> TrialState(id)
                [] OTHER -> row
  BY DEF LoadedState, id, row
<1> HIDE DEF st
<1>2. CASE row = NoRow \/ row.hw \notin {NoHw, id}
  <2>1. st = TrialState(id)
    BY <1>1, <1>2 DEF NoRow
  <2>2. st.status = "trial" /\ st.hw = id
    BY <2>1 DEF TrialState
  <2> QED BY <1>2, <2>2 DEF st, id, row
<1>3. CASE row # NoRow /\ row.hw = NoHw
  <2>1. st = [row EXCEPT !.hw = id]
    BY <1>1, <1>3
  <2>2. st.status = row.status /\ st.hw = id /\ st.key = row.key
    BY <1>0, <2>1 DEF LicenseState
  <2> QED BY <1>3, <2>2 DEF st, id, row
<1>4. CASE row # NoRow /\ row.hw # NoHw /\ row.hw = id
  <2>1. st = row
    BY <1>1, <1>4
  <2> QED BY <1>4, <2>1 DEF st, id, row
<1> QED BY <1>2, <1>3, <1>4

\* No board takes an identity it could not take before, unless it was just minted.
LEMMA MayBeKept ==
  ASSUME TypeInv, NEW d \in Device, NEW id \in HwId, Known(id, minted), MayBe(d, id, card'),
         \A x \in Device :
             \/ \E y \in Device : card'[x].machine = card[y].machine /\ card'[x].stamp = card[y].stamp
             \/ card'[x].machine = minted + 1
  PROVE  MayBe(d, id, card)
<1>1. CASE ~MachineBoard(d)
  BY <1>1 DEF MayBe, MachineBoard, FixedId
<1>2. CASE MachineBoard(d)
  <2>1. MachineBoard(d)'
    BY <1>2 DEF MachineBoard
  <2>2. PICK x \in Device : StampedHere(d, card'[x]) /\ id = <<"machine", card'[x].machine>>
    BY <2>1 DEF MayBe, StampedHere, HardwareStamp
  <2>3. card'[x].machine # minted + 1
    <3>1. card'[x].machine <= minted
      BY <2>2 DEF Known
    <3> QED BY <3>1 DEF TypeInv, TypeOK
  <2>4. PICK y \in Device : card'[x].machine = card[y].machine /\ card'[x].stamp = card[y].stamp
    BY <2>3
  <2>5. StampedHere(d, card[y]) /\ id = <<"machine", card[y].machine>>
    BY <2>2, <2>4 DEF StampedHere
  <2> QED BY <1>2, <2>5 DEF MayBe
<1> QED BY <1>1, <1>2

\* A state that is bound to a board stays bound.
LEMMA BoundKept ==
  ASSUME TypeInv, NEW r \in LicenseState, Bound(r, card, holders), Known(r.hw, minted),
         \A k \in Key : holders[k] \subseteq holders'[k],
         \A x \in Device :
             \/ \E y \in Device : card'[x].machine = card[y].machine /\ card'[x].stamp = card[y].stamp
             \/ card'[x].machine = minted + 1
  PROVE  Bound(r, card', holders')
<1>1. r.hw \in HwId
  BY DEF LicenseState
<1> QED BY <1>1, MayBeKept DEF Bound

\* Only one board may take the identity of a board that runs.
LEMMA OwnIdUnique ==
  ASSUME DistinctBoards, TypeInv, MintedOnce, NEW d \in Device, Settled(d),
         NEW e \in Device, MayBe(e, OwnId(d), card)
  PROVE  e = d
<1>1. CASE MachineBoard(d) /\ MachineBoard(e)
  <2>1. PICK x \in Device : StampedHere(e, card[x]) /\ OwnId(d) = <<"machine", card[x].machine>>
    BY <1>1 DEF MayBe
  <2>2. card[x].machine = card[d].machine /\ card[x].machine # 0
    BY <1>1, <2>1 DEF OwnId, StampedHere
  <2>3. card[x].stamp = card[d].stamp
    BY <2>2 DEF MintedOnce
  <2>4. HardwareStamp(e) = HardwareStamp(d)
    BY <1>1, <2>1, <2>3 DEF Settled, StampedHere
  <2> QED BY <2>4 DEF DistinctBoards
<1>2. CASE MachineBoard(d) /\ ~MachineBoard(e)
  BY <1>2 DEF MayBe, OwnId, FixedId
<1>3. CASE ~MachineBoard(d) /\ MachineBoard(e)
  BY <1>3 DEF MayBe, OwnId, FixedId
<1>4. CASE ~MachineBoard(d) /\ ~MachineBoard(e)
  BY <1>4 DEF MayBe, OwnId, DistinctBoards
<1> QED BY <1>1, <1>2, <1>3, <1>4

\* A board that runs may be itself, and its identity is not the empty one.
LEMMA OwnIdOwn ==
  ASSUME NEW d \in Device, Settled(d)
  PROVE  MayBe(d, OwnId(d), card) /\ OwnId(d) # NoHw
<1>1. CASE MachineBoard(d)
  BY <1>1 DEF MayBe, OwnId, Settled, NoHw
<1>2. CASE ~MachineBoard(d)
  BY <1>2 DEF MayBe, OwnId, FixedId, NoHw
<1> QED BY <1>1, <1>2

\* Steps of the workers keep licenses where they are.
LEMMA BoardWorker ==
  ASSUME DistinctBoards, TypeInv, TypeInv', BoardInv, WorkerFrame
  PROVE  BoardInv'
<1>0. /\ card \in [Device -> Card] /\ mem \in [Device -> LicenseState] /\ job \in Jobs
      /\ up \subseteq Device /\ minted \in Nat
  BY DEF TypeInv, TypeOK, Card, Jobs
<1>1. MintedOnce'
  <2>1. Known(NoHw, minted)
    BY DEF Known, NoHw
  <2>2. \A x \in Device : Known(card'[x].row.hw, minted') /\ Known(mem'[x].hw, minted')
    BY <1>0 DEF WorkerFrame, FrameState, FrameMem, BoardInv, MintedOnce, Known
  <2>3. \A x \in Device, w \in Worker : Known(job'[x][w].snap.hw, minted')
    <3>1. NoRow.hw = NoHw
      BY DEF NoRow
    <3>2. ASSUME NEW x \in Device, NEW w \in Worker
          PROVE  Known(job'[x][w].snap.hw, minted')
      <4>1. job'[x][w].snap \in {job[x][w].snap, NoRow, mem[x]} /\ minted' = minted
        BY DEF WorkerFrame, FrameState, FrameJob
      <4>2. Known(job[x][w].snap.hw, minted) /\ Known(mem[x].hw, minted)
        BY DEF BoardInv, MintedOnce
      <4> QED BY <2>1, <3>1, <4>1, <4>2
    <3> QED BY <3>2
  <2>4. /\ \A x \in Device : card'[x].machine <= minted'
        /\ \A x, y \in Device : card'[x].machine = card'[y].machine /\ card'[x].machine # 0
                                => card'[x].stamp = card'[y].stamp
    BY DEF WorkerFrame, FrameState, BoardInv, MintedOnce
  <2> QED BY <2>2, <2>3, <2>4 DEF MintedOnce
<1>2. ASSUME unread' = {}
      PROVE  BoundInv'
  <2>0. BoundInv /\ MintedOnce
    BY <1>2 DEF BoardInv, WorkerFrame, FrameState
  <2>1. ASSUME NEW r \in LicenseState, Bound(r, card, holders), Known(r.hw, minted)
        PROVE  Bound(r, card', holders')
    BY <2>1, BoundKept DEF WorkerFrame, FrameState
  <2>2. \A x \in Device, w \in Worker : job[x][w].pc = "write" =>
            Bound(job[x][w].snap, card, holders) /\ Known(job[x][w].snap.hw, minted) /\ job[x][w].snap \in LicenseState
    BY <1>0, <2>0 DEF BoundInv, MintedOnce, Job, Jobs
  <2>3. \A x \in up : Bound(mem[x], card, holders) /\ Known(mem[x].hw, minted) /\ mem[x] \in LicenseState
    BY <1>0, <2>0 DEF BoundInv, MintedOnce
  <2>4. ASSUME NEW x \in Device
        PROVE  Bound(card'[x].row, card', holders')
    <3>1. CASE card'[x].row = card[x].row
      <4>1. Bound(card[x].row, card, holders) /\ Known(card[x].row.hw, minted) /\ card[x].row \in LicenseState
        BY <1>0, <2>0 DEF BoundInv, MintedOnce, Card
      <4> QED BY <2>1, <3>1, <4>1 DEF Bound, MayBe
    <3>2. ASSUME NEW w \in Worker, job[x][w].pc = "write", card'[x].row = job[x][w].snap
          PROVE  Bound(card'[x].row, card', holders')
      BY <2>1, <2>2, <3>2 DEF Bound, MayBe
    <3> QED BY <3>1, <3>2 DEF WorkerFrame, FrameState
  <2>5. ASSUME NEW d \in up'
        PROVE  Settled(d)' /\ mem'[d].hw = OwnId(d)' /\ Bound(mem'[d], card', holders')
    <3>0. d \in up /\ d \in Device /\ Settled(d) /\ mem[d].hw = OwnId(d) /\ mem[d] \in LicenseState
      BY <1>0, <2>0 DEF WorkerFrame, FrameState, BoundInv
    <3>1. Settled(d)' /\ OwnId(d)' = OwnId(d) /\ mem'[d].hw = OwnId(d)
      BY <3>0 DEF WorkerFrame, FrameState, FrameMem, Settled, OwnId, StampedHere, MachineBoard,
            HardwareStamp, FixedId
    <3>2. ASSUME mem[d].status = "active", mem'[d].key = mem[d].key
          PROVE  Bound(mem'[d], card', holders')
      <4>1. Bound(mem[d], card', holders')
        BY <2>1, <2>3, <3>0
      <4> QED BY <3>0, <3>1, <3>2, <4>1 DEF Bound, MayBe
    <3>3. ASSUME job[d]["admin"].pc = "claimed", mem'[d].key = job[d]["admin"].key
          PROVE  Bound(mem'[d], card', holders')
      <4>1. "admin" \in Worker /\ job[d]["admin"].key \in Key
        BY <1>0, <3>0, <3>3 DEF TypeInv, Proper, Worker
      <4>2. d \in holders'[mem'[d].key] /\ mem'[d].key \in Key
        BY <2>0, <3>0, <3>3, <4>1 DEF BoundInv, WorkerFrame, FrameState
      <4>3. mem'[d].hw # NoHw
        BY <3>0, <3>1, OwnIdOwn
      <4>4. ASSUME NEW e \in Device, MayBe(e, mem'[d].hw, card')
            PROVE  e = d
        <5>1. OwnId(d) \in HwId /\ Known(OwnId(d), minted)
          BY <1>0, <2>3, <3>0 DEF LicenseState
        <5>2. MayBe(e, OwnId(d), card')
          BY <3>1, <4>4 DEF MayBe
        <5>3. MayBe(e, OwnId(d), card)
          <6> DEFINE id == OwnId(d)
          <6>1. id \in HwId /\ Known(id, minted) /\ MayBe(e, id, card')
            BY <3>1, <5>1, <5>2, <4>4 DEF MayBe
          <6> HIDE DEF id
          <6>2. MayBe(e, id, card)
            BY <6>1, MayBeKept DEF WorkerFrame, FrameState
          <6> QED BY <6>2 DEF id
        <5> QED BY <2>0, <3>0, <5>3, OwnIdUnique
      <4> QED BY <4>2, <4>3, <4>4 DEF Bound
    <3>4. mem'[d].status = "active" => Bound(mem'[d], card', holders')
      BY <3>0, <3>2, <3>3 DEF WorkerFrame, FrameMem
    <3> QED BY <3>1, <3>4 DEF Bound
  <2>6. ASSUME NEW d \in Device, NEW w \in Worker
        PROVE  /\ job'[d][w].pc # "idle" => d \in up'
               /\ job'[d][w].pc = "write" => Bound(job'[d][w].snap, card', holders')
    <3>1. FrameJob(d, w) /\ up' = up
      BY DEF WorkerFrame, FrameState
    <3>2. job'[d][w].pc # "idle" => d \in up'
      BY <2>0, <3>1 DEF FrameJob, BoundInv
    <3>3. ASSUME job'[d][w].pc = "write"
          PROVE  Bound(job'[d][w].snap, card', holders')
      <4>1. CASE job[d][w].pc = "write" /\ job'[d][w].snap = job[d][w].snap
        BY <2>1, <2>2, <4>1 DEF Bound, MayBe
      <4>2. CASE d \in up /\ job'[d][w].snap = mem[d]
        BY <2>1, <2>3, <4>2 DEF Bound, MayBe
      <4> QED BY <3>1, <3>3, <4>1, <4>2 DEF FrameJob
    <3> QED BY <3>2, <3>3
  <2>7. ASSUME NEW d \in Device, job'[d]["admin"].pc = "claimed"
        PROVE  d \in holders'[job'[d]["admin"].key]
    <3>0. "admin" \in Worker
      BY DEF Worker
    <3>1. FrameJob(d, "admin")
      BY <3>0 DEF WorkerFrame
    <3>2. CASE job[d]["admin"].pc = "claimed" /\ job'[d]["admin"].key = job[d]["admin"].key
      <4>1. job[d]["admin"].key \in Key
        BY <3>0, <3>2 DEF TypeInv, Proper
      <4> QED BY <2>0, <3>2, <4>1 DEF BoundInv, WorkerFrame, FrameState
    <3> QED BY <2>7, <3>1, <3>2 DEF FrameJob
  <2> QED BY <2>4, <2>5, <2>6, <2>7 DEF BoundInv
<1> QED BY <1>1, <1>2 DEF BoardInv

\* A start keeps licenses where they are: a card from elsewhere is on trial.
LEMMA BoardStart ==
  ASSUME TypeInv, TypeInv', BoardInv, NEW d \in Device, NEW y \in Device,
         StartWith(d, card[y]), UNCHANGED <<holders, unread>>
  PROVE  BoardInv'
<1>0. /\ card \in [Device -> Card] /\ mem \in [Device -> LicenseState] /\ job \in Jobs
      /\ up \subseteq Device /\ minted \in Nat /\ minted' \in Nat
  BY DEF TypeInv, TypeOK, Card, Jobs
<1> DEFINE id == HardwareFingerprint(d, card[y])
           st == LoadedState(d, card[y])
<1>1. /\ \A x \in Device \ {d} : card'[x] = card[x] /\ mem'[x] = mem[x]
      /\ card'[d].row \in {mem'[d], card[y].row}
      /\ mem'[d] = st /\ up' = up \cup {d} /\ minted <= minted'
      /\ job' = [job EXCEPT ![d] = [w \in Worker |-> Idle]]
      /\ Settled(d)' /\ OwnId(d)' = id
      /\ \/ card'[d].machine = card[y].machine /\ card'[d].stamp = card[y].stamp
         \/ minted' = minted + 1 /\ card'[d].machine = minted + 1
  BY Started DEF BoardInv, MintedOnce
<1>2. /\ st.hw = id
      /\ st.status = "active" =>
           card[y].row.status = "active" /\ st.key = card[y].row.key /\ card[y].row.hw \in {NoHw, id}
  BY Loaded
<1> HIDE DEF id, st
<1>3. card'[d].machine <= minted'
  <2>1. card[y].machine <= minted /\ card[y].machine \in Nat
    BY <1>0 DEF BoardInv, MintedOnce, Card
  <2>2. card'[d].machine \in {card[y].machine, minted + 1} /\ minted <= minted'
        /\ (card'[d].machine = card[y].machine \/ minted' = minted + 1)
    BY <1>1
  <2> QED BY <1>0, <2>1, <2>2
<1>4. Known(id, minted')
  BY <1>1, <1>3 DEF OwnId, Known, FixedId, MachineBoard
<1>5. \A i \in HwId : Known(i, minted) => Known(i, minted')
  BY <1>0, <1>1 DEF Known, HwId
<1>6. MintedOnce'
  <2>1. \A x, z \in Device : card'[x].machine = card'[z].machine /\ card'[x].machine # 0
                            => card'[x].stamp = card'[z].stamp
    <3>1. CASE card'[d].machine = card[y].machine /\ card'[d].stamp = card[y].stamp
      BY <1>1, <3>1 DEF BoardInv, MintedOnce
    <3>2. CASE card'[d].machine = minted + 1
      <4>1. \A x \in Device \ {d} : card'[x].machine # minted + 1
        <5>1. ASSUME NEW x \in Device \ {d} PROVE card'[x].machine # minted + 1
          <6>1. card'[x].machine <= minted /\ card'[x].machine \in Nat
            BY <1>0, <1>1 DEF BoardInv, MintedOnce, Card
          <6> QED BY <1>0, <6>1
        <5> QED BY <5>1
      <4> QED BY <1>1, <3>2, <4>1 DEF BoardInv, MintedOnce
    <3> QED BY <1>1, <3>1, <3>2
  <2>2. \A x \in Device : card'[x].machine <= minted'
    <3>1. ASSUME NEW x \in Device \ {d} PROVE card'[x].machine <= minted'
      <4>1. card'[x].machine <= minted /\ card'[x].machine \in Nat
        BY <1>0, <1>1 DEF BoardInv, MintedOnce, Card
      <4> QED BY <1>0, <1>1, <4>1
    <3> QED BY <1>3, <3>1
  <2>3. \A x \in Device : card[x].row.hw \in HwId /\ mem[x].hw \in HwId
    BY <1>0 DEF Card, LicenseState
  <2>4. \A x \in Device : Known(card'[x].row.hw, minted') /\ Known(mem'[x].hw, minted')
    <3>1. \A x \in Device : Known(card[x].row.hw, minted') /\ Known(mem[x].hw, minted')
      BY <1>5, <2>3 DEF BoardInv, MintedOnce, Known
    <3>2. Known(mem'[d].hw, minted') /\ Known(card'[d].row.hw, minted')
      BY <1>1, <1>2, <1>4, <3>1 DEF Known
    <3> QED BY <1>1, <3>1, <3>2 DEF Known
  <2>5. \A x \in Device, w \in Worker : Known(job'[x][w].snap.hw, minted')
    <3>1. Idle.snap.hw = NoHw /\ Known(NoHw, minted')
      BY DEF Idle, NoRow, NoHw, Known
    <3>2. ASSUME NEW x \in Device, NEW w \in Worker PROVE job[x][w].snap.hw \in HwId
      <4>1. job[x][w].snap \in LicenseState
        BY <1>0 DEF Jobs, Job
      <4> QED BY <4>1 DEF LicenseState
    <3>3. \A x \in Device, w \in Worker : job'[x][w] \in {Idle, job[x][w]}
      BY <1>0, <1>1 DEF Jobs
    <3> QED BY <1>5, <3>1, <3>2, <3>3 DEF BoardInv, MintedOnce, Known
  <2> QED BY <2>1, <2>2, <2>4, <2>5 DEF MintedOnce
<1>7. ASSUME unread' = {}
      PROVE  BoundInv'
  <2>0. BoundInv /\ MintedOnce
    BY <1>7 DEF BoardInv
  <2>1. ASSUME NEW r \in LicenseState, Bound(r, card, holders), Known(r.hw, minted)
        PROVE  Bound(r, card', holders')
    <3>1. \A x \in Device :
            \/ \E z \in Device : card'[x].machine = card[z].machine /\ card'[x].stamp = card[z].stamp
            \/ card'[x].machine = minted + 1
      BY <1>1
    <3> QED BY <2>1, <3>1, BoundKept
  <2>2. \A x \in Device : Bound(card[x].row, card', holders')
    <3>1. \A x \in Device : card[x].row \in LicenseState /\ Bound(card[x].row, card, holders) /\ Known(card[x].row.hw, minted)
      BY <1>0, <2>0 DEF BoundInv, MintedOnce, Card
    <3> QED BY <2>1, <3>1 DEF Bound, MayBe
  <2>3. Bound(st, card', holders')
    <3>1. ASSUME st.status = "active"
          PROVE  card[y].row.hw = id /\ card[y].row.key = st.key /\ card[y].row.status = "active"
      <4>1. card[y].row.hw # NoHw
        BY <1>2, <2>0, <3>1 DEF BoundInv, Bound
      <4> QED BY <1>2, <3>1, <4>1
    <3> QED BY <1>2, <2>2, <3>1 DEF Bound, MayBe
  <2>4. \A x \in Device : Bound(card'[x].row, card', holders')
    BY <1>1, <2>2, <2>3 DEF Bound, MayBe
  <2>5. ASSUME NEW x \in up'
        PROVE  Settled(x)' /\ mem'[x].hw = OwnId(x)' /\ Bound(mem'[x], card', holders')
    <3>1. CASE x = d
      BY <1>1, <1>2, <2>3, <3>1 DEF Bound, MayBe
    <3>2. CASE x # d
      <4>1. x \in up /\ x \in Device
        BY <1>0, <1>1, <3>2
      <4>2. Settled(x)' /\ OwnId(x)' = OwnId(x) /\ mem'[x] = mem[x]
        BY <1>1, <2>0, <3>2, <4>1 DEF BoundInv, Settled, OwnId, MachineBoard, FixedId, StampedHere,
              HardwareStamp
      <4>3. Bound(mem[x], card', holders')
        BY <1>0, <2>0, <2>1, <4>1 DEF BoundInv, MintedOnce
      <4> QED BY <2>0, <4>1, <4>2, <4>3 DEF BoundInv, Bound, MayBe
    <3> QED BY <3>1, <3>2
  <2>6. \A x \in Device, w \in Worker : job'[x][w] = Idle \/ (x # d /\ job'[x][w] = job[x][w])
    BY <1>0, <1>1 DEF Jobs
  <2>7. Idle.pc = "idle"
    BY DEF Idle
  <2>8. \A x \in Device, w \in Worker :
          /\ job'[x][w].pc # "idle" => x \in up'
          /\ job'[x][w].pc = "write" => Bound(job'[x][w].snap, card', holders')
    <3>1. \A x \in Device, w \in Worker : job[x][w].pc = "write" => Bound(job[x][w].snap, card', holders')
      <4>1. \A x \in Device, w \in Worker : job[x][w].snap \in LicenseState
        BY <1>0 DEF Jobs, Job
      <4> QED BY <2>0, <2>1, <4>1 DEF BoundInv, MintedOnce, Bound, MayBe
    <3> QED BY <1>1, <2>0, <2>6, <2>7, <3>1 DEF BoundInv, Bound, MayBe
  <2>9. \A x \in Device : job'[x]["admin"].pc = "claimed" => x \in holders'[job'[x]["admin"].key]
    BY <2>0, <2>6, <2>7 DEF BoundInv, Worker
  <2> QED BY <2>4, <2>5, <2>8, <2>9 DEF BoundInv
<1> QED BY <1>6, <1>7 DEF BoardInv

\* An API that could not read its row leaves the identities of the boards alone.
LEMMA BoardUnread ==
  ASSUME TypeInv, BoardInv, NEW d \in Device, BootUnread(d)
  PROVE  BoardInv'
<1>0. mem \in [Device -> LicenseState] /\ job \in Jobs
  BY DEF TypeInv, TypeOK, Jobs
<1>1. /\ \A x \in Device : mem'[x] \in {mem[x], ZeroState}
      /\ \A x \in Device, w \in Worker : job'[x][w] \in {job[x][w], Idle}
      /\ UNCHANGED <<card, minted>> /\ unread' # {}
  BY <1>0 DEF BootUnread, Jobs
<1>2. Known(NoHw, minted) /\ ZeroState.hw = NoHw /\ Idle.snap.hw = NoHw
  BY DEF Known, NoHw, ZeroState, Idle, NoRow
<1>3. \A x \in Device : Known(card'[x].row.hw, minted') /\ Known(mem'[x].hw, minted')
  BY <1>1, <1>2 DEF BoardInv, MintedOnce
<1>4. \A x \in Device, w \in Worker : Known(job'[x][w].snap.hw, minted')
  BY <1>1, <1>2 DEF BoardInv, MintedOnce
<1>5. MintedOnce'
  BY <1>1, <1>3, <1>4 DEF BoardInv, MintedOnce
<1> QED BY <1>1, <1>5 DEF BoardInv

\* The calendar changes no identity, no key and no status.
LEMMA OlderFields ==
  ASSUME NEW st \in LicenseState
  PROVE  Older(st).status = st.status /\ Older(st).key = st.key /\ Older(st).hw = st.hw
BY DEF Older, LicenseState

\* A state that is a day older is bound as it was.
LEMMA OlderBound ==
  ASSUME NEW st \in LicenseState, NEW cards, NEW h, Bound(st, cards, h)
  PROVE  Bound(Older(st), cards, h)
BY OlderFields DEF Bound

\* Whoever may take an identity depends on the machine-ids and stamps alone.
LEMMA BoundElsewhere ==
  ASSUME NEW r, NEW h, Bound(r, card, h),
         \A x \in Device : card'[x].machine = card[x].machine /\ card'[x].stamp = card[x].stamp
  PROVE  Bound(r, card', h)
<1>1. \A d \in Device : MayBe(d, r.hw, card') => MayBe(d, r.hw, card)
  BY DEF MayBe, StampedHere
<1> QED BY <1>1 DEF Bound

\* What a Day does to the rows and the states.
LEMMA DayFields ==
  ASSUME TypeInv, Day
  PROVE  /\ \A x \in Device : mem'[x] \in {mem[x], Older(mem[x])}
         /\ \A x \in Device : card'[x].row \in {card[x].row, Older(card[x].row)}
         /\ \A x \in Device : card'[x].machine = card[x].machine /\ card'[x].stamp = card[x].stamp
         /\ \A x \in Device : mem[x] \in LicenseState /\ card[x].row \in LicenseState
<1>1. card \in [Device -> Card] /\ mem \in [Device -> LicenseState]
  BY DEF TypeInv, TypeOK, Card
<1>2. \A x \in Device : mem'[x] \in {mem[x], Older(mem[x])}
  BY DEF Day
<1>3. ASSUME NEW x \in Device
      PROVE  /\ card'[x].row \in {card[x].row, Older(card[x].row)}
             /\ card'[x].machine = card[x].machine /\ card'[x].stamp = card[x].stamp
  <2> DEFINE r == Older(card[x].row)
  <2>1. card'[x] \in {card[x], [card[x] EXCEPT !.row = r]}
    BY DEF Day
  <2>2. card[x] \in Card
    BY <1>1
  <2> HIDE DEF r
  <2>3. /\ [card[x] EXCEPT !.row = r].row = r /\ [card[x] EXCEPT !.row = r].machine = card[x].machine
        /\ [card[x] EXCEPT !.row = r].stamp = card[x].stamp
    BY <2>2 DEF Card
  <2> QED BY <2>1, <2>3 DEF r
<1> QED BY <1>1, <1>2, <1>3 DEF Card

\* A day that passes leaves the boards of licences alone.
LEMMA BoardDay ==
  ASSUME TypeInv, BoardInv, Day
  PROVE  BoardInv'
<1>1. UNCHANGED <<up, job, minted, holders, unread>>
  BY DEF Day
<1>2. /\ \A x \in Device : mem'[x].hw = mem[x].hw
      /\ \A x \in Device : card'[x].row.hw = card[x].row.hw
  BY DayFields, OlderFields
<1>3. MintedOnce'
  BY <1>1, <1>2, DayFields DEF BoardInv, MintedOnce
<1>4. ASSUME BoundInv
      PROVE  BoundInv'
  <2>1. \A x \in Device : Bound(card'[x].row, card', holders')
    <3>1. ASSUME NEW x \in Device PROVE Bound(card'[x].row, card, holders)
      BY <1>4, DayFields, OlderBound DEF BoundInv
    <3> QED BY <1>1, <3>1, DayFields, BoundElsewhere
  <2>2. ASSUME NEW x \in up' PROVE Settled(x)' /\ mem'[x].hw = OwnId(x)' /\ Bound(mem'[x], card', holders')
    <3>1. x \in up /\ x \in Device
      BY <1>1 DEF TypeInv, TypeOK
    <3>2. Settled(x)' /\ OwnId(x)' = OwnId(x)
      BY <1>4, <3>1, DayFields DEF BoundInv, Settled, OwnId, MachineBoard, FixedId, StampedHere,
            HardwareStamp
    <3>3. Bound(mem'[x], card, holders)
      BY <1>4, <3>1, DayFields, OlderBound DEF BoundInv
    <3>4. Bound(mem'[x], card', holders)
      BY <3>3, DayFields, BoundElsewhere
    <3> QED BY <1>1, <1>2, <1>4, <3>1, <3>2, <3>4 DEF BoundInv
  <2>3. \A x \in Device, w \in Worker : job'[x][w].pc = "write" => Bound(job'[x][w].snap, card', holders')
    BY <1>1, <1>4, DayFields, BoundElsewhere DEF BoundInv
  <2> QED BY <1>1, <1>4, <2>1, <2>2, <2>3 DEF BoundInv
<1> QED BY <1>1, <1>3, <1>4 DEF BoardInv

\* Every step keeps licenses where they are.
LEMMA BoardStep ==
  ASSUME DistinctBoards, TypeInv, BoardInv, [Next]_vars
  PROVE  BoardInv'
<1>0. TypeInv'
  BY StepType
<1>1. ASSUME WorkerFrame PROVE BoardInv'
  BY <1>0, <1>1, BoardWorker
<1>2. ASSUME NEW d \in Device, HeartbeatStep(d) \/ AdminRequest(d) PROVE BoardInv'
  BY <1>1, <1>2, HeartbeatFrame, AdminFrame
<1>3. ASSUME NEW d \in Device, NEW w \in Worker, SaveStep(d, w) \/ SaveFails(d, w) PROVE BoardInv'
  BY <1>1, <1>3, SavingFrame
<1>4. CASE Outside
  <2>1. ASSUME NEW d \in Device, Boot(d) PROVE BoardInv'
    BY <1>0, <2>1, BoardStart DEF Boot
  <2>2. ASSUME NEW d \in Device, NEW e \in Device, CloneCard(d, e) PROVE BoardInv'
    BY <1>0, <2>2, BoardStart DEF CloneCard
  <2>3. ASSUME NEW d \in Device, BootUnread(d) PROVE BoardInv'
    BY <2>3, BoardUnread
  <2>4. ASSUME NEW k \in Key, NEW s \in {"revoked", "available"}, Vendor(k, s) PROVE BoardInv'
    <3>1. UNCHANGED <<card, mem, up, job, minted, holders, unread>>
      BY <2>4 DEF Vendor
    <3> QED BY <3>1 DEF BoardInv, MintedOnce, BoundInv, Settled, OwnId, MachineBoard, FixedId, StampedHere,
              HardwareStamp
  <2>5. CASE Day
    BY <2>5, BoardDay
  <2> QED BY <1>4, <2>1, <2>2, <2>3, <2>4, <2>5 DEF Outside
<1>5. CASE UNCHANGED vars
  BY <1>5 DEF vars, BoardInv, MintedOnce, BoundInv, Settled, OwnId, MachineBoard, FixedId, StampedHere,
        HardwareStamp
<1> QED BY <1>2, <1>3, <1>4, <1>5, Steps

\* No licence is on any board at first.
LEMMA BoardInit ==
  ASSUME Init
  PROVE  BoardInv
<1>1. NoRow.hw = NoHw /\ ZeroState.hw = NoHw /\ Idle.snap.hw = NoHw /\ Known(NoHw, minted)
  BY DEF NoRow, ZeroState, Idle, Known, NoHw
<1>2. Idle.pc = "idle" /\ NoRow.status = "no row"
  BY DEF Idle, NoRow
<1>3. MintedOnce
  BY <1>1 DEF Init, MintedOnce
<1>4. BoundInv
  BY <1>2 DEF Init, BoundInv, Bound, Worker
<1> QED BY <1>3, <1>4 DEF BoardInv

\* Cloning never licenses: while every start could read its row, a board whose
\* license is active activated that very key itself, however cards were copied,
\* starts repeated, and the saves of heartbeats and requests interleaved.  Boards
\* differ in the serial number, the device tree or the MAC the code reads.
THEOREM StaysOnItsBoard ==
  ASSUME DistinctBoards
  PROVE  Spec => []LicenseStaysOnItsBoard
<1>1. Init => TypeInv /\ BoardInv
  BY InitType, BoardInit
<1>2. TypeInv /\ BoardInv /\ [Next]_vars => TypeInv' /\ BoardInv'
  BY StepType, BoardStep
<1>3. TypeInv /\ BoardInv => LicenseStaysOnItsBoard
  <2> SUFFICES ASSUME TypeInv, BoardInv, unread = {}, NEW d \in up, mem[d].status = "active"
               PROVE  d \in holders[mem[d].key]
    BY DEF LicenseStaysOnItsBoard
  <2>1. d \in Device /\ Settled(d) /\ mem[d].hw = OwnId(d) /\ Bound(mem[d], card, holders)
    BY DEF BoardInv, BoundInv, TypeInv, TypeOK
  <2> QED BY <2>1, OwnIdOwn DEF Bound
<1> QED BY <1>1, <1>2, <1>3, PTL DEF Spec

-----------------------------------------------------------------------------
\* What the admin was told

\* The state r is what the admin was told, p, but for the keys revoked since.
Told(p, r, gone) ==
    /\ p = "active" => r.status = "active" \/ r.key \in gone
    /\ p = "revoked" => r.status \in {"locked", "revoked"}

\* The board with identity id keeps a row with hardware id h at its next start.
Kept(id, h) == h \in {NoHw, id}

Saving(d, w) == job[d][w].pc \in {"save", "write"}

\* A board that runs, or whose card has a row, is known to its card; a board that
\* does not run has promised nothing and does nothing.
PlacedInv(d) ==
    /\ d \in up \/ card[d].row # NoRow => Settled(d)
    /\ d \notin up => promise[d] = "none" /\ \A w \in Worker : job[d][w].pc = "idle"

\* The heartbeat and a request of a device never overlap.
AloneInv(d) == job[d]["heartbeat"].pc = "idle" \/ job[d]["admin"].pc = "idle"

\* The heartbeat brings news of the key it asked for, which is still the key.
NewsInv(d) ==
    LET j == job[d]["heartbeat"]
    IN /\ j.pc \in {"ask", "apply"} => j.key = mem[d].key
       /\ j.pc = "apply" /\ j.ans = "revoked" => j.key \in revoked

\* What the pending answer will say is true of the state already, and of the row
\* about to be written.
AdminInv(d) ==
    LET j == job[d]["admin"]
    IN /\ j.pc \in {"claim", "claimed"} => j.ans = "active"
       /\ j.pc \in {"release", "released"} => j.ans = "revoked" /\ promise[d] = "none"
       /\ Saving(d, "admin") =>
            /\ j.ans \in {"active", "revoked"} /\ j.then = "idle"
            /\ Told(j.ans, mem[d], revoked)
            /\ j.ans = "revoked" => promise[d] = "none"
       /\ j.pc = "write" => Told(j.ans, j.snap, revoked) /\ Kept(OwnId(d), j.snap.hw)

\* What was told is true of the row on the card, which the board keeps, of the row
\* the heartbeat is about to write, and of the state.
ToldInv(d) ==
    /\ promise[d] \in {"none", "active", "revoked"}
    /\ promise[d] # "none" =>
         Told(promise[d], card[d].row, revoked) /\ Kept(OwnId(d), card[d].row.hw)
    /\ ~Saving(d, "admin") => Told(promise[d], mem[d], revoked)
    /\ LET j == job[d]["heartbeat"]
       IN j.pc = "write" => Told(promise[d], j.snap, revoked) /\ Kept(OwnId(d), j.snap.hw)
    /\ d \in up => Kept(OwnId(d), mem[d].hw)

DeviceInv(d) == PlacedInv(d) /\ AloneInv(d) /\ NewsInv(d) /\ AdminInv(d) /\ ToldInv(d)
Numbered == \A d \in Device : card[d].machine <= minted
RevokedInv == \A k \in Key : cloud[k].status = "revoked" => k \in revoked
PromiseInv == Numbered /\ RevokedInv /\ \A d \in Device : DeviceInv(d)

\* What was told stays true when more keys are revoked.
LEMMA StillTold ==
  ASSUME NEW p, NEW r, NEW g, NEW h, g \subseteq h, Told(p, r, g)
  PROVE  Told(p, r, h)
BY DEF Told

\* Nothing happens to device e, but keys may be revoked.
Untouched(e) ==
    /\ card'[e] = card[e] /\ mem'[e] = mem[e] /\ job'[e] = job[e] /\ promise'[e] = promise[e]
    /\ e \in up' <=> e \in up
    /\ revoked \subseteq revoked'

\* A step beside a device keeps what holds of it.
LEMMA UntouchedInv ==
  ASSUME NEW e \in Device, DeviceInv(e), Untouched(e)
  PROVE  DeviceInv(e)'
<1>1. OwnId(e)' = OwnId(e) /\ (Settled(e)' <=> Settled(e)) /\ (Saving(e, "admin")' <=> Saving(e, "admin"))
  BY DEF Untouched, OwnId, Settled, MachineBoard, FixedId, StampedHere, HardwareStamp, Saving
<1>2. PlacedInv(e)' /\ AloneInv(e)' /\ NewsInv(e)'
  BY <1>1 DEF DeviceInv, Untouched, PlacedInv, AloneInv, NewsInv
<1>3. AdminInv(e)'
  BY <1>1, StillTold DEF DeviceInv, Untouched, AdminInv
<1>4. ToldInv(e)'
  BY <1>1, StillTold DEF DeviceInv, Untouched, ToldInv
<1> QED BY <1>2, <1>3, <1>4 DEF DeviceInv

\* What the heartbeat of d does short of writing keeps the promises, if it leaves
\* the state as told.
LEMMA HeartbeatKeeps ==
  ASSUME TypeInv, NEW d \in Device, DeviceInv(d), d \in up,
         UNCHANGED <<card, up, promise, revoked>>,
         job[d]["admin"].pc = "idle", job'[d]["admin"] = job[d]["admin"],
         NEW r \in Job, job'[d]["heartbeat"] = r, r.pc # "write",
         r.pc \in {"ask", "apply"} => r.key = mem'[d].key,
         r.pc = "apply" /\ r.ans = "revoked" => r.key \in revoked,
         mem'[d].hw = mem[d].hw, Told(promise[d], mem[d], revoked) => Told(promise[d], mem'[d], revoked)
  PROVE  DeviceInv(d)'
<1>1. OwnId(d)' = OwnId(d) /\ (Settled(d)' <=> Settled(d)) /\ ~Saving(d, "admin")' /\ ~Saving(d, "admin")
  BY DEF OwnId, Settled, MachineBoard, FixedId, StampedHere, HardwareStamp, Saving
<1>2. PlacedInv(d)' /\ AloneInv(d)' /\ NewsInv(d)'
  BY <1>1 DEF DeviceInv, PlacedInv, AloneInv, NewsInv
<1>3. AdminInv(d)'
  BY <1>1 DEF DeviceInv, AdminInv
<1>4. ToldInv(d)'
  BY <1>1 DEF DeviceInv, ToldInv
<1> QED BY <1>2, <1>3, <1>4 DEF DeviceInv

\* So does a request of the admin short of saving and answering, if what it is
\* about to save is what it will answer.
LEMMA RequestKeeps ==
  ASSUME TypeInv, NEW d \in Device, DeviceInv(d), d \in up,
         UNCHANGED <<card, up>>, revoked \subseteq revoked', promise'[d] \in {promise[d], "none"},
         job[d]["heartbeat"].pc = "idle", job'[d]["heartbeat"] = job[d]["heartbeat"],
         NEW r \in Job, job'[d]["admin"] = r, r.pc # "write", mem'[d].hw = mem[d].hw,
         r.pc \in {"claim", "claimed"} => r.ans = "active",
         r.pc \in {"release", "released"} => r.ans = "revoked" /\ promise'[d] = "none",
         r.pc = "save" => /\ r.ans \in {"active", "revoked"} /\ r.then = "idle"
                          /\ Told(r.ans, mem'[d], revoked')
                          /\ r.ans = "revoked" => promise'[d] = "none",
         r.pc # "save" => mem'[d] = mem[d] /\ ~Saving(d, "admin")
  PROVE  DeviceInv(d)'
<1>1. OwnId(d)' = OwnId(d) /\ (Settled(d)' <=> Settled(d)) /\ (Saving(d, "admin")' <=> r.pc = "save")
  BY DEF OwnId, Settled, MachineBoard, FixedId, StampedHere, HardwareStamp, Saving
<1>2. PlacedInv(d)' /\ AloneInv(d)' /\ NewsInv(d)'
  BY <1>1 DEF DeviceInv, PlacedInv, AloneInv, NewsInv
<1>3. AdminInv(d)'
  BY <1>1 DEF DeviceInv, AdminInv
<1>4. \A s : Told("none", s, revoked')
  BY DEF Told
<1>5. ToldInv(d)'
  BY <1>1, <1>4, StillTold DEF DeviceInv, ToldInv
<1> QED BY <1>2, <1>3, <1>5 DEF DeviceInv

\* A step of device d keeps the promises of all if it keeps its own.
LEMMA OneDevice ==
  ASSUME PromiseInv, NEW d \in Device, DeviceInv(d)', Numbered', RevokedInv',
         \A e \in Device \ {d} : Untouched(e)
  PROVE  PromiseInv'
<1>1. \A e \in Device \ {d} : DeviceInv(e)'
  BY UntouchedInv DEF PromiseInv
<1> QED BY <1>1 DEF PromiseInv

\* One worker of d takes a step, the others wait.
LEMMA OneWorker ==
  ASSUME job \in Jobs, NEW d \in Device, NEW w \in Worker, NEW r \in Job, Goto(d, w, r)
  PROVE  /\ job'[d][w] = r /\ \A u \in Worker \ {w} : job'[d][u] = job[d][u]
         /\ \A e \in Device \ {d} : job'[e] = job[e]
<1>1. \A e \in Device \ {d} : job'[e] = job[e]
  BY DEF Goto, Jobs
<1> QED BY <1>1, JobSet

\* Without overlap, only one worker of a device is at work.
LEMMA OnlyOne ==
  ASSUME TypeInv, ~Overlap, PromiseInv, NEW d \in Device
  PROVE  /\ job[d]["heartbeat"].pc # "idle" \/ MayStart(d, "heartbeat") => job[d]["admin"].pc = "idle"
         /\ job[d]["admin"].pc # "idle" \/ MayStart(d, "admin") => job[d]["heartbeat"].pc = "idle"
BY DEF PromiseInv, DeviceInv, AloneInv, MayStart, Busy, Worker

\* Heartbeats keep the promises.
LEMMA HeartbeatPromise ==
  ASSUME TypeInv, ~Overlap, PromiseInv, NEW d \in Device, HeartbeatStep(d)
  PROVE  PromiseInv'
<1>0. /\ TypeOK /\ job \in Jobs /\ mem \in [Device -> LicenseState] /\ mem[d] \in LicenseState
      /\ job[d]["heartbeat"] \in Job /\ Proper(job[d]["heartbeat"])
      /\ "heartbeat" \in Worker /\ "admin" \in Worker \ {"heartbeat"} /\ DeviceInv(d)
  BY DEF TypeInv, TypeOK, Jobs, Worker, PromiseInv
<1> DEFINE j == job[d]["heartbeat"]
<1>1. /\ d \in up /\ job[d]["admin"].pc = "idle"
      /\ UNCHANGED <<card, up, minted, promise, revoked>>
      /\ \A e \in Device \ {d} : mem'[e] = mem[e]
  <2>1. d \in up /\ job[d]["admin"].pc = "idle"
    BY OnlyOne DEF HeartbeatStep, HeartbeatStart, HeartbeatAsk, HeartbeatApply, HeartbeatStamp,
          HeartbeatStampLost, HeartbeatPost, HeartbeatError, At, MayStart
  <2> QED BY <1>0, <2>1 DEF HeartbeatStep, HeartbeatStart, HeartbeatAsk, HeartbeatApply,
            HeartbeatStamp, HeartbeatStampLost, HeartbeatPost, HeartbeatError
<1>2. ASSUME DeviceInv(d)', RevokedInv', NEW r \in Job, Goto(d, "heartbeat", r)
      PROVE  PromiseInv'
  <2>1. \A e \in Device \ {d} : Untouched(e)
    BY <1>0, <1>1, <1>2, OneWorker DEF Untouched
  <2>2. Numbered'
    BY <1>1 DEF PromiseInv, Numbered
  <2> QED BY <1>2, <2>1, <2>2, OneDevice
<1>3. UNCHANGED <<cloud, revoked>> => RevokedInv'
  BY DEF PromiseInv, RevokedInv
<1>4. ASSUME NEW next \in {"idle", "stamp"}, SaveThen(d, "heartbeat", next),
             mem'[d].hw = mem[d].hw, UNCHANGED cloud,
             Told(promise[d], mem[d], revoked) => Told(promise[d], mem'[d], revoked)
      PROVE  PromiseInv'
  <2> DEFINE r == [j EXCEPT !.pc = "save", !.then = next]
  <2>1. r \in Job /\ r.pc = "save"
    BY <1>0 DEF Job
  <2>2. Goto(d, "heartbeat", r)
    BY <1>4 DEF SaveThen
  <2> HIDE DEF r
  <2>3. DeviceInv(d)'
    BY <1>0, <1>1, <1>4, <2>1, <2>2, OneWorker, HeartbeatKeeps
  <2> QED BY <1>1, <1>2, <1>3, <1>4, <2>1, <2>2, <2>3
<1>5. CASE HeartbeatStart(d)
  <2> DEFINE r == [Idle EXCEPT !.pc = IF mem[d].key = NoKey THEN "post" ELSE "ask", !.key = mem[d].key]
  <2>1. r \in Job /\ r.pc \in {"post", "ask"} /\ r.key = mem[d].key
    <3>1. mem[d].key \in Key \cup {NoKey}
      BY <1>0 DEF LicenseState
    <3>2. CASE mem[d].key = NoKey
      BY <3>1, <3>2, EmptyTypes DEF Job, Idle
    <3>3. CASE mem[d].key # NoKey
      BY <3>1, <3>3, EmptyTypes DEF Job, Idle
    <3> QED BY <3>2, <3>3
  <2>2. Goto(d, "heartbeat", r) /\ UNCHANGED <<mem, cloud>>
    BY <1>5 DEF HeartbeatStart
  <2> HIDE DEF r
  <2>3. DeviceInv(d)'
    BY <1>0, <1>1, <2>1, <2>2, OneWorker, HeartbeatKeeps
  <2> QED BY <1>1, <1>2, <1>3, <2>1, <2>2, <2>3
<1>6. CASE HeartbeatAsk(d)
  <2> DEFINE r == [j EXCEPT !.pc = "apply", !.ans = cloud[j.key].status]
  <2>1. j.key \in Key /\ j.pc = "ask"
    BY <1>0, <1>6 DEF HeartbeatAsk, At, Proper
  <2>2. r \in Job /\ r.pc = "apply" /\ r.ans = cloud[j.key].status /\ r.key = j.key
    BY <1>0, <2>1 DEF Job, TypeOK
  <2>3. Goto(d, "heartbeat", r) /\ UNCHANGED <<mem, cloud>>
    BY <1>6 DEF HeartbeatAsk
  <2> HIDE DEF r
  <2>4. r.key = mem[d].key /\ (r.ans = "revoked" => r.key \in revoked)
    BY <1>0, <2>1, <2>2 DEF DeviceInv, NewsInv, PromiseInv, RevokedInv
  <2>5. DeviceInv(d)'
    BY <1>0, <1>1, <2>2, <2>3, <2>4, OneWorker, HeartbeatKeeps
  <2> QED BY <1>1, <1>2, <1>3, <2>2, <2>3, <2>5
<1>7. CASE HeartbeatApply(d)
  <2> DEFINE a == IF j.ans \in {"active", "available"} THEN mem[d].status ELSE j.ans
             st == [mem[d] EXCEPT !.status = a, !.resp = "fresh"]
  <2>1. j.ans \in CloudStatus /\ j.pc = "apply" /\ UNCHANGED cloud /\ SaveThen(d, "heartbeat", "stamp")
    BY <1>0, <1>7 DEF HeartbeatApply, At, Proper
  <2>2. mem' = [mem EXCEPT ![d] = st]
    BY <1>0, <1>7 DEF HeartbeatApply
  <2>3. a = mem[d].status \/ (a = "revoked" /\ j.ans = "revoked")
    BY <2>1 DEF CloudStatus
  <2> HIDE DEF a
  <2>4. st.hw = mem[d].hw /\ st.key = mem[d].key /\ st.status = a
    BY <1>0 DEF LicenseState
  <2> HIDE DEF st
  <2>5. mem'[d] = st
    BY <1>0, <2>2
  <2>6. a = "revoked" => st.key \in revoked \/ a = mem[d].status
    BY <1>0, <2>1, <2>3, <2>4 DEF DeviceInv, NewsInv
  <2>7. Told(promise[d], mem[d], revoked) => Told(promise[d], st, revoked)
    BY <2>3, <2>4, <2>6 DEF Told
  <2> QED BY <1>4, <2>1, <2>4, <2>5, <2>7
<1>8. CASE HeartbeatStamp(d) \/ HeartbeatStampLost(d)
  <2>1. RevokedInv'
    <3>1. \A k \in Key : cloud'[k].status = cloud[k].status
      BY <1>0, <1>8 DEF HeartbeatStamp, HeartbeatStampLost, TypeOK
    <3> QED BY <1>1, <3>1 DEF PromiseInv, RevokedInv
  <2>2. Goto(d, "heartbeat", Idle) /\ UNCHANGED mem
    BY <1>8 DEF HeartbeatStamp, HeartbeatStampLost
  <2>3. Idle.pc = "idle" /\ Idle \in Job
    BY EmptyTypes DEF Idle
  <2>4. DeviceInv(d)'
    BY <1>0, <1>1, <2>2, <2>3, OneWorker, HeartbeatKeeps
  <2> QED BY <1>2, <2>1, <2>2, <2>3, <2>4
<1>9. CASE HeartbeatPost(d)
  <2> DEFINE st == [mem[d] EXCEPT !.resp = "fresh"]
  <2>1. mem'[d] = st /\ UNCHANGED cloud /\ SaveThen(d, "heartbeat", "idle")
    BY <1>0, <1>9 DEF HeartbeatPost
  <2>2. st.hw = mem[d].hw /\ st.key = mem[d].key /\ st.status = mem[d].status
    BY <1>0 DEF LicenseState
  <2> HIDE DEF st
  <2> QED BY <1>4, <2>1, <2>2 DEF Told
<1>10. CASE HeartbeatError(d)
  BY <1>4, <1>10 DEF HeartbeatError
<1> QED BY <1>5, <1>6, <1>7, <1>8, <1>9, <1>10 DEF HeartbeatStep

\* Requests keep the promises until they answer.
LEMMA RequestPromise ==
  ASSUME TypeInv, ~Overlap, PromiseInv, NEW d \in Device, AdminRequest(d)
  PROVE  PromiseInv'
<1>0. /\ TypeOK /\ job \in Jobs /\ mem \in [Device -> LicenseState] /\ mem[d] \in LicenseState
      /\ job[d]["admin"] \in Job /\ Proper(job[d]["admin"])
      /\ "admin" \in Worker /\ "heartbeat" \in Worker \ {"admin"} /\ DeviceInv(d)
      /\ promise \in [Device -> CloudStatus \cup {"none"}]
  BY DEF TypeInv, TypeOK, Jobs, Worker, PromiseInv
<1> DEFINE j == job[d]["admin"]
<1>1. /\ d \in up /\ job[d]["heartbeat"].pc = "idle"
      /\ UNCHANGED <<card, up, minted>> /\ revoked \subseteq revoked'
      /\ \A e \in Device \ {d} : mem'[e] = mem[e] /\ promise'[e] = promise[e]
  <2>1. d \in up /\ job[d]["heartbeat"].pc = "idle"
    BY OnlyOne DEF AdminRequest, AdminStep, ActivateClaim, ActivateDone, DeactivateRelease,
          DeactivateDone, RequestFails, DeactivateStart, DeactivateOffline, ActivateCheck, At, MayStart
  <2> QED BY <1>0, <2>1 DEF AdminRequest, AdminStep, ActivateClaim, ActivateDone, DeactivateRelease,
            DeactivateDone, RequestFails, DeactivateStart, DeactivateOffline, ActivateCheck
<1>2. ASSUME DeviceInv(d)', RevokedInv', NEW r \in Job, Goto(d, "admin", r)
      PROVE  PromiseInv'
  <2>1. \A e \in Device \ {d} : Untouched(e)
    BY <1>0, <1>1, <1>2, OneWorker DEF Untouched
  <2>2. Numbered'
    BY <1>1 DEF PromiseInv, Numbered
  <2> QED BY <1>2, <2>1, <2>2, OneDevice
<1>3. UNCHANGED <<cloud, revoked>> => RevokedInv'
  BY DEF PromiseInv, RevokedInv
<1>4. ASSUME NEW r \in Job, Goto(d, "admin", r), RevokedInv', UNCHANGED mem, ~Saving(d, "admin"),
             r.pc \notin {"save", "write"}, promise'[d] \in {promise[d], "none"},
             r.pc \in {"claim", "claimed"} => r.ans = "active",
             r.pc \in {"release", "released"} => r.ans = "revoked" /\ promise'[d] = "none"
      PROVE  PromiseInv'
  <2>1. DeviceInv(d)'
    BY <1>0, <1>1, <1>4, OneWorker, RequestKeeps
  <2> QED BY <1>2, <1>4, <2>1
<1>5. ASSUME NEW pc \in {"claimed", "released"}, Goto(d, "admin", [j EXCEPT !.pc = pc]), RevokedInv',
             UNCHANGED <<mem, promise>>, pc = "claimed" => j.pc = "claim", pc = "released" => j.pc = "release"
      PROVE  PromiseInv'
  <2> DEFINE r == [j EXCEPT !.pc = pc]
  <2>1. r \in Job /\ r.pc = pc /\ r.ans = j.ans
    BY <1>0 DEF Job
  <2>2. Goto(d, "admin", r)
    BY <1>5
  <2> HIDE DEF r
  <2>3. /\ pc = "claimed" => j.ans = "active"
        /\ pc = "released" => j.ans = "revoked" /\ promise[d] = "none"
    BY <1>0, <1>5 DEF DeviceInv, AdminInv
  <2> QED BY <1>4, <1>5, <2>1, <2>2, <2>3 DEF Saving
<1>6. ASSUME SaveThen(d, "admin", "idle"), UNCHANGED <<cloud, revoked, promise>>, mem'[d].hw = mem[d].hw,
             j.ans \in {"active", "revoked"}, Told(j.ans, mem'[d], revoked),
             j.ans = "revoked" => promise[d] = "none"
      PROVE  PromiseInv'
  <2> DEFINE r == [j EXCEPT !.pc = "save", !.then = "idle"]
  <2>1. r \in Job /\ r.pc = "save" /\ r.then = "idle" /\ r.ans = j.ans
    BY <1>0 DEF Job
  <2>2. Goto(d, "admin", r)
    BY <1>6 DEF SaveThen
  <2> HIDE DEF r
  <2>3. DeviceInv(d)'
    BY <1>0, <1>1, <1>6, <2>1, <2>2, OneWorker, RequestKeeps
  <2> QED BY <1>2, <1>3, <1>6, <2>1, <2>2, <2>3
<1>7. CASE ActivateClaim(d)
  <2>1. j.pc = "claim" /\ j.key \in Key /\ UNCHANGED <<mem, promise, revoked>>
        /\ Goto(d, "admin", [j EXCEPT !.pc = "claimed"])
    BY <1>0, <1>7 DEF ActivateClaim, At, Proper
  <2>2. RevokedInv'
    <3>1. cloud' = [cloud EXCEPT ![j.key] = [status |-> "active", hw |-> mem[d].hw]]
      BY <1>7 DEF ActivateClaim
    <3>2. \A k \in Key : cloud'[k].status = "revoked" => cloud[k].status = "revoked"
      BY <1>0, <3>1 DEF TypeOK
    <3> QED BY <2>1, <3>2 DEF PromiseInv, RevokedInv
  <2> QED BY <1>5, <2>1, <2>2
<1>8. CASE ActivateDone(d)
  <2> DEFINE st == [mem[d] EXCEPT !.status = "active", !.key = j.key, !.resp = "fresh"]
  <2>1. /\ j.pc = "claimed" /\ UNCHANGED <<cloud, revoked, promise>> /\ SaveThen(d, "admin", "idle")
        /\ mem'[d] = st
    BY <1>0, <1>8 DEF ActivateDone, At
  <2>2. st.hw = mem[d].hw /\ st.status = "active"
    BY <1>0 DEF LicenseState
  <2> HIDE DEF st
  <2>3. j.ans = "active"
    BY <1>0, <2>1 DEF DeviceInv, AdminInv
  <2>4. Told(j.ans, st, revoked)
    BY <2>2, <2>3 DEF Told
  <2> QED BY <1>6, <2>1, <2>2, <2>3, <2>4
<1>9. CASE DeactivateRelease(d)
  <2>1. j.pc = "release" /\ j.key \in Key /\ UNCHANGED <<mem, promise>>
        /\ Goto(d, "admin", [j EXCEPT !.pc = "released"])
    BY <1>0, <1>9 DEF DeactivateRelease, At, Proper
  <2>2. RevokedInv'
    <3>1. /\ cloud' = [cloud EXCEPT ![j.key] = [status |-> "revoked", hw |-> NoHw]]
          /\ revoked' = revoked \cup {j.key}
      BY <1>9 DEF DeactivateRelease
    <3>2. \A k \in Key \ {j.key} : cloud'[k] = cloud[k]
      BY <1>0, <3>1 DEF TypeOK
    <3> QED BY <2>1, <3>1, <3>2 DEF PromiseInv, RevokedInv
  <2> QED BY <1>5, <2>1, <2>2
<1>10. CASE DeactivateDone(d)
  <2> DEFINE st == [mem[d] EXCEPT !.status = "locked"]
  <2>1. /\ j.pc = "released" /\ UNCHANGED <<cloud, revoked, promise>> /\ SaveThen(d, "admin", "idle")
        /\ mem'[d] = st
    BY <1>0, <1>10 DEF DeactivateDone, At
  <2>2. st.hw = mem[d].hw /\ st.status = "locked"
    BY <1>0 DEF LicenseState
  <2> HIDE DEF st
  <2>3. j.ans = "revoked" /\ promise[d] = "none"
    BY <1>0, <2>1 DEF DeviceInv, AdminInv
  <2>4. Told(j.ans, st, revoked)
    BY <2>2, <2>3 DEF Told
  <2> QED BY <1>6, <2>1, <2>2, <2>3, <2>4
<1>11. CASE RequestFails(d)
  <2>1. /\ j.pc \in {"claim", "claimed", "release", "released"} /\ UNCHANGED <<cloud, mem, promise, revoked>>
        /\ Goto(d, "admin", Idle)
    BY <1>11 DEF RequestFails, At
  <2>2. Idle \in Job /\ Idle.pc = "idle"
    BY EmptyTypes DEF Idle
  <2> QED BY <1>3, <1>4, <2>1, <2>2 DEF Saving
<1>12. CASE DeactivateStart(d)
  <2> DEFINE r == [Idle EXCEPT !.pc = "release", !.key = mem[d].key, !.ans = "revoked"]
  <2>1. /\ mem[d].key \in Key /\ j.pc = "idle" /\ UNCHANGED <<cloud, mem, revoked>>
        /\ promise'[d] = "none"
    BY <1>0, <1>12 DEF DeactivateStart, MayStart, LicenseState
  <2>2. r \in Job /\ r.pc = "release" /\ r.ans = "revoked"
    BY <2>1, NewJobType DEF CloudStatus, Idle
  <2>3. Goto(d, "admin", r)
    BY <1>12 DEF DeactivateStart
  <2> HIDE DEF r
  <2> QED BY <1>3, <1>4, <2>1, <2>2, <2>3 DEF Saving
<1>13. CASE DeactivateOffline(d)
  BY <1>3, <1>5, <1>13 DEF DeactivateOffline, At
<1>14. ASSUME NEW k \in Key, ActivateCheck(d, k)
       PROVE  PromiseInv'
  <2> DEFINE r == [Idle EXCEPT !.pc = "claim", !.key = k, !.ans = "active"]
  <2>1. r \in Job /\ r.pc = "claim" /\ r.ans = "active"
    BY NewJobType DEF CloudStatus, Idle
  <2>2. Goto(d, "admin", r) /\ j.pc = "idle" /\ UNCHANGED <<cloud, mem, promise, revoked>>
    BY <1>14 DEF ActivateCheck, MayStart
  <2> HIDE DEF r
  <2> QED BY <1>3, <1>4, <2>1, <2>2 DEF Saving
<1> QED BY <1>7, <1>8, <1>9, <1>10, <1>11, <1>12, <1>13, <1>14 DEF AdminRequest, AdminStep

\* A snapshot of the state keeps the promises the state keeps.
LEMMA SnapshotPromise ==
  ASSUME TypeInv, ~Overlap, PromiseInv, NEW d \in Device, NEW w \in Worker, SaveSnapshot(d, w)
  PROVE  PromiseInv'
<1> DEFINE r == [job[d][w] EXCEPT !.pc = "write", !.snap = mem[d]]
<1>0. /\ job \in Jobs /\ job[d][w] \in Job /\ mem[d] \in LicenseState /\ DeviceInv(d)
      /\ d \in up /\ job[d][w].pc = "save"
  BY DEF TypeInv, TypeOK, Jobs, PromiseInv, SaveSnapshot, At
<1>1. UNCHANGED <<cloud, card, mem, up, minted, promise, revoked>> /\ Goto(d, w, r)
  BY DEF SaveSnapshot
<1>2. r \in Job /\ r.pc = "write" /\ r.snap = mem[d] /\ r.ans = job[d][w].ans /\ r.then = job[d][w].then
  BY <1>0 DEF Job
<1> HIDE DEF r
<1>3. /\ job'[d][w] = r /\ \A u \in Worker \ {w} : job'[d][u] = job[d][u] /\ job[d][u].pc = "idle"
      /\ \A e \in Device \ {d} : job'[e] = job[e]
  <2>1. \A u \in Worker \ {w} : job[d][u].pc = "idle"
    BY <1>0 DEF DeviceInv, AloneInv, Worker
  <2> QED BY <1>0, <1>1, <1>2, <2>1, OneWorker
<1>4. OwnId(d)' = OwnId(d) /\ (Settled(d)' <=> Settled(d)) /\ Kept(OwnId(d), mem[d].hw)
  BY <1>0, <1>1 DEF OwnId, Settled, MachineBoard, FixedId, StampedHere, HardwareStamp, DeviceInv, ToldInv
<1>5. DeviceInv(d)'
  <2>1. CASE w = "heartbeat"
    <3>1. "admin" \in Worker \ {w}
      BY <2>1 DEF Worker
    <3>2. Told(promise[d], mem[d], revoked)
      BY <1>0, <1>3, <3>1 DEF DeviceInv, ToldInv, Saving
    <3>3. PlacedInv(d)' /\ AloneInv(d)' /\ NewsInv(d)' /\ AdminInv(d)'
      BY <1>0, <1>1, <1>2, <1>3, <1>4, <2>1, <3>1
         DEF DeviceInv, PlacedInv, AloneInv, NewsInv, AdminInv, Saving
    <3>4. ToldInv(d)'
      BY <1>0, <1>1, <1>2, <1>3, <1>4, <2>1, <3>1, <3>2 DEF DeviceInv, ToldInv, Saving
    <3> QED BY <3>3, <3>4 DEF DeviceInv
  <2>2. CASE w = "admin"
    <3>1. "heartbeat" \in Worker \ {w}
      BY <2>2 DEF Worker
    <3>2. PlacedInv(d)' /\ AloneInv(d)' /\ NewsInv(d)' /\ AdminInv(d)'
      BY <1>0, <1>1, <1>2, <1>3, <1>4, <2>2, <3>1
         DEF DeviceInv, PlacedInv, AloneInv, NewsInv, AdminInv, Saving
    <3>3. ToldInv(d)'
      BY <1>0, <1>1, <1>2, <1>3, <1>4, <2>2, <3>1 DEF DeviceInv, ToldInv, Saving
    <3> QED BY <3>2, <3>3 DEF DeviceInv
  <2> QED BY <2>1, <2>2 DEF Worker
<1>6. \A e \in Device \ {d} : Untouched(e)
  BY <1>1, <1>3 DEF Untouched
<1>7. Numbered' /\ RevokedInv'
  BY <1>1 DEF PromiseInv, Numbered, RevokedInv
<1> QED BY <1>5, <1>6, <1>7, OneDevice

\* After the upsert, written or refused, the worker is idle or goes on to the stamp.
LEMMA AfterWrite ==
  ASSUME TypeInv, NEW d \in Device, NEW w \in Worker,
         Goto(d, w, IF job[d][w].then = "idle" THEN Idle
                    ELSE [job[d][w] EXCEPT !.pc = job[d][w].then, !.snap = NoRow])
  PROVE  /\ job'[d][w].pc \in {"idle", "stamp"}
         /\ job[d][w].then = "idle" => job'[d][w].pc = "idle"
         /\ \A u \in Worker \ {w} : job'[d][u] = job[d][u]
         /\ \A e \in Device \ {d} : job'[e] = job[e]
<1> DEFINE r == [job[d][w] EXCEPT !.pc = job[d][w].then, !.snap = NoRow]
<1>1. job \in Jobs /\ job[d][w] \in Job
  BY DEF TypeInv, TypeOK, Jobs
<1>2. CASE job[d][w].then = "idle"
  <2>1. Idle.pc = "idle" /\ Idle \in Job
    BY EmptyTypes DEF Idle
  <2> QED BY <1>1, <1>2, <2>1, OneWorker
<1>3. CASE job[d][w].then = "stamp"
  <2>1. r \in Job /\ r.pc = "stamp"
    BY <1>1, <1>3, EmptyTypes DEF Job
  <2>2. Goto(d, w, r)
    BY <1>3
  <2> HIDE DEF r
  <2> QED BY <1>1, <1>3, <2>1, <2>2, OneWorker
<1> QED BY <1>1, <1>2, <1>3 DEF Job

\* The upsert makes a promise of the admin's request, and breaks none.
LEMMA WritePromise ==
  ASSUME TypeInv, ~Overlap, PromiseInv, NEW d \in Device, NEW w \in Worker, SaveWrite(d, w)
  PROVE  PromiseInv'
<1> DEFINE j == job[d][w]
<1>0. /\ job \in Jobs /\ j \in Job /\ DeviceInv(d) /\ d \in up /\ j.pc = "write"
      /\ card \in [Device -> Card] /\ promise \in [Device -> CloudStatus \cup {"none"}]
  BY DEF TypeInv, TypeOK, Jobs, Card, PromiseInv, SaveWrite, At
<1>1. UNCHANGED <<cloud, mem, up, minted, revoked>> /\ promise' = Answer(d, w)
      /\ card' = [card EXCEPT ![d] = [card[d] EXCEPT !.row = j.snap]]
  BY DEF SaveWrite
<1>2. /\ \A e \in Device \ {d} : card'[e] = card[e] /\ promise'[e] = promise[e]
      /\ card'[d].row = j.snap /\ card'[d].machine = card[d].machine /\ card'[d].stamp = card[d].stamp
  BY <1>0, <1>1 DEF Card, Answer
<1>3. /\ job'[d][w].pc \in {"idle", "stamp"} /\ (j.then = "idle" => job'[d][w].pc = "idle")
      /\ \A u \in Worker \ {w} : job'[d][u] = job[d][u] /\ job[d][u].pc = "idle"
      /\ \A e \in Device \ {d} : job'[e] = job[e]
  <2>1. \A u \in Worker \ {w} : job[d][u].pc = "idle"
    BY <1>0 DEF DeviceInv, AloneInv, Worker
  <2>2. Goto(d, w, IF job[d][w].then = "idle" THEN Idle
                   ELSE [job[d][w] EXCEPT !.pc = job[d][w].then, !.snap = NoRow])
    BY DEF SaveWrite
  <2>3. /\ job'[d][w].pc \in {"idle", "stamp"} /\ (j.then = "idle" => job'[d][w].pc = "idle")
        /\ \A u \in Worker \ {w} : job'[d][u] = job[d][u]
        /\ \A e \in Device \ {d} : job'[e] = job[e]
    BY <2>2, AfterWrite
  <2> QED BY <2>1, <2>3
<1>4. OwnId(d)' = OwnId(d) /\ Settled(d)' /\ Kept(OwnId(d), mem[d].hw)
  BY <1>0, <1>2 DEF OwnId, Settled, MachineBoard, FixedId, StampedHere, HardwareStamp, DeviceInv,
        ToldInv, PlacedInv
<1>5. DeviceInv(d)'
  <2>1. CASE w = "heartbeat"
    <3>1. "admin" \in Worker \ {w} /\ promise' = promise
      BY <1>1, <2>1 DEF Worker, Answer
    <3>2. /\ Told(promise[d], mem[d], revoked) /\ Told(promise[d], j.snap, revoked)
          /\ Kept(OwnId(d), j.snap.hw) /\ promise[d] \in {"none", "active", "revoked"}
      BY <1>0, <1>3, <2>1, <3>1 DEF DeviceInv, ToldInv, Saving
    <3>3. PlacedInv(d)' /\ AloneInv(d)' /\ NewsInv(d)' /\ AdminInv(d)'
      BY <1>0, <1>1, <1>3, <1>4, <2>1, <3>1 DEF PlacedInv, AloneInv, NewsInv, AdminInv, Saving
    <3>4. ToldInv(d)'
      BY <1>0, <1>1, <1>2, <1>3, <1>4, <2>1, <3>1, <3>2 DEF ToldInv, Saving
    <3> QED BY <3>3, <3>4 DEF DeviceInv
  <2>2. CASE w = "admin"
    <3>1. "heartbeat" \in Worker \ {w}
      BY <2>2 DEF Worker
    <3>2. /\ j.then = "idle" /\ j.ans \in {"active", "revoked"} /\ Told(j.ans, mem[d], revoked)
          /\ Told(j.ans, j.snap, revoked) /\ Kept(OwnId(d), j.snap.hw)
      BY <1>0, <2>2 DEF DeviceInv, AdminInv, Saving
    <3>3. promise'[d] = j.ans /\ job'[d][w].pc = "idle"
      BY <1>0, <1>1, <1>3, <2>2, <3>2 DEF Answer
    <3>4. PlacedInv(d)' /\ AloneInv(d)' /\ NewsInv(d)' /\ AdminInv(d)'
      BY <1>0, <1>1, <1>3, <1>4, <2>2, <3>1, <3>3 DEF PlacedInv, AloneInv, NewsInv, AdminInv, Saving
    <3>5. ToldInv(d)'
      BY <1>0, <1>1, <1>2, <1>3, <1>4, <2>2, <3>1, <3>2, <3>3 DEF ToldInv, Saving
    <3> QED BY <3>4, <3>5 DEF DeviceInv
  <2> QED BY <2>1, <2>2 DEF Worker
<1>6. \A e \in Device \ {d} : Untouched(e)
  BY <1>1, <1>2, <1>3 DEF Untouched
<1>7. Numbered' /\ RevokedInv'
  BY <1>1, <1>2 DEF PromiseInv, Numbered, RevokedInv
<1> QED BY <1>5, <1>6, <1>7, OneDevice

\* A refused upsert takes the promise back.
LEMMA RefusedPromise ==
  ASSUME TypeInv, ~Overlap, PromiseInv, NEW d \in Device, NEW w \in Worker, SaveFails(d, w)
  PROVE  PromiseInv'
<1> DEFINE j == job[d][w]
<1>0. /\ job \in Jobs /\ j \in Job /\ DeviceInv(d) /\ d \in up /\ j.pc = "write"
      /\ promise \in [Device -> CloudStatus \cup {"none"}]
  BY DEF TypeInv, TypeOK, Jobs, PromiseInv, SaveFails, At
<1>1. UNCHANGED <<cloud, card, mem, up, minted, revoked>>
      /\ promise' = [promise EXCEPT ![d] = "none"]
  BY DEF SaveFails
<1>2. /\ job'[d][w].pc \in {"idle", "stamp"} /\ (j.then = "idle" => job'[d][w].pc = "idle")
      /\ \A u \in Worker \ {w} : job'[d][u] = job[d][u] /\ job[d][u].pc = "idle"
      /\ \A e \in Device \ {d} : job'[e] = job[e]
  <2>1. \A u \in Worker \ {w} : job[d][u].pc = "idle"
    BY <1>0 DEF DeviceInv, AloneInv, Worker
  <2>2. Goto(d, w, IF job[d][w].then = "idle" THEN Idle
                   ELSE [job[d][w] EXCEPT !.pc = job[d][w].then, !.snap = NoRow])
    BY DEF SaveFails
  <2>3. /\ job'[d][w].pc \in {"idle", "stamp"} /\ (j.then = "idle" => job'[d][w].pc = "idle")
        /\ \A u \in Worker \ {w} : job'[d][u] = job[d][u]
        /\ \A e \in Device \ {d} : job'[e] = job[e]
    BY <2>2, AfterWrite
  <2> QED BY <2>1, <2>3
<1>3. OwnId(d)' = OwnId(d) /\ Settled(d)' /\ Kept(OwnId(d), mem[d].hw)
  BY <1>0, <1>1 DEF OwnId, Settled, MachineBoard, FixedId, StampedHere, HardwareStamp, DeviceInv,
        ToldInv, PlacedInv
<1>4. promise'[d] = "none" /\ \A r : Told("none", r, revoked)
  BY <1>0, <1>1 DEF Told
<1>5. w = "admin" => job'[d][w].pc = "idle"
  BY <1>0, <1>2 DEF DeviceInv, AdminInv, Saving
<1>6. /\ job'[d]["admin"].pc = "idle" /\ job'[d]["heartbeat"].pc \in {"idle", "stamp"}
  BY <1>2, <1>5 DEF Worker
<1>7. DeviceInv(d)'
  <2>1. PlacedInv(d)' /\ AloneInv(d)' /\ NewsInv(d)' /\ AdminInv(d)'
    BY <1>0, <1>1, <1>3, <1>4, <1>6 DEF PlacedInv, AloneInv, NewsInv, AdminInv, Saving
  <2>2. ToldInv(d)'
    BY <1>1, <1>3, <1>4, <1>6 DEF ToldInv
  <2> QED BY <2>1, <2>2 DEF DeviceInv
<1>8. \A e \in Device \ {d} : Untouched(e)
  BY <1>0, <1>1, <1>2 DEF Untouched
<1>9. Numbered' /\ RevokedInv'
  BY <1>1 DEF PromiseInv, Numbered, RevokedInv
<1> QED BY <1>7, <1>8, <1>9, OneDevice

\* A board that starts on a card keeps what its own card promised; on a clone of
\* another's nothing was promised.
LEMMA StartPromise ==
  ASSUME TypeInv, TypeInv', PromiseInv, NEW d \in Device, NEW y \in Device, StartWith(d, card[y]),
         UNCHANGED <<cloud, revoked>>, \A e \in Device \ {d} : promise'[e] = promise[e],
         promise'[d] = "none" \/ (y = d /\ promise'[d] = promise[d])
  PROVE  PromiseInv'
<1> DEFINE id == HardwareFingerprint(d, card[y])
           st == LoadedState(d, card[y])
           row == card[y].row
<1>0. /\ card \in [Device -> Card] /\ mem \in [Device -> LicenseState] /\ job \in Jobs
      /\ minted \in Nat /\ minted' \in Nat /\ row \in LicenseState
      /\ DeviceInv(d) /\ Numbered
  BY DEF TypeInv, TypeOK, Card, Jobs, PromiseInv
<1>1. /\ \A x \in Device \ {d} : card'[x] = card[x] /\ mem'[x] = mem[x]
      /\ card'[d].row \in {mem'[d], row}
      /\ mem'[d] = st /\ up' = up \cup {d} /\ minted <= minted'
      /\ job' = [job EXCEPT ![d] = [w \in Worker |-> Idle]]
      /\ Settled(d)' /\ OwnId(d)' = id
      /\ \/ card'[d].machine = card[y].machine
         \/ minted' = minted + 1 /\ card'[d].machine = minted + 1
  BY <1>0, Started DEF Numbered
<1>2. /\ st.hw = id
      /\ row # NoRow /\ row.hw \in {NoHw, id} => st.status = row.status /\ st.key = row.key
  BY Loaded
<1>3. row # NoRow /\ y = d => id = OwnId(d)
  <2> SUFFICES ASSUME row # NoRow, y = d PROVE id = OwnId(d)
    OBVIOUS
  <2>1. Settled(d)
    BY <1>0 DEF DeviceInv, PlacedInv
  <2>2. CASE MachineBoard(d)
    BY <2>1, <2>2 DEF Settled, HardwareFingerprint, OwnId, MachineBoard
  <2>3. CASE ~MachineBoard(d)
    BY <2>3, LicenseAssumption DEF HardwareFingerprint, OwnId, FixedId, MachineBoard
  <2> QED BY <2>2, <2>3
<1> HIDE DEF id, st, row
<1>4. \A u \in Worker : job'[d][u] = Idle
  BY <1>0, <1>1 DEF Jobs
<1>5. Idle.pc = "idle" /\ "admin" \in Worker /\ "heartbeat" \in Worker
  BY DEF Idle, Worker
<1>6. promise'[d] # "none" => /\ promise'[d] \in {"active", "revoked"}
                              /\ Told(promise'[d], row, revoked) /\ Told(promise'[d], st, revoked)
                              /\ Kept(id, row.hw)
  <2> SUFFICES ASSUME promise'[d] # "none"
               PROVE  /\ promise'[d] \in {"active", "revoked"}
                      /\ Told(promise'[d], row, revoked) /\ Told(promise'[d], st, revoked)
                      /\ Kept(id, row.hw)
    OBVIOUS
  <2>1. y = d /\ promise'[d] = promise[d] /\ promise[d] \in {"active", "revoked"}
    BY <1>0 DEF DeviceInv, ToldInv
  <2>2. Told(promise[d], row, revoked) /\ Kept(OwnId(d), row.hw)
    BY <1>0, <2>1 DEF DeviceInv, ToldInv, row
  <2>3. row # NoRow
    <3>1. NoRow.status = "no row" /\ NoRow.key = NoKey /\ NoKey \notin revoked
      BY LicenseAssumption DEF NoRow, TypeInv, TypeOK
    <3> QED BY <2>1, <2>2, <3>1 DEF Told
  <2>4. Kept(id, row.hw)
    BY <1>3, <2>1, <2>2, <2>3
  <2>5. Told(promise[d], st, revoked)
    BY <1>2, <2>2, <2>3, <2>4 DEF Told, Kept
  <2> QED BY <2>1, <2>2, <2>4, <2>5
<1>7. DeviceInv(d)'
  <2>1. PlacedInv(d)' /\ AloneInv(d)' /\ NewsInv(d)' /\ AdminInv(d)'
    BY <1>1, <1>4, <1>5 DEF PlacedInv, AloneInv, NewsInv, AdminInv, Saving
  <2>2. Told("none", st, revoked) /\ Kept(id, st.hw)
    BY <1>2 DEF Told, Kept
  <2>3. ToldInv(d)'
    BY <1>1, <1>4, <1>5, <1>6, <2>2 DEF ToldInv, Saving
  <2> QED BY <2>1, <2>3 DEF DeviceInv
<1>8. ASSUME NEW e \in Device \ {d} PROVE Untouched(e)
  BY <1>0, <1>1, <1>8 DEF Untouched, Jobs
<1>9. Numbered'
  <2>1. ASSUME NEW x \in Device PROVE card'[x].machine <= minted'
    <3>1. card[x].machine <= minted /\ card[x].machine \in Nat /\ card[y].machine <= minted
          /\ card[y].machine \in Nat
      BY <1>0 DEF Numbered, Card
    <3>2. card'[x].machine \in {card[x].machine, card[y].machine} \/ (card'[x].machine = minted + 1 /\ minted' = minted + 1)
      BY <1>1
    <3> QED BY <1>0, <1>1, <3>1, <3>2
  <2> QED BY <2>1 DEF Numbered
<1>10. RevokedInv'
  BY DEF PromiseInv, RevokedInv
<1> QED BY <1>7, <1>8, <1>9, <1>10, OneDevice

\* Starts, the vendor and the calendar keep the promises.
LEMMA OutsidePromise ==
  ASSUME TypeInv, ~Overlap, PromiseInv, Outside
  PROVE  PromiseInv'
<1>0. /\ TypeInv' /\ job \in Jobs /\ mem \in [Device -> LicenseState]
      /\ promise \in [Device -> CloudStatus \cup {"none"}]
  BY OutsideType DEF TypeInv, TypeOK, Jobs
<1>1. ASSUME NEW d \in Device, Boot(d) PROVE PromiseInv'
  BY <1>0, <1>1, StartPromise DEF Boot
<1>2. ASSUME NEW d \in Device, NEW e \in Device, CloneCard(d, e) PROVE PromiseInv'
  <2>1. promise'[e] = "none" /\ \A x \in Device \ {e} : promise'[x] = promise[x]
    BY <1>0, <1>2 DEF CloneCard
  <2> QED BY <1>0, <1>2, <2>1, StartPromise DEF CloneCard
<1>3. ASSUME NEW d \in Device, BootUnread(d) PROVE PromiseInv'
  <2>1. /\ card[d].row # NoRow /\ UNCHANGED <<cloud, card, minted, revoked>> /\ up' = up \cup {d}
        /\ mem'[d] = ZeroState /\ promise'[d] = "none" /\ \A u \in Worker : job'[d][u] = Idle
        /\ \A e \in Device \ {d} : mem'[e] = mem[e] /\ promise'[e] = promise[e] /\ job'[e] = job[e]
    BY <1>0, <1>3 DEF BootUnread, Jobs
  <2>2. Idle.pc = "idle" /\ "admin" \in Worker /\ "heartbeat" \in Worker /\ ZeroState.hw = NoHw
    BY DEF Idle, Worker, ZeroState
  <2>3. Settled(d)' /\ OwnId(d)' = OwnId(d)
    BY <2>1 DEF PromiseInv, DeviceInv, PlacedInv, OwnId, Settled, MachineBoard, FixedId, StampedHere,
          HardwareStamp
  <2>4. Told("none", ZeroState, revoked) /\ Kept(OwnId(d), ZeroState.hw)
    BY <2>2 DEF Told, Kept
  <2>5. DeviceInv(d)'
    BY <2>1, <2>2, <2>3, <2>4 DEF DeviceInv, PlacedInv, AloneInv, NewsInv, AdminInv, ToldInv, Saving
  <2>6. \A e \in Device \ {d} : Untouched(e)
    BY <2>1 DEF Untouched
  <2>7. Numbered' /\ RevokedInv'
    BY <2>1 DEF PromiseInv, Numbered, RevokedInv
  <2> QED BY <2>5, <2>6, <2>7, OneDevice
<1>4. ASSUME NEW k \in Key, NEW s \in {"revoked", "available"}, Vendor(k, s) PROVE PromiseInv'
  <2>1. \A e \in Device : Untouched(e)
    BY <1>4 DEF Vendor, Untouched
  <2>2. RevokedInv'
    BY <1>4 DEF Vendor, PromiseInv, RevokedInv, TypeInv, TypeOK
  <2>3. Numbered'
    BY <1>4 DEF Vendor, PromiseInv, Numbered
  <2> QED BY <2>1, <2>2, <2>3, UntouchedInv DEF PromiseInv
<1>5. CASE Day
  <2>1. UNCHANGED <<cloud, up, job, minted, promise, revoked>> /\ \A d \in Device, u \in Worker : job[d][u].pc = "idle"
    BY <1>5 DEF Day, Busy
  <2>2. ASSUME NEW d \in Device PROVE DeviceInv(d)'
    <3>1. /\ mem'[d] \in {mem[d], Older(mem[d])} /\ card'[d].row \in {card[d].row, Older(card[d].row)}
          /\ card'[d].machine = card[d].machine /\ card'[d].stamp = card[d].stamp
          /\ mem[d] \in LicenseState /\ card[d].row \in LicenseState
      BY <1>5, DayFields
    <3>2. card[d].row = NoRow => card'[d].row = NoRow
      BY <1>5 DEF Day
    <3>3. /\ mem'[d].status = mem[d].status /\ mem'[d].key = mem[d].key /\ mem'[d].hw = mem[d].hw
          /\ card'[d].row.status = card[d].row.status /\ card'[d].row.key = card[d].row.key
          /\ card'[d].row.hw = card[d].row.hw
      BY <3>1, OlderFields
    <3>4. OwnId(d)' = OwnId(d) /\ (Settled(d)' <=> Settled(d)) /\ "admin" \in Worker /\ "heartbeat" \in Worker
      BY <3>1 DEF OwnId, Settled, MachineBoard, FixedId, StampedHere, HardwareStamp, Worker
    <3>5. DeviceInv(d)
      BY DEF PromiseInv
    <3>6. PlacedInv(d)' /\ AloneInv(d)' /\ NewsInv(d)' /\ AdminInv(d)'
      BY <2>1, <3>2, <3>3, <3>4, <3>5 DEF DeviceInv, PlacedInv, AloneInv, NewsInv, AdminInv, Saving
    <3>7. ToldInv(d)'
      BY <2>1, <3>3, <3>4, <3>5 DEF DeviceInv, ToldInv, Told, Saving
    <3> QED BY <3>6, <3>7 DEF DeviceInv
  <2>3. Numbered' /\ RevokedInv'
    BY <1>5, <2>1, DayFields DEF PromiseInv, Numbered, RevokedInv
  <2> QED BY <2>2, <2>3 DEF PromiseInv
<1> QED BY <1>1, <1>2, <1>3, <1>4, <1>5 DEF Outside

\* Every step keeps the promises.
LEMMA PromiseStep ==
  ASSUME TypeInv, ~Overlap, PromiseInv, [Next]_vars
  PROVE  PromiseInv'
<1>1. ASSUME NEW d \in Device, NEW w \in Worker, SaveStep(d, w) \/ SaveFails(d, w) PROVE PromiseInv'
  BY <1>1, SnapshotPromise, WritePromise, RefusedPromise DEF SaveStep
<1>2. CASE UNCHANGED vars
  <2>1. \A e \in Device : Untouched(e)
    BY <1>2 DEF vars, Untouched
  <2>2. Numbered' /\ RevokedInv'
    BY <1>2 DEF vars, PromiseInv, Numbered, RevokedInv
  <2> QED BY <2>1, <2>2, UntouchedInv DEF PromiseInv
<1> QED BY <1>1, <1>2, Steps, HeartbeatPromise, RequestPromise, OutsidePromise

\* Nothing has been promised at first.
LEMMA PromiseInit ==
  ASSUME Init
  PROVE  PromiseInv
<1>1. Idle.pc = "idle" /\ NoRow.hw = NoHw /\ "admin" \in Worker /\ "heartbeat" \in Worker
  BY DEF Idle, NoRow, Worker
<1>2. Numbered /\ RevokedInv
  BY DEF Init, Numbered, RevokedInv
<1>3. ASSUME NEW d \in Device PROVE DeviceInv(d)
  BY <1>1 DEF Init, DeviceInv, PlacedInv, AloneInv, NewsInv, AdminInv, ToldInv, Told, Saving
<1> QED BY <1>2, <1>3 DEF PromiseInv

\* What was promised of a licence holds in every reachable state.
LEMMA PromiseInvariant ==
  ASSUME ~Overlap
  PROVE  Spec => [](TypeInv /\ PromiseInv)
<1>1. Init => TypeInv /\ PromiseInv
  BY InitType, PromiseInit
<1>2. TypeInv /\ PromiseInv /\ [Next]_vars => TypeInv' /\ PromiseInv'
  BY StepType, PromiseStep
<1> QED BY <1>1, <1>2, PTL DEF Spec

\* What the admin was told about an activation stays true: where a heartbeat never
\* runs during a request, no crash, restart, failing save, heartbeat or day that
\* passes takes the license away, until its key is revoked or released, or the
\* board starts without reading its row.
THEOREM StaysActive ==
  ASSUME ~Overlap
  PROVE  Spec => []ActiveUntilRevoked
<1>1. TypeInv /\ PromiseInv => ActiveUntilRevoked
  <2> SUFFICES ASSUME TypeInv, PromiseInv, NEW d \in up, promise[d] = "active", mem[d].key \notin revoked
               PROVE  mem[d].status = "active"
    BY DEF ActiveUntilRevoked
  <2>1. d \in Device /\ DeviceInv(d)
    BY DEF TypeInv, TypeOK, PromiseInv
  <2>2. Told("active", mem[d], revoked)
    BY <2>1 DEF DeviceInv, AdminInv, ToldInv
  <2> QED BY <2>2 DEF Told
<1> QED BY <1>1, PromiseInvariant, PTL

\* ... and about a deactivation: the gate of the device stays closed through every
\* restart and every answer of the cloud, until a new request of the admin.
THEOREM StaysLocked ==
  ASSUME ~Overlap
  PROVE  Spec => []DeactivatedStaysLocked
<1>1. TypeInv /\ PromiseInv => DeactivatedStaysLocked
  <2> SUFFICES ASSUME TypeInv, PromiseInv, NEW d \in up, promise[d] = "revoked",
                      job[d]["admin"].pc = "idle"
               PROVE  ~LicenseGate(mem[d], "/api/admin/sessions")
    BY DEF DeactivatedStaysLocked
  <2>1. d \in Device /\ DeviceInv(d)
    BY DEF TypeInv, TypeOK, PromiseInv
  <2>2. mem[d].status \in {"locked", "revoked"}
    BY <2>1 DEF DeviceInv, ToldInv, Told, Saving
  <2> QED BY <2>2 DEF LicenseGate, IsLicenseValid
<1> QED BY <1>1, PromiseInvariant, PTL
=============================================================================
