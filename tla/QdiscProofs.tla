----------------------------- MODULE QdiscProofs -----------------------------
(***************************************************************************)
(* Proofs about Qdisc for any number of devices, rates, requests, faults   *)
(* and restarts.                                                           *)
(***************************************************************************)
EXTENDS Qdisc, TLAPS

Pc == {"idle", "boot", "wipe", "root", "class", "leaf", "snapshot", "next", "filter",
       "verify", "retry", "read", "unfilter", "unclass"}
Jobs == [Proc -> Job]
Others(p) == \A q \in Proc \ {p} : job'[q] = job[q]

\* A stream works on the default class or on a device, a hook on its own device; the
\* rule they apply is one that needs the command.
ProperStream(j) ==
    /\ j.pc \notin {"read", "unfilter", "unclass"}
    /\ j.pc \notin {"idle", "boot", "retry"} => j.rule \in Global
    /\ j.pc \in {"snapshot", "next", "filter"} => j.rule \in Rate
    /\ j.pc \in {"class", "leaf"} => \/ j.dev = Default /\ j.rule # "cake"
                                     \/ j.dev \in Device /\ j.rule \in Rate
    /\ j.pc = "filter" => j.dev \in Device
ProperHook(h, j) ==
    /\ j.pc \in {"idle", "read", "class", "leaf", "filter", "unfilter", "unclass"}
    /\ j.pc \notin {"idle", "read"} => j.dev = h[1] /\ j.rule \in Rate
    /\ h[2] = "remove" => j.pc \notin {"class", "leaf", "filter"}
    /\ h[2] = "add" => j.pc \notin {"unfilter", "unclass"}
ProperJob(p) == IF p \in Stream THEN ProperStream(job[p]) ELSE ProperHook(p, job[p])

TreeOK ==
    /\ root \in {"none", "cake", "htb"}
    /\ DOMAIN class \subseteq Device \cup {Default}
    /\ \A c \in DOMAIN class : class[c] \in IF c = Default THEN {"global"} ELSE Rate
    /\ leaf \subseteq DOMAIN class /\ filter \subseteq Device
    /\ police \subseteq Device \X Rate
ToldOK ==
    /\ applied \in Global \cup {None} /\ reported \subseteq Device /\ mu \in Request \cup {None}
FaultOK == touched \subseteq Device /\ faults \in Nat
DeviceOK ==
    /\ rule \in Global \cup {None} /\ session \in [Device -> {"none", "active", "paused"}]
    /\ override \in [Device -> Rate \cup {None, "cleared"}] /\ link \in BOOLEAN
JobOK == job \in Jobs /\ \A p \in Proc : ProperJob(p)
TypeInv == TreeOK /\ ToldOK /\ FaultOK /\ DeviceOK /\ JobOK

-----------------------------------------------------------------------------
\* Jobs

\* The idle job, and the empty table.
LEMMA EmptyTypes ==
  /\ Idle \in Job /\ Idle.pc = "idle" /\ Idle.rule = None /\ Idle.dev = None
  /\ DOMAIN <<>> = {}
BY DEF Idle, Job

\* Streams and hooks are different processes.
LEMMA Processes ==
  /\ Stream \subseteq Proc /\ Hook \subseteq Proc /\ Boot \in Stream /\ Request \subseteq Stream
  /\ \A h \in Hook : h \notin Stream /\ h[1] \in Device /\ h[2] \in {"add", "remove"}
  /\ \A p \in Proc : p \in Stream \/ p \in Hook
BY QdiscAssumption DEF Stream, Hook, Proc

\* One process takes a step, the others wait.
LEMMA OneJob ==
  ASSUME job \in Jobs, NEW p \in Proc, NEW j \in Job, job' = [job EXCEPT ![p] = j]
  PROVE  job' \in Jobs /\ job'[p] = j /\ Others(p)
BY DEF Jobs, Others

\* A process goes on with what it had; the others stay.
LEMMA SetJob ==
  ASSUME job \in Jobs, NEW p \in Proc, NEW pc \in Pc, Set(p, pc)
  PROVE  /\ job' \in Jobs /\ Others(p) /\ job'[p].pc = pc /\ job'[p].rule = job[p].rule
         /\ job'[p].dev = job[p].dev /\ job'[p].todo = job[p].todo /\ job'[p].again = job[p].again
<1> DEFINE j == [job[p] EXCEPT !.pc = pc]
<1>1. job[p] \in Job
  BY DEF Jobs
<1>2. /\ j \in Job /\ j.pc = pc /\ j.rule = job[p].rule /\ j.dev = job[p].dev
      /\ j.todo = job[p].todo /\ j.again = job[p].again
  BY <1>1 DEF Job, Pc
<1>3. job' = [job EXCEPT ![p] = j]
  BY DEF Set
<1> HIDE DEF j
<1> QED BY <1>2, <1>3, OneJob

\* A process ends; the others stay.
LEMMA FreeJob ==
  ASSUME job \in Jobs, NEW p \in Proc, Free(p)
  PROVE  job' \in Jobs /\ job'[p] = Idle /\ Others(p)
BY OneJob, EmptyTypes DEF Free

\* An apply whose command failed ends or tries again; the others stay.
LEMMA FailedJob ==
  ASSUME job \in Jobs, NEW s \in Stream, Failed(s)
  PROVE  job' \in Jobs /\ job'[s].pc \in {"idle", "retry"} /\ Others(s)
<1>1. CASE Set(s, "retry")
  BY <1>1, SetJob, Processes DEF Pc
<1>2. CASE Free(s)
  BY <1>2, FreeJob, EmptyTypes, Processes
<1> QED BY <1>1, <1>2 DEF Failed

\* A process that leaves the others alone keeps the jobs proper if its own is.
LEMMA ProperJobs ==
  ASSUME JobOK, NEW p \in Proc, job' \in Jobs, Others(p), ProperJob(p)'
  PROVE  JobOK'
BY DEF JobOK, ProperJob, Others

\* A process that has nothing to do is proper.
LEMMA ProperFree ==
  ASSUME JobOK, NEW p \in Proc, job' \in Jobs, Others(p),
         job'[p].pc = "idle" \/ (p \in Stream /\ job'[p].pc \in {"boot", "retry"})
  PROVE  JobOK'
<1>1. ProperJob(p)'
  BY DEF ProperJob, ProperStream, ProperHook
<1> QED BY <1>1, ProperJobs

-----------------------------------------------------------------------------
\* The tree

\* A class is added, or replaced; the others stay.
LEMMA ClassAdded ==
  ASSUME TreeOK, NEW id, NEW r, class' = ClassWith(id, r)
  PROVE  /\ DOMAIN class' = DOMAIN class \cup {id} /\ class'[id] = r
         /\ \A c \in DOMAIN class \ {id} : class'[c] = class[c]
BY DEF ClassWith

\* A class that is added has a rate of its kind, and the tree keeps its shape.
LEMMA ClassAddType ==
  ASSUME TreeOK, NEW id \in Device \cup {Default}, NEW r, class' = ClassWith(id, r),
         r \in IF id = Default THEN {"global"} ELSE Rate, UNCHANGED <<root, leaf, filter, police>>
  PROVE  TreeOK'
<1>1. /\ DOMAIN class' = DOMAIN class \cup {id} /\ class'[id] = r
      /\ \A c \in DOMAIN class \ {id} : class'[c] = class[c]
  BY ClassAdded
<1>2. \A c \in DOMAIN class' : class'[c] \in IF c = Default THEN {"global"} ELSE Rate
  BY <1>1 DEF TreeOK
<1> QED BY <1>1, <1>2 DEF TreeOK

\* Changing the rate of a device's class, or adding the class, is well typed.
LEMMA ChangeType ==
  ASSUME TreeOK, NEW m \in Device, NEW r \in Rate, ChangeClientClassRate(m, r),
         UNCHANGED <<root, leaf, filter, police>>
  PROVE  /\ TreeOK'
         /\ DOMAIN class' \in {DOMAIN class, DOMAIN class \cup {m}}
         /\ \A c \in DOMAIN class \ {m} : class'[c] = class[c]
         /\ m \in DOMAIN class => class'[m] = r /\ DOMAIN class' = DOMAIN class
         /\ root # "htb" => DOMAIN class' = DOMAIN class
<1>0. m # Default
  BY QdiscAssumption
<1>1. CASE m \in DOMAIN class
  <2>1. class' = [class EXCEPT ![m] = r]
    BY <1>1 DEF ChangeClientClassRate
  <2>2. DOMAIN class' = DOMAIN class /\ class'[m] = r /\ \A c \in DOMAIN class \ {m} : class'[c] = class[c]
    BY <1>1, <2>1
  <2> QED BY <1>0, <1>1, <2>2 DEF TreeOK
<1>2. CASE m \notin DOMAIN class /\ root = "htb"
  <2>1. class' = ClassWith(m, r)
    BY <1>2 DEF ChangeClientClassRate
  <2>2. TreeOK'
    BY <1>0, <2>1, ClassAddType
  <2>3. DOMAIN class' = DOMAIN class \cup {m} /\ \A c \in DOMAIN class \ {m} : class'[c] = class[c]
    BY <2>1, ClassAdded
  <2> QED BY <1>2, <2>2, <2>3
<1>3. CASE m \notin DOMAIN class /\ root # "htb"
  BY <1>3 DEF ChangeClientClassRate, TreeOK
<1> QED BY <1>1, <1>2, <1>3

\* A class is removed with its leaf.
LEMMA RemoveType ==
  ASSUME TreeOK, NEW m \in Device, class' = Restrict(class, DOMAIN class \ {m}), leaf' = leaf \ {m},
         UNCHANGED <<root, filter, police>>
  PROVE  /\ TreeOK' /\ DOMAIN class' = DOMAIN class \ {m}
         /\ \A c \in DOMAIN class \ {m} : class'[c] = class[c]
BY DEF TreeOK, Restrict

\* An empty tree is well typed.
LEMMA EmptyTree ==
  ASSUME class' = <<>>, leaf' = {}, filter' = {}, root' = "none", police' \subseteq Device \X Rate
  PROVE  TreeOK' /\ DOMAIN class' = {}
BY EmptyTypes DEF TreeOK

-----------------------------------------------------------------------------
\* Types

\* The operator's requests leave the state well typed.
OperatorStep ==
    \/ \E r \in Global : SaveQdisc(r)
    \/ \E s \in Request : ApplyQdisc(s)
    \/ \E m \in Device, r \in Rate \cup {None} : Shape(m, r)

\* What the operator does keeps the types.
LEMMA OperatorType ==
  ASSUME TypeInv, OperatorStep
  PROVE  TypeInv'
<1>0. UNCHANGED job => JobOK'
  BY DEF TypeInv, JobOK, ProperJob
<1>1. ASSUME NEW r \in Global, SaveQdisc(r) PROVE TypeInv'
  BY <1>0, <1>1 DEF SaveQdisc, TypeInv, TreeOK, ToldOK, FaultOK, DeviceOK, device, tree, fault
<1>2. ASSUME NEW s \in Request, ApplyQdisc(s) PROVE TypeInv'
  <2> DEFINE j == [job[s] EXCEPT !.pc = "wipe", !.rule = rule]
  <2>1. s \in Stream /\ s \in Proc /\ job \in Jobs /\ job[s] \in Job /\ rule \in Global
    BY <1>2, Processes DEF TypeInv, JobOK, Jobs, DeviceOK, ApplyQdisc
  <2>2. j \in Job /\ j.pc = "wipe" /\ j.rule = rule
    BY <2>1 DEF Job
  <2>3. job' = [job EXCEPT ![s] = j]
    BY <1>2, <2>1 DEF ApplyQdisc, Jobs
  <2> HIDE DEF j
  <2>4. job' \in Jobs /\ job'[s] = j /\ Others(s)
    BY <2>1, <2>2, <2>3, OneJob
  <2>5. ProperJob(s)'
    BY <2>1, <2>2, <2>4 DEF ProperJob, ProperStream
  <2>6. JobOK'
    BY <2>1, <2>4, <2>5, ProperJobs DEF TypeInv
  <2> QED BY <1>2, <2>6 DEF ApplyQdisc, TypeInv, TreeOK, ToldOK, FaultOK, DeviceOK, device, tree, fault
<1>3. ASSUME NEW m \in Device, NEW r \in Rate \cup {None}, Shape(m, r) PROVE TypeInv'
  <2>1. TreeOK'
    <3>1. CASE rule \in Rate /\ r # None
      BY <1>3, <3>1, ChangeType DEF Shape, TypeInv
    <3>2. CASE ~(rule \in Rate /\ r # None)
      BY <1>3, <3>2 DEF Shape, TypeInv, TreeOK
    <3> QED BY <3>1, <3>2
  <2>2. override' \in [Device -> Rate \cup {None, "cleared"}]
    BY <1>3 DEF Shape, TypeInv, DeviceOK
  <2> QED BY <1>0, <1>3, <2>1, <2>2 DEF Shape, TypeInv, ToldOK, FaultOK, DeviceOK, told, fault
<1> QED BY <1>1, <1>2, <1>3 DEF OperatorStep

\* A command that fails touches devices only.
LEMMA FaultType ==
  ASSUME FaultOK, NEW S \in SUBSET Device, Fault(S) \/ NoFault
  PROVE  FaultOK'
BY DEF FaultOK, Fault, NoFault, fault

\* What a stream does short of adding classes leaves the state well typed.
LEMMA StreamType ==
  ASSUME TypeInv, NEW s \in Stream,
         Wipe(s) \/ Root(s) \/ Snapshot(s) \/ NextDevice(s) \/ Verify(s)
  PROVE  TypeInv'
<1>0. s \in Proc /\ job \in Jobs /\ job[s] \in Job /\ ProperStream(job[s]) /\ JobOK
  BY Processes DEF TypeInv, JobOK, Jobs, ProperJob
<1>m. Unlock(s) => mu' \in Request \cup {None}
  BY DEF TypeInv, ToldOK, Unlock
<1>p. ASSUME job' \in Jobs, Others(s), ProperStream(job[s])' PROVE JobOK'
  BY <1>0, <1>p, ProperJobs DEF ProperJob
<1>1. CASE Wipe(s)
  <2>1. job' \in Jobs /\ Others(s) /\ job'[s].pc = "root" /\ job'[s].rule = job[s].rule /\ job[s].pc = "wipe"
    BY <1>0, <1>1, SetJob DEF Wipe, Pc
  <2>2. JobOK'
    BY <1>0, <1>p, <2>1 DEF ProperStream
  <2>3. FaultOK'
    BY <1>1, FaultType DEF Wipe, TypeInv
  <2>4. TreeOK'
    <3>1. root \in {"none", "cake", "htb"} /\ police' \subseteq Device \X Rate
      BY <1>1 DEF Wipe, TypeInv, TreeOK
    <3>2. CASE root' = "none" /\ class' = <<>> /\ leaf' = {} /\ filter' = {}
      BY <3>1, <3>2, EmptyTree
    <3>3. CASE UNCHANGED <<root, class, leaf, filter>>
      BY <1>1, <3>3 DEF Wipe, TypeInv, TreeOK
    <3> QED BY <1>1, <3>2, <3>3 DEF Wipe
  <2> QED BY <1>1, <2>2, <2>3, <2>4 DEF Wipe, TypeInv, ToldOK, DeviceOK, device, told
<1>2. CASE Root(s)
  <2>1. FaultOK'
    BY <1>2, FaultType DEF Root, TypeInv
  <2>2. TreeOK'
    BY <1>2 DEF Root, TypeInv, TreeOK
  <2>3. CASE root = "none" /\ job[s].rule = "cake" /\ Set(s, "verify") /\ UNCHANGED <<mu, told>>
    <3>1. job' \in Jobs /\ Others(s) /\ job'[s].pc = "verify" /\ job'[s].rule = job[s].rule /\ job[s].pc = "root"
      BY <1>0, <1>2, <2>3, SetJob DEF Root, Pc
    <3>2. JobOK'
      BY <1>0, <1>p, <3>1 DEF ProperStream
    <3> QED BY <1>2, <2>1, <2>2, <2>3, <3>2 DEF Root, TypeInv, ToldOK, DeviceOK, device, told
  <2>4. CASE /\ root = "none" /\ job[s].rule # "cake" /\ UNCHANGED <<mu, told>>
             /\ job' = [job EXCEPT ![s].pc = "class", ![s].dev = Default]
    <3> DEFINE j == [job[s] EXCEPT !.pc = "class", !.dev = Default]
    <3>1. j \in Job /\ j.pc = "class" /\ j.dev = Default /\ j.rule = job[s].rule
      BY <1>0 DEF Job
    <3>2. job' = [job EXCEPT ![s] = j]
      BY <1>0, <2>4 DEF Jobs
    <3> HIDE DEF j
    <3>3. job' \in Jobs /\ job'[s] = j /\ Others(s)
      BY <1>0, <3>1, <3>2, OneJob
    <3>4. job[s].pc = "root"
      BY <1>2 DEF Root
    <3>5. JobOK'
      BY <1>0, <1>p, <2>4, <3>1, <3>3, <3>4 DEF ProperStream
    <3> QED BY <1>2, <2>1, <2>2, <2>4, <3>5 DEF Root, TypeInv, ToldOK, DeviceOK, device, told
  <2>5. CASE Failed(s)
    <3>1. JobOK'
      BY <1>0, <2>5, FailedJob, ProperFree
    <3> QED BY <1>2, <1>m, <2>1, <2>2, <2>5, <3>1 DEF Root, Failed, TypeInv, ToldOK, DeviceOK, device, told
  <2> QED BY <1>2, <2>3, <2>4, <2>5 DEF Root
<1>3. CASE Snapshot(s)
  <2>1. PICK P \in SUBSET {m \in Device : session[m] = "paused"} :
          job' = [job EXCEPT ![s].pc = "next", ![s].todo = P \cup {m \in Device : session[m] = "active"}]
    BY <1>3 DEF Snapshot
  <2> DEFINE t == P \cup {m \in Device : session[m] = "active"}
             j == [job[s] EXCEPT !.pc = "next", !.todo = t]
  <2>2. j \in Job /\ j.pc = "next" /\ j.rule = job[s].rule
    BY <1>0 DEF Job
  <2>3. job' = [job EXCEPT ![s] = j]
    BY <1>0, <2>1 DEF Jobs
  <2> HIDE DEF j
  <2>4. job' \in Jobs /\ job'[s] = j /\ Others(s) /\ job[s].pc = "snapshot"
    BY <1>0, <1>3, <2>2, <2>3, OneJob DEF Snapshot
  <2>5. JobOK'
    BY <1>0, <1>p, <2>2, <2>4 DEF ProperStream
  <2> QED BY <1>3, <2>5 DEF Snapshot, TypeInv, TreeOK, ToldOK, DeviceOK, FaultOK, device, told, tree, fault
<1>4. CASE NextDevice(s)
  <2>1. CASE Set(s, "verify")
    <3>1. job' \in Jobs /\ Others(s) /\ job'[s].pc = "verify" /\ job'[s].rule = job[s].rule /\ job[s].pc = "next"
      BY <1>0, <1>4, <2>1, SetJob DEF NextDevice, Pc
    <3>2. JobOK'
      BY <1>0, <1>p, <3>1 DEF ProperStream
    <3> QED BY <1>4, <3>2 DEF NextDevice, TypeInv, TreeOK, ToldOK, DeviceOK, FaultOK, device, told, tree, fault
  <2>2. ASSUME NEW m \in job[s].todo,
               job' = [job EXCEPT ![s].pc = "class", ![s].dev = m, ![s].todo = job[s].todo \ {m}]
        PROVE  TypeInv'
    <3> DEFINE j == [job[s] EXCEPT !.pc = "class", !.dev = m, !.todo = job[s].todo \ {m}]
    <3>1. m \in Device
      BY <1>0 DEF Job
    <3>2. j \in Job /\ j.pc = "class" /\ j.dev = m /\ j.rule = job[s].rule
      BY <1>0, <3>1 DEF Job
    <3>3. job' = [job EXCEPT ![s] = j]
      BY <1>0, <2>2 DEF Jobs
    <3> HIDE DEF j
    <3>4. job' \in Jobs /\ job'[s] = j /\ Others(s) /\ job[s].pc = "next"
      BY <1>0, <1>4, <3>2, <3>3, OneJob DEF NextDevice
    <3>5. JobOK'
      BY <1>0, <1>p, <3>1, <3>2, <3>4 DEF ProperStream
    <3> QED BY <1>4, <3>5 DEF NextDevice, TypeInv, TreeOK, ToldOK, DeviceOK, FaultOK, device, told, tree, fault
  <2> QED BY <1>4, <2>1, <2>2 DEF NextDevice
<1>5. CASE Verify(s)
  <2>1. CASE Done(s) /\ NoFault
    <3>1. JobOK'
      BY <1>0, <2>1, FreeJob, ProperFree, EmptyTypes DEF Done
    <3>2. job[s].rule \in Global
      BY <1>0, <1>5 DEF Verify, ProperStream
    <3> QED BY <1>5, <1>m, <2>1, <3>1, <3>2
            DEF Verify, Done, NoFault, TypeInv, TreeOK, ToldOK, DeviceOK, FaultOK, device, tree, fault
  <2>2. CASE Failed(s) /\ Fault({})
    <3>1. JobOK'
      BY <1>0, <2>2, FailedJob, ProperFree
    <3>2. FaultOK'
      BY <2>2, FaultType DEF TypeInv
    <3> QED BY <1>5, <1>m, <2>2, <3>1, <3>2
            DEF Verify, Failed, TypeInv, TreeOK, ToldOK, DeviceOK, device, tree, told
  <2> QED BY <1>5, <2>1, <2>2 DEF Verify
<1> QED BY <1>1, <1>2, <1>3, <1>4, <1>5

\* A refused command leaves out the rest of its class.
LEMMA RefusedType ==
  ASSUME TypeInv, NEW p \in Proc, NEW allowed \in BOOLEAN, Refused(p, allowed),
         job[p].pc \in {"class", "leaf", "filter"}
  PROVE  TypeInv'
<1>0. job \in Jobs /\ job[p] \in Job /\ ProperJob(p) /\ JobOK
  BY DEF TypeInv, JobOK, Jobs
<1>1. CASE p \in Stream
  <2>1. ProperStream(job[p])
    BY <1>0, <1>1 DEF ProperJob
  <2>2. CASE job[p].dev = Default
    <3>1. Failed(p) /\ (NoFault \/ Fault(Device))
      <4>1. Skip(p) /\ (NoFault \/ Fault(IF job[p].dev = Default THEN Device ELSE {job[p].dev}))
        BY DEF Refused
      <4>2. Failed(p)
        BY <1>1, <2>2, <4>1, Processes DEF Skip
      <4> QED BY <2>2, <4>1, <4>2
    <3>2. JobOK'
      BY <1>0, <1>1, <3>1, FailedJob, ProperFree
    <3>3. FaultOK'
      BY <3>1, FaultType DEF TypeInv
    <3> QED BY <3>1, <3>2, <3>3 DEF Refused, Failed, Unlock, TypeInv, TreeOK, ToldOK, DeviceOK, device, told, tree
  <2>3. CASE job[p].dev # Default
    <3>1. /\ Set(p, "next") /\ reported' = reported \cup {job[p].dev} /\ UNCHANGED <<mu, applied>>
          /\ NoFault \/ Fault({job[p].dev})
      <4>1. Skip(p) /\ (NoFault \/ Fault(IF job[p].dev = Default THEN Device ELSE {job[p].dev}))
        BY DEF Refused
      <4>2. Set(p, "next") /\ reported' = reported \cup {job[p].dev} /\ UNCHANGED <<mu, applied>>
        BY <1>1, <2>3, <4>1, Processes DEF Skip
      <4> QED BY <2>3, <4>1, <4>2
    <3>2. job[p].dev \in Device /\ job[p].rule \in Rate /\ job[p].rule \in Global
      BY <2>1, <2>3 DEF ProperStream
    <3>3. job' \in Jobs /\ Others(p) /\ job'[p].pc = "next" /\ job'[p].rule = job[p].rule
      BY <1>0, <3>1, SetJob DEF Pc
    <3>4. ProperJob(p)'
      BY <1>1, <3>2, <3>3 DEF ProperJob, ProperStream
    <3>5. JobOK'
      BY <1>0, <3>3, <3>4, ProperJobs
    <3>6. FaultOK'
      BY <3>1, <3>2, FaultType DEF TypeInv
    <3> QED BY <3>1, <3>2, <3>5, <3>6 DEF Refused, TypeInv, TreeOK, ToldOK, DeviceOK, device, tree
  <2> QED BY <2>2, <2>3
<1>2. CASE p \in Hook
  <2>1. p \notin Stream /\ ProperHook(p, job[p]) /\ p[1] \in Device
    BY <1>0, <1>2, Processes DEF ProperJob
  <2>2. job[p].dev \in Device /\ job[p].dev # Default
    BY <2>1, QdiscAssumption DEF ProperHook
  <2>3. Free(p) /\ UNCHANGED <<mu, told>> /\ (NoFault \/ Fault({job[p].dev}))
    BY <1>2, <2>1, <2>2 DEF Refused, Skip
  <2>4. JobOK'
    BY <1>0, <2>3, FreeJob, ProperFree, EmptyTypes
  <2>5. FaultOK'
    BY <2>2, <2>3, FaultType DEF TypeInv
  <2> QED BY <2>3, <2>4, <2>5 DEF Refused, TypeInv, TreeOK, ToldOK, DeviceOK, device, told, tree
<1> QED BY <1>1, <1>2, Processes

\* Adding a class, its leaf and its filter leaves the state well typed.
LEMMA AddType ==
  ASSUME TypeInv, NEW p \in Proc, ClassAdd(p) \/ LeafAdd(p) \/ FilterAdd(p)
  PROVE  TypeInv'
<1>0. job \in Jobs /\ job[p] \in Job /\ ProperJob(p) /\ JobOK
  BY DEF TypeInv, JobOK, Jobs
<1>1. /\ p \in Stream => ProperStream(job[p])
      /\ p \in Hook => p \notin Stream /\ ProperHook(p, job[p]) /\ p[1] \in Device
  BY <1>0, Processes DEF ProperJob
<1>2. CASE ClassAdd(p)
  <2> DEFINE id == job[p].dev
             allowed == root = "htb" /\ id \notin DOMAIN class
  <2>1. CASE Refused(p, allowed)
    <3>1. allowed \in BOOLEAN /\ job[p].pc \in {"class", "leaf", "filter"}
      BY <1>2 DEF ClassAdd
    <3> HIDE DEF allowed
    <3> QED BY <2>1, <3>1, RefusedType
  <2>2. CASE /\ class' = ClassWith(id, RateOf(job[p])) /\ Set(p, "leaf")
             /\ UNCHANGED <<rule, device, root, leaf, filter, police, link, mu, told, counts, fault>>
    <3>1. id \in Device \cup {Default} /\ RateOf(job[p]) \in IF id = Default THEN {"global"} ELSE Rate
      BY <1>1, <1>2, Processes, QdiscAssumption DEF ClassAdd, ProperStream, ProperHook, RateOf
    <3>2. TreeOK'
      <4> DEFINE r == RateOf(job[p])
      <4>1. r \in IF id = Default THEN {"global"} ELSE Rate
        BY <3>1
      <4>2. class' = ClassWith(id, r) /\ UNCHANGED <<root, leaf, filter, police>>
        BY <2>2
      <4> HIDE DEF id, r
      <4> QED BY <3>1, <4>1, <4>2, ClassAddType DEF TypeInv, id
    <3>3. job' \in Jobs /\ Others(p) /\ job'[p].pc = "leaf" /\ job'[p].rule = job[p].rule /\ job'[p].dev = job[p].dev
      BY <1>0, <2>2, SetJob DEF Pc
    <3>4. ProperJob(p)'
      BY <1>1, <1>2, <3>3, Processes DEF ProperJob, ProperStream, ProperHook, ClassAdd
    <3>5. JobOK'
      BY <1>0, <3>3, <3>4, ProperJobs
    <3> QED BY <2>2, <3>2, <3>5 DEF TypeInv, ToldOK, DeviceOK, FaultOK, device, told, fault
  <2> QED BY <1>2, <2>1, <2>2 DEF ClassAdd
<1>3. CASE LeafAdd(p)
  <2> DEFINE id == job[p].dev
             allowed == id \in DOMAIN class \ leaf
             next == IF id # Default THEN "filter"
                     ELSE IF job[p].rule = "global" THEN "verify" ELSE "snapshot"
  <2>1. CASE Refused(p, allowed)
    <3>1. allowed \in BOOLEAN /\ job[p].pc \in {"class", "leaf", "filter"}
      BY <1>3 DEF LeafAdd
    <3> HIDE DEF allowed
    <3> QED BY <2>1, <3>1, RefusedType
  <2>2. CASE /\ allowed /\ leaf' = leaf \cup {id} /\ Set(p, next)
             /\ UNCHANGED <<rule, device, root, class, filter, police, link, mu, told, counts, fault>>
    <3>1. TreeOK'
      BY <2>2 DEF TypeInv, TreeOK
    <3>2. /\ job' \in Jobs /\ Others(p) /\ job'[p].pc = next /\ job'[p].rule = job[p].rule
          /\ job'[p].dev = job[p].dev
      BY <1>0, <2>2, SetJob DEF Pc
    <3>3. ProperJob(p)'
      BY <1>1, <1>3, <3>2, Processes, QdiscAssumption DEF ProperJob, ProperStream, ProperHook, LeafAdd, Global
    <3>4. JobOK'
      BY <1>0, <3>2, <3>3, ProperJobs
    <3> QED BY <2>2, <3>1, <3>4 DEF TypeInv, ToldOK, DeviceOK, FaultOK, device, told, fault
  <2> QED BY <1>3, <2>1, <2>2 DEF LeafAdd
<1>4. CASE FilterAdd(p)
  <2> DEFINE m == job[p].dev
             allowed == root = "htb"
  <2>1. CASE Refused(p, allowed)
    <3>1. allowed \in BOOLEAN /\ job[p].pc \in {"class", "leaf", "filter"}
      BY <1>4 DEF FilterAdd
    <3> HIDE DEF allowed
    <3> QED BY <2>1, <3>1, RefusedType
  <2>2. CASE /\ filter' = filter \cup {m} /\ police' = police \cup {<<m, job[p].rule>>}
             /\ IF p \in Stream THEN Set(p, "next") ELSE Free(p)
             /\ UNCHANGED <<rule, device, root, class, leaf, link, mu, told, counts, fault>>
    <3>1. m \in Device /\ job[p].rule \in Rate
      BY <1>1, <1>4, Processes DEF ProperStream, ProperHook, FilterAdd
    <3>2. TreeOK'
      BY <2>2, <3>1 DEF TypeInv, TreeOK
    <3>3. JobOK'
      <4>1. CASE p \in Stream
        <5>1. job' \in Jobs /\ Others(p) /\ job'[p].pc = "next" /\ job'[p].rule = job[p].rule
          BY <1>0, <2>2, <4>1, SetJob DEF Pc
        <5>2. ProperJob(p)'
          BY <1>1, <1>4, <3>1, <4>1, <5>1 DEF ProperJob, ProperStream, FilterAdd
        <5> QED BY <1>0, <5>1, <5>2, ProperJobs
      <4>2. CASE p \notin Stream
        BY <1>0, <2>2, <4>2, FreeJob, ProperFree, EmptyTypes
      <4> QED BY <4>1, <4>2
    <3> QED BY <2>2, <3>2, <3>3 DEF TypeInv, ToldOK, DeviceOK, FaultOK, device, told, fault
  <2> QED BY <1>4, <2>1, <2>2 DEF FilterAdd
<1> QED BY <1>2, <1>3, <1>4

\* Sessions and their hooks leave the state well typed.
HookStep ==
    \/ \E m \in Device : SessionStarts(m) \/ \E to \in {"none", "paused"} : SessionStops(m, to)
    \/ \E h \in Hook : HookRead(h) \/ Unfilter(h) \/ Unclass(h)

\* A hook that starts is the one of its device and event.
LEMMA HookAfterType ==
  ASSUME JobOK, NEW m \in Device, NEW act \in {"add", "remove"}, HookAfter(m, act)
  PROVE  /\ JobOK' /\ job' \in Jobs /\ Others(<<m, act>>) /\ job'[<<m, act>>].pc = "read"
         /\ job[<<m, act>>] = Idle
<1> DEFINE h == <<m, act>>
<1>1. h \in Hook /\ h \in Proc /\ h \notin Stream
  BY Processes DEF Hook
<1>2. job' \in Jobs /\ Others(h) /\ job'[h].pc = "read"
  <2>1. Set(h, "read")
    BY DEF HookAfter, Set
  <2> HIDE DEF h
  <2> QED BY <1>1, <2>1, SetJob DEF JobOK, Pc
<1>3. ProperJob(h)'
  BY <1>1, <1>2 DEF ProperJob, ProperHook
<1>4. job[h] = Idle
  <2>1. h[1] = m
    OBVIOUS
  <2> QED BY <1>1, <2>1 DEF HookAfter, Busy
<1> HIDE DEF h
<1>5. JobOK'
  BY <1>1, <1>2, <1>3, ProperJobs
<1> QED BY <1>2, <1>4, <1>5 DEF h

\* The steps of hooks keep the types.
LEMMA HookType ==
  ASSUME TypeInv, HookStep
  PROVE  TypeInv'
<1>1. ASSUME NEW m \in Device, SessionStarts(m) PROVE TypeInv'
  <2>1. JobOK'
    BY <1>1, HookAfterType DEF SessionStarts, TypeInv
  <2> QED BY <1>1, <2>1 DEF SessionStarts, HookAfter, TypeInv, TreeOK, ToldOK, DeviceOK, FaultOK, tree, told, fault
<1>2. ASSUME NEW m \in Device, NEW to \in {"none", "paused"}, SessionStops(m, to) PROVE TypeInv'
  <2>1. JobOK'
    BY <1>2, HookAfterType DEF SessionStops, TypeInv
  <2>2. session' \in [Device -> {"none", "active", "paused"}] /\ override' \in [Device -> Rate \cup {None, "cleared"}]
    BY <1>2 DEF SessionStops, TypeInv, DeviceOK
  <2> QED BY <1>2, <2>1, <2>2 DEF SessionStops, HookAfter, TypeInv, TreeOK, ToldOK, DeviceOK, FaultOK, tree, told, fault
<1>3. ASSUME NEW h \in Hook, HookRead(h) PROVE TypeInv'
  <2>0. h \in Proc /\ h \notin Stream /\ h[1] \in Device /\ h[2] \in {"add", "remove"}
        /\ job \in Jobs /\ JobOK /\ job[h] \in Job
    BY Processes DEF TypeInv, JobOK, Jobs
  <2>1. CASE rule \notin Rate
    <3>1. JobOK'
      BY <1>3, <2>0, <2>1, FreeJob, ProperFree, EmptyTypes DEF HookRead
    <3> QED BY <1>3, <3>1 DEF HookRead, TypeInv, TreeOK, ToldOK, DeviceOK, FaultOK, device, tree, told, fault
  <2>2. CASE rule \in Rate
    <3> DEFINE pc == IF h[2] = "add" THEN "class" ELSE "unfilter"
               j == [job[h] EXCEPT !.pc = pc, !.rule = rule, !.dev = h[1]]
    <3>1. pc \in {"class", "unfilter"} /\ (pc = "class" <=> h[2] = "add")
      OBVIOUS
    <3>2. job' = [job EXCEPT ![h] = j]
      BY <1>3, <2>0, <2>2 DEF HookRead, Jobs
    <3> HIDE DEF pc
    <3>3. j \in Job /\ j.pc = pc /\ j.rule = rule /\ j.dev = h[1]
      BY <2>0, <2>2, <3>1 DEF Job, Global
    <3> HIDE DEF j
    <3>4. job' \in Jobs /\ job'[h] = j /\ Others(h)
      BY <2>0, <3>2, <3>3, OneJob
    <3>5. ProperJob(h)'
      BY <2>0, <2>2, <3>1, <3>3, <3>4 DEF ProperJob, ProperHook
    <3>6. JobOK'
      BY <2>0, <3>4, <3>5, ProperJobs
    <3> QED BY <1>3, <3>6 DEF HookRead, TypeInv, TreeOK, ToldOK, DeviceOK, FaultOK, device, tree, told, fault
  <2> QED BY <2>1, <2>2
<1>4. ASSUME NEW h \in Hook, Unfilter(h) PROVE TypeInv'
  <2>0. h \in Proc /\ h \notin Stream /\ h[1] \in Device /\ job \in Jobs /\ JobOK /\ ProperHook(h, job[h])
    BY Processes DEF TypeInv, JobOK, ProperJob
  <2>1. /\ job' \in Jobs /\ Others(h) /\ job'[h].pc = "unclass" /\ job'[h].rule = job[h].rule
        /\ job'[h].dev = job[h].dev /\ job[h].pc = "unfilter"
    BY <1>4, <2>0, SetJob DEF Unfilter, Pc
  <2>2. ProperJob(h)'
    BY <2>0, <2>1 DEF ProperJob, ProperHook
  <2>3. JobOK'
    BY <2>0, <2>1, <2>2, ProperJobs
  <2>4. FaultOK'
    BY <1>4, <2>0, FaultType DEF Unfilter, TypeInv
  <2>5. TreeOK'
    BY <1>4 DEF Unfilter, TypeInv, TreeOK
  <2> QED BY <1>4, <2>3, <2>4, <2>5 DEF Unfilter, TypeInv, ToldOK, DeviceOK, device, told
<1>5. ASSUME NEW h \in Hook, Unclass(h) PROVE TypeInv'
  <2>0. h \in Proc /\ h[1] \in Device /\ job \in Jobs /\ JobOK
    BY Processes DEF TypeInv, JobOK
  <2>1. JobOK'
    BY <1>5, <2>0, FreeJob, ProperFree, EmptyTypes DEF Unclass
  <2>2. FaultOK'
    BY <1>5, <2>0, FaultType DEF Unclass, TypeInv
  <2>3. TreeOK'
    <3>1. CASE UNCHANGED class
      BY <1>5, <3>1 DEF Unclass, TypeInv, TreeOK
    <3>2. CASE class' = Restrict(class, DOMAIN class \ {h[1]}) /\ leaf' = leaf \ {h[1]}
      BY <1>5, <2>0, <3>2, RemoveType DEF Unclass, TypeInv
    <3> QED BY <1>5, <3>1, <3>2 DEF Unclass
  <2> QED BY <1>5, <2>1, <2>2, <2>3 DEF Unclass, TypeInv, ToldOK, DeviceOK, device, told
<1> QED BY <1>1, <1>2, <1>3, <1>4, <1>5 DEF HookStep

\* A restart leaves every process idle but the re-apply of the boot.
LEMMA StoppedJobs ==
  ASSUME Stopped
  PROVE  /\ JobOK'
         /\ \A p \in Proc : job'[p].pc \in {"idle", "boot"}
<1> DEFINE j == [Idle EXCEPT !.pc = "boot"]
<1>1. j \in Job /\ j.pc = "boot"
  BY DEF Idle, Job
<1>2. job' = [p \in Proc |-> IF p = Boot THEN j ELSE Idle]
  BY DEF Stopped
<1> HIDE DEF j
<1>3. job' \in Jobs /\ \A p \in Proc : job'[p].pc \in {"idle", "boot"} /\ (job'[p].pc = "boot" => p \in Stream)
  BY <1>1, <1>2, EmptyTypes, Processes DEF Jobs
<1>4. \A p \in Proc : ProperJob(p)'
  BY <1>3 DEF ProperJob, ProperStream, ProperHook
<1> QED BY <1>3, <1>4 DEF JobOK

\* The boot's re-apply, and its retry.
LEMMA BootApplyJob ==
  ASSUME TypeInv, BootApply
  PROVE  /\ JobOK' /\ Others(Boot)
         /\ \/ job'[Boot].pc \in {"idle", "retry"} /\ UNCHANGED told
            \/ /\ job'[Boot].pc = "wipe" /\ job'[Boot].rule = rule
               /\ applied' = None /\ reported' = {} /\ asked' = TRUE
<1>0. Boot \in Stream /\ Boot \in Proc /\ JobOK /\ job \in Jobs
  BY Processes DEF TypeInv, JobOK
<1>1. CASE Free(Boot) /\ UNCHANGED told
  BY <1>0, <1>1, FreeJob, ProperFree, EmptyTypes
<1>2. CASE Set(Boot, "retry") /\ UNCHANGED told
  <2>1. job' \in Jobs /\ Others(Boot) /\ job'[Boot].pc = "retry"
    BY <1>0, <1>2, SetJob DEF Pc
  <2> QED BY <1>0, <1>2, <2>1, ProperFree
<1>3. ASSUME NEW first \in BOOLEAN, rule # None, applied' = None, reported' = {}, asked' = TRUE,
             job' = [job EXCEPT ![Boot] = [Idle EXCEPT !.pc = "wipe", !.rule = rule, !.again = first]]
      PROVE  /\ JobOK' /\ Others(Boot)
             /\ job'[Boot].pc = "wipe" /\ job'[Boot].rule = rule
  <2> DEFINE j == [Idle EXCEPT !.pc = "wipe", !.rule = rule, !.again = first]
  <2>1. rule \in Global
    BY <1>3 DEF TypeInv, DeviceOK
  <2>2. j \in Job /\ j.pc = "wipe" /\ j.rule = rule
    BY <2>1 DEF Idle, Job
  <2>3. job' = [job EXCEPT ![Boot] = j]
    BY <1>3
  <2> HIDE DEF j
  <2>4. job' \in Jobs /\ job'[Boot] = j /\ Others(Boot)
    BY <1>0, <2>2, <2>3, OneJob
  <2>5. ProperJob(Boot)'
    BY <1>0, <2>1, <2>2, <2>4 DEF ProperJob, ProperStream
  <2> QED BY <1>0, <2>2, <2>4, <2>5, ProperJobs
<1>4. (job[Boot].pc = "boot") \in BOOLEAN
  OBVIOUS
<1>5. CASE rule = None
  BY <1>1, <1>5 DEF BootApply
<1>6. CASE rule # None /\ ~link
  BY <1>1, <1>2, <1>6 DEF BootApply
<1>7. CASE rule # None /\ link
  <2>1. /\ applied' = None /\ reported' = {} /\ asked' = TRUE
        /\ job' = [job EXCEPT ![Boot] = [Idle EXCEPT !.pc = "wipe", !.rule = rule,
                                                    !.again = (job[Boot].pc = "boot")]]
    BY <1>7 DEF BootApply
  <2> QED BY <1>3, <1>4, <1>7, <2>1
<1> QED BY <1>5, <1>6, <1>7

\* Boots, restarts and the link coming up keep the types.
LEMMA BootType ==
  ASSUME TypeInv, BootApply \/ ApiRestart \/ PowerCut \/ LinkUp
  PROVE  TypeInv'
<1>1. CASE BootApply
  <2>1. JobOK'
    BY <1>1, BootApplyJob
  <2>2. ToldOK'
    BY <1>1, BootApplyJob DEF BootApply, TypeInv, ToldOK, told
  <2> QED BY <1>1, <2>1, <2>2 DEF BootApply, TypeInv, TreeOK, DeviceOK, FaultOK, device, tree, fault
<1>2. CASE ApiRestart
  BY <1>2, StoppedJobs DEF ApiRestart, Stopped, TypeInv, TreeOK, ToldOK, DeviceOK, FaultOK, device, tree, fault
<1>3. CASE PowerCut
  <2>1. TreeOK'
    BY <1>3, EmptyTree DEF PowerCut
  <2> QED BY <1>3, <2>1, StoppedJobs DEF PowerCut, Stopped, TypeInv, ToldOK, DeviceOK, FaultOK, device, fault
<1>4. CASE LinkUp
  <2>1. JobOK'
    BY <1>4 DEF LinkUp, TypeInv, JobOK, ProperJob
  <2> QED BY <1>4, <2>1 DEF LinkUp, TypeInv, TreeOK, ToldOK, DeviceOK, FaultOK, device, tree, told, fault
<1> QED BY <1>1, <1>2, <1>3, <1>4

\* The types hold at first.
LEMMA InitType == Init => TypeInv
<1> SUFFICES ASSUME Init PROVE TypeInv
  OBVIOUS
<1>1. JobOK
  <2>1. job \in Jobs /\ \A p \in Proc : job[p] = Idle
    BY EmptyTypes DEF Init, Jobs
  <2> QED BY <2>1, EmptyTypes DEF JobOK, ProperJob, ProperStream, ProperHook
<1>2. TreeOK
  BY EmptyTypes DEF Init, TreeOK
<1> QED BY <1>1, <1>2 DEF Init, TypeInv, ToldOK, DeviceOK, FaultOK

\* Every step keeps the types.
LEMMA StepType == TypeInv /\ [Next]_vars => TypeInv'
<1> SUFFICES ASSUME TypeInv, [Next]_vars PROVE TypeInv'
  OBVIOUS
<1>1. CASE UNCHANGED vars
  <2>1. JobOK'
    BY <1>1 DEF vars, TypeInv, JobOK, ProperJob
  <2> QED BY <1>1, <2>1 DEF vars, TypeInv, TreeOK, ToldOK, DeviceOK, FaultOK, device, tree, told, fault
<1>2. CASE OperatorStep
  BY <1>2, OperatorType
<1>3. ASSUME NEW s \in Stream, Wipe(s) \/ Root(s) \/ Snapshot(s) \/ NextDevice(s) \/ Verify(s) PROVE TypeInv'
  BY <1>3, StreamType
<1>4. ASSUME NEW p \in Proc, ClassAdd(p) \/ LeafAdd(p) \/ FilterAdd(p) PROVE TypeInv'
  BY <1>4, AddType
<1>5. CASE HookStep
  BY <1>5, HookType
<1>6. CASE BootApply \/ ApiRestart \/ PowerCut \/ LinkUp
  BY <1>6, BootType
<1> QED BY <1>1, <1>2, <1>3, <1>4, <1>5, <1>6 DEF Next, OperatorStep, HookStep

\* Whatever the streams, the hooks and the restarts interleave, a leaf belongs to a
\* class, the default class alone has the rate of the interface, and filters and
\* policing are those of devices at the rates of a rule per device.
THEOREM TypeCorrect == Spec => []TypeOK
<1>1. TypeInv => TypeOK
  BY DEF TypeInv, TreeOK, ToldOK, FaultOK, DeviceOK, JobOK, Jobs, TypeOK
<1> QED BY <1>1, InitType, StepType, PTL DEF Spec

-----------------------------------------------------------------------------
\* An apply is under way that no other process can make fail: it is about to wipe the
\* tree or has found it empty, it is the one to complete the default class, or it has
\* and only reports devices from here on.
AtWipe(s) == job[s].pc = "wipe"
AtRoot(s) == job[s].pc = "root" /\ root = "none"
AtDefault(s) ==
    job[s].pc = "class" /\ job[s].dev = Default /\ root = "htb" /\ Default \notin DOMAIN class
AtLeaf(s) == job[s].pc = "leaf" /\ job[s].dev = Default /\ Default \in DOMAIN class \ leaf
Past(s) ==
    \/ job[s].pc \in {"snapshot", "next", "filter", "verify"}
    \/ job[s].pc \in {"class", "leaf"} /\ job[s].dev # Default
Hopeful(s) == AtWipe(s) \/ AtRoot(s) \/ AtDefault(s) \/ AtLeaf(s) \/ Past(s)

\* A careful operator saves no rule while another one is applied.
SameRule == \A s \in Stream : job[s].pc \notin {"idle", "boot", "retry"} => job[s].rule = rule
\* Classes need the htb root.
Rooted == root # "htb" => DOMAIN class = {}
Hope == asked /\ faults = 0 => applied = rule \/ \E s \in Stream : Hopeful(s)
HopeInv == SameRule /\ Rooted /\ Hope

\* A stream whose job and tree are left alone keeps its hope.
LEMMA HopefulKept ==
  ASSUME NEW s \in Stream, Hopeful(s), job'[s] = job[s], UNCHANGED <<root, class, leaf>>
  PROVE  Hopeful(s)'
BY DEF Hopeful, AtWipe, AtRoot, AtDefault, AtLeaf, Past

\* One stream takes a step and works for the saved rule, or for none.
LEMMA SameRuleKept ==
  ASSUME SameRule, NEW p \in Proc, Others(p), rule' = rule,
         p \in Stream => job'[p].pc \in {"idle", "boot", "retry"} \/ job'[p].rule = rule
  PROVE  SameRule'
BY Processes DEF SameRule, Others

\* A command that fails is a fault.
LEMMA FaultHope ==
  ASSUME FaultOK, NEW S, Fault(S)
  PROVE  Hope'
BY DEF FaultOK, Fault, Hope

\* A process that has no hope to lose, or keeps it, keeps the others' as well.
LEMMA HopeKept ==
  ASSUME Hope, NEW p \in Proc, Others(p), NoFault, UNCHANGED <<rule, applied, asked>>,
         UNCHANGED <<root, class, leaf>>,
         p \in Stream /\ Hopeful(p) => Hopeful(p)'
  PROVE  Hope'
<1>1. ASSUME NEW s \in Stream, Hopeful(s) PROVE Hopeful(s)'
  <2>1. CASE s = p
    BY <1>1, <2>1
  <2>2. CASE s # p
    BY <1>1, <2>2, HopefulKept, Processes DEF Others
  <2> QED BY <2>1, <2>2
<1> QED BY <1>1 DEF Hope, NoFault, fault

\* What the operator does keeps the hope that a change is applied in the end.
LEMMA OperatorHope ==
  ASSUME Careful, TypeInv, HopeInv, OperatorStep
  PROVE  HopeInv'
<1>1. ASSUME NEW r \in Global, SaveQdisc(r) PROVE HopeInv'
  <2>1. \A s \in Stream : job[s].pc \in {"idle", "retry"}
    BY <1>1 DEF SaveQdisc, Applying
  <2> QED BY <1>1, <2>1 DEF SaveQdisc, HopeInv, SameRule, Rooted, Hope, tree
<1>2. ASSUME NEW s \in Request, ApplyQdisc(s) PROVE HopeInv'
  <2> DEFINE j == [job[s] EXCEPT !.pc = "wipe", !.rule = rule]
  <2>1. s \in Stream /\ s \in Proc /\ job \in Jobs /\ job[s] \in Job /\ rule \in Global
    BY <1>2, Processes DEF TypeInv, JobOK, Jobs, DeviceOK, ApplyQdisc
  <2>2. j \in Job /\ j.pc = "wipe" /\ j.rule = rule
    BY <2>1 DEF Job
  <2>3. job' = [job EXCEPT ![s] = j]
    BY <1>2, <2>1 DEF ApplyQdisc, Jobs
  <2> HIDE DEF j
  <2>4. job'[s] = j /\ Others(s)
    BY <2>1, <2>2, <2>3, OneJob
  <2>5. SameRule'
    BY <1>2, <2>1, <2>2, <2>4, SameRuleKept DEF HopeInv, ApplyQdisc
  <2>6. Hopeful(s)'
    BY <2>2, <2>4 DEF Hopeful, AtWipe
  <2> QED BY <1>2, <2>1, <2>5, <2>6 DEF ApplyQdisc, HopeInv, Hope, Rooted, tree
<1>3. ASSUME NEW m \in Device, NEW r \in Rate \cup {None}, Shape(m, r) PROVE HopeInv'
  <2>1. /\ DOMAIN class' \in {DOMAIN class, DOMAIN class \cup {m}}
        /\ root # "htb" => DOMAIN class' = DOMAIN class
    <3>1. CASE rule \in Rate /\ r # None
      BY <1>3, <3>1, ChangeType DEF Shape, TypeInv
    <3>2. CASE ~(rule \in Rate /\ r # None)
      BY <1>3, <3>2 DEF Shape
    <3> QED BY <3>1, <3>2
  <2>2. m # Default
    BY QdiscAssumption
  <2>3. UNCHANGED <<rule, root, leaf, job, told, fault>>
    BY <1>3 DEF Shape
  <2>4. \A s \in Stream : Hopeful(s) => Hopeful(s)'
    BY <2>1, <2>2, <2>3 DEF Hopeful, AtWipe, AtRoot, AtDefault, AtLeaf, Past
  <2>5. SameRule' /\ Rooted'
    BY <2>1, <2>3 DEF HopeInv, SameRule, Rooted
  <2> QED BY <2>3, <2>4, <2>5 DEF HopeInv, Hope, told, fault
<1> QED BY <1>1, <1>2, <1>3 DEF OperatorStep

\* An apply that has completed the default class, or works for cake, cannot fail but by
\* a fault; one that empties the tree or finds it empty has hope itself.
LEMMA StreamHope ==
  ASSUME TypeInv, HopeInv, NEW s \in Stream,
         Wipe(s) \/ Root(s) \/ Snapshot(s) \/ NextDevice(s) \/ Verify(s)
  PROVE  HopeInv'
<1>0. s \in Proc /\ job \in Jobs /\ job[s] \in Job /\ SameRule /\ Rooted /\ Hope /\ FaultOK
  BY Processes DEF TypeInv, JobOK, Jobs, HopeInv
<1>1. CASE Wipe(s)
  <2>1. Others(s) /\ job'[s].pc = "root" /\ job'[s].rule = rule
    BY <1>0, <1>1, SetJob DEF Wipe, Pc, SameRule
  <2>2. SameRule'
    BY <1>0, <1>1, <2>1, SameRuleKept DEF Wipe
  <2>3. CASE root' = "none" /\ class' = <<>> /\ NoFault
    <3>1. Rooted'
      BY <2>3, EmptyTypes DEF Rooted
    <3>2. Hopeful(s)'
      BY <2>1, <2>3 DEF Hopeful, AtRoot
    <3> QED BY <2>2, <3>1, <3>2 DEF HopeInv, Hope
  <2>4. CASE UNCHANGED <<root, class, leaf, filter>> /\ Fault(Device)
    <3>1. Rooted'
      BY <1>0, <2>4 DEF Rooted
    <3> QED BY <1>0, <2>2, <2>4, <3>1, FaultHope DEF HopeInv
  <2> QED BY <1>1, <2>3, <2>4 DEF Wipe
<1>2. CASE Root(s)
  <2>0. job[s].pc = "root" /\ job[s].rule = rule
    BY <1>0, <1>2 DEF Root, SameRule
  <2>1. CASE /\ root = "none" /\ job[s].rule = "cake" /\ root' = "cake" /\ Set(s, "verify")
             /\ NoFault
    <3>1. Others(s) /\ job'[s].pc = "verify" /\ job'[s].rule = rule
      BY <1>0, <2>0, <2>1, SetJob DEF Pc
    <3>2. SameRule'
      BY <1>0, <1>2, <3>1, SameRuleKept DEF Root
    <3>3. Rooted'
      BY <1>0, <1>2, <2>1 DEF Rooted, Root
    <3>4. Hopeful(s)'
      BY <3>1 DEF Hopeful, Past
    <3> QED BY <3>2, <3>3, <3>4 DEF HopeInv, Hope
  <2>2. CASE /\ root = "none" /\ job[s].rule # "cake" /\ root' = "htb"
             /\ job' = [job EXCEPT ![s].pc = "class", ![s].dev = Default] /\ NoFault
    <3> DEFINE j == [job[s] EXCEPT !.pc = "class", !.dev = Default]
    <3>1. j \in Job /\ j.pc = "class" /\ j.dev = Default /\ j.rule = rule
      BY <1>0, <2>0 DEF Job
    <3>2. job' = [job EXCEPT ![s] = j]
      BY <1>0, <2>2 DEF Jobs
    <3> HIDE DEF j
    <3>3. job'[s] = j /\ Others(s)
      BY <1>0, <3>1, <3>2, OneJob
    <3>4. SameRule'
      BY <1>0, <1>2, <3>1, <3>3, SameRuleKept DEF Root
    <3>5. Rooted' /\ Default \notin DOMAIN class'
      BY <1>0, <1>2, <2>2 DEF Rooted, Root
    <3>6. Hopeful(s)'
      BY <2>2, <3>1, <3>3, <3>5 DEF Hopeful, AtDefault
    <3> QED BY <3>4, <3>5, <3>6 DEF HopeInv, Hope
  <2>3. CASE /\ (root # "none" /\ NoFault) \/ Fault(Device)
             /\ Failed(s) /\ UNCHANGED root
    <3>1. Others(s) /\ job'[s].pc \in {"idle", "retry"}
      BY <1>0, <2>3, FailedJob
    <3>2. SameRule'
      BY <1>0, <1>2, <3>1, SameRuleKept DEF Root
    <3>3. Rooted'
      BY <1>0, <1>2, <2>3 DEF Rooted, Root
    <3>4. CASE Fault(Device)
      BY <1>0, <3>2, <3>3, <3>4, FaultHope DEF HopeInv
    <3>5. CASE root # "none" /\ NoFault
      <4>1. ~Hopeful(s)
        BY <2>0, <3>5 DEF Hopeful, AtWipe, AtRoot, AtDefault, AtLeaf, Past
      <4>2. UNCHANGED <<rule, applied, asked, root, class, leaf>>
        BY <1>2, <2>3 DEF Root, Failed, told
      <4> QED BY <1>0, <3>1, <3>2, <3>3, <3>5, <4>1, <4>2, HopeKept DEF HopeInv
    <3> QED BY <2>3, <3>4, <3>5
  <2> QED BY <1>2, <2>1, <2>2, <2>3 DEF Root
<1>3. ASSUME NEW pc \in Pc, Others(s), job'[s].pc = pc, job'[s].rule = job[s].rule,
             job[s].pc \notin {"idle", "boot", "retry"}, Hopeful(s)',
             UNCHANGED <<rule, tree, told, fault>>
      PROVE  HopeInv'
  <2>1. SameRule'
    BY <1>0, <1>3, SameRuleKept DEF SameRule
  <2>2. Rooted'
    BY <1>0, <1>3 DEF Rooted, tree
  <2> QED BY <1>3, <2>1, <2>2 DEF HopeInv, Hope
<1>4. CASE Snapshot(s)
  <2>1. PICK P \in SUBSET {m \in Device : session[m] = "paused"} :
          job' = [job EXCEPT ![s].pc = "next", ![s].todo = P \cup {m \in Device : session[m] = "active"}]
    BY <1>4 DEF Snapshot
  <2> DEFINE t == P \cup {m \in Device : session[m] = "active"}
             j == [job[s] EXCEPT !.pc = "next", !.todo = t]
  <2>2. j \in Job /\ j.pc = "next" /\ j.rule = job[s].rule
    BY <1>0 DEF Job
  <2>3. job' = [job EXCEPT ![s] = j]
    BY <1>0, <2>1 DEF Jobs
  <2> HIDE DEF j
  <2>4. job'[s] = j /\ Others(s) /\ job[s].pc = "snapshot"
    BY <1>0, <1>4, <2>2, <2>3, OneJob DEF Snapshot
  <2>5. Hopeful(s)'
    BY <2>2, <2>4 DEF Hopeful, Past
  <2> QED BY <1>3, <1>4, <2>2, <2>4, <2>5 DEF Snapshot, Pc
<1>5. CASE NextDevice(s)
  <2>0. job[s].pc = "next"
    BY <1>5 DEF NextDevice
  <2>1. CASE Set(s, "verify")
    <3>1. Others(s) /\ job'[s].pc = "verify" /\ job'[s].rule = job[s].rule
      BY <1>0, <2>1, SetJob DEF Pc
    <3>2. Hopeful(s)'
      BY <3>1 DEF Hopeful, Past
    <3> QED BY <1>3, <1>5, <2>0, <3>1, <3>2 DEF NextDevice, Pc
  <2>2. ASSUME NEW m \in job[s].todo,
               job' = [job EXCEPT ![s].pc = "class", ![s].dev = m, ![s].todo = job[s].todo \ {m}]
        PROVE  HopeInv'
    <3> DEFINE j == [job[s] EXCEPT !.pc = "class", !.dev = m, !.todo = job[s].todo \ {m}]
    <3>1. m \in Device /\ m # Default
      BY <1>0, QdiscAssumption DEF Job
    <3>2. j \in Job /\ j.pc = "class" /\ j.dev = m /\ j.rule = job[s].rule
      BY <1>0, <3>1 DEF Job
    <3>3. job' = [job EXCEPT ![s] = j]
      BY <1>0, <2>2 DEF Jobs
    <3> HIDE DEF j
    <3>4. job'[s] = j /\ Others(s)
      BY <1>0, <3>2, <3>3, OneJob
    <3>5. Hopeful(s)'
      BY <3>1, <3>2, <3>4 DEF Hopeful, Past
    <3> QED BY <1>3, <1>5, <2>0, <3>2, <3>4, <3>5 DEF NextDevice, Pc
  <2> QED BY <1>5, <2>1, <2>2 DEF NextDevice
<1>6. CASE Verify(s)
  <2>0. job[s].rule = rule
    BY <1>0, <1>6 DEF Verify, SameRule
  <2>1. Rooted'
    BY <1>0, <1>6 DEF Verify, Rooted, tree
  <2>2. CASE Done(s) /\ NoFault
    <3>1. Others(s) /\ job'[s].pc = "idle"
      BY <1>0, <2>2, FreeJob, EmptyTypes DEF Done
    <3>2. SameRule'
      BY <1>0, <1>6, <3>1, SameRuleKept DEF Verify
    <3> QED BY <1>6, <2>0, <2>1, <2>2, <3>2 DEF Verify, Done, HopeInv, Hope
  <2>3. CASE Failed(s) /\ Fault({})
    <3>1. Others(s) /\ job'[s].pc \in {"idle", "retry"}
      BY <1>0, <2>3, FailedJob
    <3>2. SameRule'
      BY <1>0, <1>6, <3>1, SameRuleKept DEF Verify
    <3> QED BY <1>0, <2>1, <2>3, <3>2, FaultHope DEF HopeInv
  <2> QED BY <1>6, <2>2, <2>3 DEF Verify
<1> QED BY <1>1, <1>2, <1>4, <1>5, <1>6

\* Only the default class matters to the hope of a stream that waits.
LEMMA HopefulBeside ==
  ASSUME NEW s \in Stream, Hopeful(s), job'[s] = job[s], root' = root,
         Default \in DOMAIN class' <=> Default \in DOMAIN class, Default \in leaf' <=> Default \in leaf
  PROVE  Hopeful(s)'
BY DEF Hopeful, AtWipe, AtRoot, AtDefault, AtLeaf, Past

\* A step beside the rule keeps the hope of a stream that was hopeful.
LEMMA HopeBeside ==
  ASSUME Hope, NoFault, UNCHANGED <<rule, applied, asked>>,
         \A s \in Stream : Hopeful(s) => Hopeful(s)'
  PROVE  Hope'
BY DEF Hope, NoFault, fault

\* A refused command ends an apply only where it had no hope, or after a fault.
LEMMA RefusedHope ==
  ASSUME TypeInv, HopeInv, NEW p \in Proc, NEW allowed \in BOOLEAN, Refused(p, allowed),
         job[p].pc \in {"class", "leaf", "filter"},
         p \in Stream /\ job[p].dev = Default /\ Hopeful(p) => allowed
  PROVE  HopeInv'
<1>0. job \in Jobs /\ ProperJob(p) /\ SameRule /\ Rooted /\ Hope /\ FaultOK
  BY DEF TypeInv, JobOK, Jobs, HopeInv
<1>1. Rooted'
  BY <1>0 DEF Refused, Rooted, tree
<1>2. Skip(p) /\ UNCHANGED <<rule, root, class, leaf>>
  BY DEF Refused, tree
<1>3. CASE p \in Stream /\ job[p].dev = Default
  <2>1. Failed(p)
    BY <1>2, <1>3, Processes DEF Skip
  <2>2. Others(p) /\ job'[p].pc \in {"idle", "retry"} /\ UNCHANGED <<applied, asked>>
    BY <1>0, <1>3, <2>1, FailedJob DEF Failed, told
  <2>3. SameRule'
    BY <1>0, <1>2, <2>2, SameRuleKept
  <2>4. CASE ~allowed /\ NoFault
    BY <1>0, <1>1, <1>2, <1>3, <2>2, <2>3, <2>4, HopeKept DEF HopeInv
  <2>5. ASSUME NEW S, Fault(S) PROVE HopeInv'
    BY <1>0, <1>1, <2>3, <2>5, FaultHope DEF HopeInv
  <2> QED BY <2>4, <2>5 DEF Refused
<1>4. CASE p \in Stream /\ job[p].dev # Default
  <2>1. Set(p, "next") /\ UNCHANGED <<applied, asked>>
    BY <1>2, <1>4, Processes DEF Skip
  <2>2. Others(p) /\ job'[p].pc = "next" /\ job'[p].rule = job[p].rule
    BY <1>0, <2>1, SetJob DEF Pc
  <2>3. SameRule'
    BY <1>0, <1>2, <1>4, <2>2, SameRuleKept DEF SameRule
  <2>4. Hopeful(p)'
    BY <2>2 DEF Hopeful, Past
  <2> QED BY <1>1, <1>4, <2>3, <2>4 DEF HopeInv, Hope
<1>5. CASE p \notin Stream
  <2>1. Free(p) /\ UNCHANGED <<applied, asked>>
    BY <1>2, <1>5, Processes DEF Skip, told
  <2>2. Others(p)
    BY <1>0, <2>1, FreeJob
  <2>3. SameRule'
    BY <1>0, <1>2, <1>5, <2>2, SameRuleKept
  <2>4. CASE ~allowed /\ NoFault
    BY <1>0, <1>1, <1>2, <1>5, <2>1, <2>2, <2>3, <2>4, HopeKept DEF HopeInv
  <2>5. ASSUME NEW S, Fault(S) PROVE HopeInv'
    BY <1>0, <1>1, <2>3, <2>5, FaultHope DEF HopeInv
  <2> QED BY <2>4, <2>5 DEF Refused
<1> QED BY <1>3, <1>4, <1>5

\* Only the stream that adds the default class has a claim on it.
LEMMA AddHope ==
  ASSUME TypeInv, HopeInv, NEW p \in Proc, ClassAdd(p) \/ LeafAdd(p) \/ FilterAdd(p)
  PROVE  HopeInv'
<1>0. /\ job \in Jobs /\ ProperJob(p) /\ SameRule /\ Rooted /\ Hope /\ TreeOK
      /\ p \in Stream => ProperStream(job[p])
      /\ p \notin Stream => p \in Hook /\ ProperHook(p, job[p]) /\ p[1] \in Device
  BY Processes DEF TypeInv, JobOK, Jobs, HopeInv, ProperJob
<1>1. Default \notin Device
  BY QdiscAssumption
<1>2. CASE ClassAdd(p)
  <2> DEFINE id == job[p].dev
             allowed == root = "htb" /\ id \notin DOMAIN class
  <2>0. job[p].pc = "class"
    BY <1>2 DEF ClassAdd
  <2>1. CASE Refused(p, allowed)
    <3>1. allowed \in BOOLEAN
      OBVIOUS
    <3>2. p \in Stream /\ job[p].dev = Default /\ Hopeful(p) => allowed
      BY <2>0 DEF Hopeful, AtWipe, AtRoot, AtDefault, AtLeaf, Past
    <3> HIDE DEF allowed
    <3> QED BY <2>0, <2>1, <3>1, <3>2, RefusedHope
  <2>2. CASE /\ allowed /\ class' = ClassWith(id, RateOf(job[p])) /\ Set(p, "leaf")
             /\ UNCHANGED <<rule, root, leaf, told, fault>>
    <3>1. Others(p) /\ job'[p].pc = "leaf" /\ job'[p].rule = job[p].rule /\ job'[p].dev = id
      BY <1>0, <2>2, SetJob DEF Pc
    <3>2. DOMAIN class' = DOMAIN class \cup {id}
      BY <1>0, <2>2, ClassAdded
    <3>3. SameRule'
      BY <1>0, <2>0, <2>2, <3>1, SameRuleKept DEF SameRule
    <3>4. Rooted'
      BY <2>2 DEF Rooted
    <3>5. CASE id = Default
      <4>1. p \in Stream
        BY <1>0, <1>1, <2>0, <3>5 DEF ProperHook
      <4>2. Hopeful(p)'
        BY <1>0, <2>2, <3>1, <3>2, <3>5 DEF Hopeful, AtLeaf, TreeOK
      <4> QED BY <3>3, <3>4, <4>1, <4>2 DEF HopeInv, Hope
    <3>6. CASE id # Default
      <4>1. ASSUME NEW s \in Stream, Hopeful(s) PROVE Hopeful(s)'
        <5>1. CASE s = p
          BY <3>1, <3>6, <5>1 DEF Hopeful, Past
        <5>2. CASE s # p
          BY <2>2, <3>1, <3>2, <3>6, <4>1, <5>2, HopefulBeside, Processes DEF Others
        <5> QED BY <5>1, <5>2
      <4> QED BY <1>0, <2>2, <3>3, <3>4, <4>1, HopeBeside DEF HopeInv, told, NoFault
    <3> QED BY <3>5, <3>6
  <2> QED BY <1>2, <2>1, <2>2 DEF ClassAdd
<1>3. CASE LeafAdd(p)
  <2> DEFINE id == job[p].dev
             allowed == id \in DOMAIN class \ leaf
             next == IF id # Default THEN "filter"
                     ELSE IF job[p].rule = "global" THEN "verify" ELSE "snapshot"
  <2>0. job[p].pc = "leaf"
    BY <1>3 DEF LeafAdd
  <2>1. CASE Refused(p, allowed)
    <3>1. allowed \in BOOLEAN
      OBVIOUS
    <3>2. p \in Stream /\ job[p].dev = Default /\ Hopeful(p) => allowed
      BY <2>0 DEF Hopeful, AtWipe, AtRoot, AtDefault, AtLeaf, Past
    <3> HIDE DEF allowed
    <3> QED BY <2>0, <2>1, <3>1, <3>2, RefusedHope
  <2>2. CASE /\ leaf' = leaf \cup {id} /\ Set(p, next)
             /\ UNCHANGED <<rule, root, class, told, fault>>
    <3>1. Others(p) /\ job'[p].pc = next /\ job'[p].rule = job[p].rule /\ job'[p].dev = id
      BY <1>0, <2>2, SetJob DEF Pc
    <3>3. SameRule'
      BY <1>0, <2>0, <2>2, <3>1, SameRuleKept DEF SameRule
    <3>4. Rooted'
      BY <1>0, <2>2 DEF Rooted
    <3>5. Hopeful(p)'
      BY <3>1 DEF Hopeful, Past
    <3>6. CASE id = Default
      <4>1. p \in Stream
        BY <1>0, <1>1, <2>0, <3>6 DEF ProperHook
      <4> QED BY <3>3, <3>4, <3>5, <4>1 DEF HopeInv, Hope
    <3>7. CASE id # Default
      <4>1. ASSUME NEW s \in Stream, Hopeful(s) PROVE Hopeful(s)'
        <5>1. CASE s = p
          BY <3>5, <5>1
        <5>2. CASE s # p
          BY <2>2, <3>1, <3>7, <4>1, <5>2, HopefulBeside, Processes DEF Others
        <5> QED BY <5>1, <5>2
      <4> QED BY <1>0, <2>2, <3>3, <3>4, <4>1, HopeBeside DEF HopeInv, told, NoFault
    <3> QED BY <3>6, <3>7
  <2> QED BY <1>3, <2>1, <2>2 DEF LeafAdd
<1>4. CASE FilterAdd(p)
  <2> DEFINE allowed == root = "htb"
  <2>0. job[p].pc = "filter"
    BY <1>4 DEF FilterAdd
  <2>1. CASE Refused(p, allowed)
    <3>1. allowed \in BOOLEAN
      OBVIOUS
    <3>2. p \in Stream => job[p].dev # Default
      BY <1>0, <1>1, <2>0 DEF ProperStream
    <3> HIDE DEF allowed
    <3> QED BY <2>0, <2>1, <3>1, <3>2, RefusedHope
  <2>2. CASE /\ IF p \in Stream THEN Set(p, "next") ELSE Free(p)
             /\ UNCHANGED <<rule, root, class, leaf, told, fault>>
    <3>1. Others(p) /\ (p \in Stream => job'[p].pc = "next" /\ job'[p].rule = job[p].rule)
      <4>1. CASE p \in Stream
        BY <1>0, <2>2, <4>1, SetJob DEF Pc
      <4>2. CASE p \notin Stream
        BY <1>0, <2>2, <4>2, FreeJob
      <4> QED BY <4>1, <4>2
    <3>2. SameRule'
      BY <1>0, <2>0, <2>2, <3>1, SameRuleKept DEF SameRule
    <3>3. Rooted'
      BY <1>0, <2>2 DEF Rooted
    <3>4. p \in Stream => Hopeful(p)'
      BY <3>1 DEF Hopeful, Past
    <3> QED BY <1>0, <2>2, <3>1, <3>2, <3>3, <3>4, HopeKept DEF HopeInv, told, NoFault
  <2> QED BY <1>4, <2>1, <2>2 DEF FilterAdd
<1> QED BY <1>2, <1>3, <1>4

\* The hooks work on the classes of devices.
LEMMA HookHope ==
  ASSUME TypeInv, HopeInv, HookStep
  PROVE  HopeInv'
<1>0. job \in Jobs /\ SameRule /\ Rooted /\ Hope /\ FaultOK /\ JobOK
  BY DEF TypeInv, JobOK, HopeInv
<1>1. ASSUME NEW m \in Device, NEW act \in {"add", "remove"}, HookAfter(m, act) PROVE HopeInv'
  <2> DEFINE h == <<m, act>>
  <2>1. h \in Hook /\ h \in Proc /\ h \notin Stream
    BY Processes DEF Hook
  <2>2. Others(h)
    BY <1>0, <1>1, HookAfterType
  <2> HIDE DEF h
  <2>3. SameRule'
    BY <1>0, <1>1, <2>1, <2>2, SameRuleKept DEF HookAfter
  <2>4. Rooted'
    BY <1>0, <1>1 DEF HookAfter, Rooted, tree
  <2>5. NoFault /\ UNCHANGED <<rule, applied, asked, root, class, leaf>>
    BY <1>1 DEF HookAfter, told, tree, NoFault
  <2> QED BY <1>0, <2>1, <2>2, <2>3, <2>4, <2>5, HopeKept DEF HopeInv
<1>2. ASSUME NEW m \in Device, SessionStarts(m) \/ \E to \in {"none", "paused"} : SessionStops(m, to)
      PROVE  HopeInv'
  BY <1>1, <1>2 DEF SessionStarts, SessionStops
<1>3. ASSUME NEW h \in Hook, HookRead(h) \/ Unfilter(h) \/ Unclass(h)
      PROVE  HopeInv'
  <2>0. h \in Proc /\ h \notin Stream /\ h[1] \in Device /\ h[1] # Default /\ job[h] \in Job
    BY <1>0, Processes, QdiscAssumption DEF Jobs
  <2>1. Others(h)
    <3>1. CASE Free(h)
      BY <1>0, <2>0, <3>1, FreeJob
    <3>2. CASE Set(h, "unclass")
      BY <1>0, <2>0, <3>2, SetJob DEF Pc
    <3>3. CASE job' = [job EXCEPT ![h].pc = IF h[2] = "add" THEN "class" ELSE "unfilter",
                                  ![h].rule = rule, ![h].dev = h[1]]
      BY <1>0, <2>0, <3>3 DEF Jobs, Others
    <3> QED BY <1>3, <3>1, <3>2, <3>3 DEF HookRead, Unfilter, Unclass
  <2>2. UNCHANGED <<rule, root, applied, asked>>
    BY <1>3 DEF HookRead, Unfilter, Unclass, tree, told
  <2>3. SameRule'
    BY <1>0, <2>0, <2>1, <2>2, SameRuleKept
  <2>4. /\ DOMAIN class' \subseteq DOMAIN class
        /\ Default \in DOMAIN class' <=> Default \in DOMAIN class
        /\ Default \in leaf' <=> Default \in leaf
    <3>1. CASE UNCHANGED class
      BY <1>3, <2>0, <3>1 DEF HookRead, Unfilter, Unclass, tree
    <3>2. CASE class' = Restrict(class, DOMAIN class \ {h[1]}) /\ leaf' = leaf \ {h[1]}
      BY <2>0, <3>2 DEF Restrict
    <3> QED BY <1>3, <3>1, <3>2 DEF HookRead, Unfilter, Unclass, tree
  <2>5. Rooted'
    BY <1>0, <2>2, <2>4 DEF Rooted
  <2>6. CASE NoFault
    <3>1. \A s \in Stream : Hopeful(s) => Hopeful(s)'
      BY <2>0, <2>1, <2>2, <2>4, HopefulBeside, Processes DEF Others
    <3> QED BY <1>0, <2>2, <2>3, <2>5, <2>6, <3>1, HopeBeside DEF HopeInv
  <2>7. ASSUME NEW S, Fault(S) PROVE HopeInv'
    BY <1>0, <2>3, <2>5, <2>7, FaultHope DEF HopeInv
  <2>8. HookRead(h) => NoFault
    BY DEF HookRead, NoFault
  <2>9. Unfilter(h) \/ Unclass(h) => NoFault \/ Fault({h[1]})
    BY DEF Unfilter, Unclass
  <2> QED BY <1>3, <2>6, <2>7, <2>8, <2>9
<1> QED BY <1>2, <1>3 DEF HookStep

\* Boots, restarts and the link coming up keep the hope.
LEMMA BootHope ==
  ASSUME TypeInv, HopeInv, BootApply \/ ApiRestart \/ PowerCut \/ LinkUp
  PROVE  HopeInv'
<1>0. Boot \in Stream /\ Boot \in Proc /\ SameRule /\ Rooted /\ Hope
  BY Processes DEF HopeInv
<1>1. CASE BootApply
  <2>1. NoFault /\ UNCHANGED <<rule, root, class, leaf>> /\ Others(Boot)
    BY <1>1, BootApplyJob DEF BootApply, NoFault, tree
  <2>2. Rooted'
    BY <1>0, <2>1 DEF Rooted
  <2>3. CASE job'[Boot].pc \in {"idle", "retry"} /\ UNCHANGED told
    <3>1. ~Hopeful(Boot)
      BY <1>1 DEF BootApply, Hopeful, AtWipe, AtRoot, AtDefault, AtLeaf, Past
    <3> QED BY <1>0, <2>1, <2>2, <2>3, <3>1, SameRuleKept, HopeKept DEF HopeInv, told
  <2>4. CASE job'[Boot].pc = "wipe" /\ job'[Boot].rule = rule
    <3>1. Hopeful(Boot)'
      BY <2>4 DEF Hopeful, AtWipe
    <3>2. SameRule'
      BY <1>0, <2>1, <2>4, SameRuleKept
    <3> QED BY <1>0, <2>2, <3>1, <3>2 DEF HopeInv, Hope
  <2> QED BY <1>1, <2>3, <2>4, BootApplyJob
<1>2. CASE ApiRestart \/ PowerCut
  <2>1. asked' = FALSE
    BY <1>2 DEF ApiRestart, PowerCut, Stopped
  <2>2. SameRule'
    BY <1>2, StoppedJobs, Processes DEF ApiRestart, PowerCut, SameRule
  <2>3. Rooted'
    BY <1>0, <1>2, EmptyTypes DEF ApiRestart, PowerCut, Rooted, tree
  <2> QED BY <2>1, <2>2, <2>3 DEF HopeInv, Hope
<1>3. CASE LinkUp
  <2>1. UNCHANGED <<rule, root, class, leaf, job, applied, asked>> /\ NoFault
    BY <1>3 DEF LinkUp, tree, told, NoFault
  <2>2. \A s \in Stream : Hopeful(s) => Hopeful(s)'
    BY <2>1, HopefulKept
  <2> QED BY <1>0, <2>1, <2>2, HopeBeside DEF HopeInv, SameRule, Rooted
<1> QED BY <1>1, <1>2, <1>3

\* A careful operator has an apply for whom there is hope.
LEMMA HopeHolds ==
  ASSUME Careful
  PROVE  Spec => [](TypeInv /\ HopeInv)
<1>1. Init => HopeInv
  BY EmptyTypes DEF Init, HopeInv, SameRule, Rooted, Hope, Stream, Proc
<1>2. TypeInv /\ HopeInv /\ [Next]_vars => HopeInv'
  <2> SUFFICES ASSUME TypeInv, HopeInv, [Next]_vars PROVE HopeInv'
    OBVIOUS
  <2>1. CASE UNCHANGED vars
    <3>1. UNCHANGED <<rule, root, class, leaf, job, applied, asked>> /\ NoFault
      BY <2>1 DEF vars, tree, told, fault, NoFault
    <3>2. \A s \in Stream : Hopeful(s) => Hopeful(s)'
      BY <3>1, HopefulKept
    <3>3. Hope'
      BY <3>1, <3>2, HopeBeside DEF HopeInv
    <3> QED BY <3>1, <3>3 DEF HopeInv, SameRule, Rooted
  <2>2. CASE OperatorStep
    BY <2>2, OperatorHope
  <2>3. ASSUME NEW s \in Stream, Wipe(s) \/ Root(s) \/ Snapshot(s) \/ NextDevice(s) \/ Verify(s)
        PROVE  HopeInv'
    BY <2>3, StreamHope
  <2>4. ASSUME NEW p \in Proc, ClassAdd(p) \/ LeafAdd(p) \/ FilterAdd(p) PROVE HopeInv'
    BY <2>4, AddHope
  <2>5. CASE HookStep
    BY <2>5, HookHope
  <2>6. CASE BootApply \/ ApiRestart \/ PowerCut \/ LinkUp
    BY <2>6, BootHope
  <2> QED BY <2>1, <2>2, <2>3, <2>4, <2>5, <2>6 DEF Next, OperatorStep, HookStep
<1> QED BY <1>1, <1>2, InitType, StepType, PTL DEF Spec

\* When the operator saves a rule only while none is being applied, an apply that meets
\* no failing command ends with the saved rule applied: whichever streams wipe and
\* refuse each other, one of them always has hope.
THEOREM AppliedInTheEnd ==
  ASSUME Careful
  PROVE  Spec => []AppliedWhenAsked
<1>1. HopeInv => AppliedWhenAsked
  <2> SUFFICES ASSUME HopeInv, Quiet, asked, faults = 0 PROVE applied = rule
    BY DEF AppliedWhenAsked
  <2>1. \A s \in Stream : job[s].pc = "idle"
    BY Processes, EmptyTypes DEF Quiet
  <2>2. \A s \in Stream : ~Hopeful(s)
    BY <2>1 DEF Hopeful, AtWipe, AtRoot, AtDefault, AtLeaf, Past
  <2> QED BY <2>2 DEF HopeInv, Hope
<1> QED BY <1>1, HopeHolds, PTL

-----------------------------------------------------------------------------
\* Every device is capped

AddHook(m) == <<m, "add">>
RemoveHook(m) == <<m, "remove">>

\* The rule is one per device, and applied, or being applied to a tree that was emptied.
Building == \E s \in Stream : job[s].pc \notin {"idle", "boot", "retry", "wipe"}
Capping == rule \in Rate /\ (applied \in Rate \/ Building)
\* Stream s has still to ask who has a session, or to add the class of m.
Awaits(s, m) ==
    \/ AtWipe(s) \/ AtRoot(s) \/ AtDefault(s) \/ AtLeaf(s) \/ job[s].pc = "snapshot"
    \/ job[s].pc = "class" /\ job[s].dev = m
    \/ /\ job[s].pc = "next" \/ (job[s].pc \in {"class", "leaf", "filter"} /\ job[s].dev # Default)
       /\ m \in job[s].todo
Awaited(m) == \E s \in Stream : Awaits(s, m)
\* Process p is past the class of m; the filter is the next command but one, or the next.
Halfway(p, m) == job[p].pc \in {"leaf", "filter"} /\ job[p].dev = m
Laying(p, m) == Halfway(p, m) /\ (job[p].pc = "leaf" => m \in DOMAIN class \ leaf)
\* A hook is about to add the class of m at the rate of an earlier rule.
Stale(m) == job[AddHook(m)].pc = "class" /\ job[AddHook(m)].rule # rule
Wrong(m) == m \in DOMAIN class /\ class[m] # rule
\* The hook that removes the class of m will find no filter on it.
Going(m) ==
    \/ job[RemoveHook(m)].pc \in {"read", "unfilter"}
    \/ job[RemoveHook(m)].pc = "unclass" /\ m \notin filter

\* Requests are alone, a hook belongs to the state of its session, and a rule is
\* saved only when the boot is over.
LoneInv ==
    /\ \A r \in Request : (job[r].pc # "idle" => mu = r) /\ ~job[r].again
    /\ \A m \in Device : /\ job[AddHook(m)].pc # "idle" => session[m] = "active"
                         /\ job[RemoveHook(m)].pc # "idle" => session[m] # "active"
    /\ (\E m \in Device : Stale(m)) => job[Boot].pc = "idle"
    /\ applied \in {None, rule}

\* The tree has its root, or a stream is about to add it.
RootInv == Capping => root = "htb" \/ \E s \in Stream : AtRoot(s)
\* A stale hook finds the class added, or a stream will report the device.
StaleInv(m) ==
    Stale(m) => /\ \A s \in Stream : Halfway(s, m) => m \in DOMAIN class
                /\ Capping => m \in DOMAIN class \/ Awaited(m)
\* A class has its filter, gets it, or goes.
FilterInv(m) ==
    /\ m \in filter => m \in {x[1] : x \in police}
    /\ Capping /\ m \in DOMAIN class =>
         m \in filter \/ (\E p \in Proc : Laying(p, m)) \/ job[RemoveHook(m)].pc = "unclass"
\* A device with a session has its class, or somebody will add it.
ClassInv(m) ==
    Capping /\ session[m] = "active" =>
        m \in DOMAIN class \/ Awaited(m) \/ job[AddHook(m)].pc \in {"read", "class"}
\* A class at a rate that is neither the rule's nor the override of the session goes,
\* or is reported; the stream that adds filters does not think it is its own.
RateInv(m) ==
    Capping /\ Wrong(m) =>
        /\ \A s \in Stream : ~Halfway(s, m)
        /\ \/ \E s \in Stream : AtWipe(s)
           \/ session[m] = "active" /\ Awaited(m)
           \/ Going(m) \/ m \in reported
           \/ ~Building /\ override[m] \in {class[m], "cleared"}
CappedInv(m) == RootInv /\ StaleInv(m) /\ FilterInv(m) /\ ClassInv(m) /\ RateInv(m)
CapInv == LoneInv /\ \A m \in Device \ touched : CappedInv(m)

\* The two hooks of each device.
LEMMA TwoHooks ==
  /\ \A m \in Device : /\ AddHook(m) \in Hook /\ AddHook(m) \in Proc /\ AddHook(m) \notin Stream
                       /\ RemoveHook(m) \in Hook /\ RemoveHook(m) \in Proc /\ RemoveHook(m) \notin Stream
                       /\ AddHook(m)[1] = m /\ AddHook(m)[2] = "add"
                       /\ RemoveHook(m)[1] = m /\ RemoveHook(m)[2] = "remove"
                       /\ AddHook(m) # RemoveHook(m)
  /\ \A h \in Hook : \/ h = AddHook(h[1]) /\ h[2] = "add"
                     \/ h = RemoveHook(h[1]) /\ h[2] = "remove"
BY Processes DEF AddHook, RemoveHook, Hook

\* A stream takes a step; hooks wait.
LEMMA LoneStream ==
  ASSUME LoneInv, NEW s \in Stream, Others(s), UNCHANGED <<rule, session>>, applied' \in {None, rule},
         s \in Request => (job'[s].pc # "idle" => mu' = s) /\ ~job'[s].again,
         s = Boot => job[s].pc # "idle",
         \A r \in Request \ {s} : mu = r => mu' = r
  PROVE  LoneInv'
<1>1. \A m \in Device : job'[AddHook(m)] = job[AddHook(m)] /\ job'[RemoveHook(m)] = job[RemoveHook(m)]
  BY TwoHooks DEF Others
<1>2. \A r \in Request : (job'[r].pc # "idle" => mu' = r) /\ ~job'[r].again
  BY Processes DEF LoneInv, Others
<1>3. \A m \in Device : Stale(m)' => Stale(m)
  BY <1>1 DEF Stale
<1>4. (\E m \in Device : Stale(m)') => job'[Boot].pc = "idle"
  BY <1>3, Processes DEF LoneInv, Others
<1> QED BY <1>1, <1>2, <1>4 DEF LoneInv

\* A hook goes on, and reads no rule but the saved one.
LEMMA LoneHook ==
  ASSUME LoneInv, NEW h \in Hook, Others(h), UNCHANGED <<rule, session, mu, applied>>, job[h].pc # "idle",
         job'[h].pc = "class" => job'[h].rule = rule
  PROVE  LoneInv'
<1>1. \A s \in Stream : job'[s] = job[s]
  BY Processes DEF Others
<1>2. \A m \in Device : job'[AddHook(m)].pc # "idle" => job[AddHook(m)].pc # "idle"
  BY TwoHooks DEF Others
<1>3. \A m \in Device : job'[RemoveHook(m)].pc # "idle" => job[RemoveHook(m)].pc # "idle"
  BY TwoHooks DEF Others
<1>4. \A m \in Device : Stale(m)' => Stale(m)
  BY TwoHooks DEF Stale, Others
<1> QED BY <1>1, <1>2, <1>3, <1>4, Processes DEF LoneInv

\* What the commands of a stream do to its job.
LEMMA FailedIs ==
  ASSUME job \in Jobs, NEW s \in Stream, Failed(s)
  PROVE  /\ Others(s) /\ UNCHANGED told /\ job'[s].pc \in {"idle", "retry"}
         /\ job'[s].again => job[s].again
         /\ job'[s].pc = "retry" => job[s].again
         /\ mu' = IF mu = s THEN None ELSE mu
<1>1. CASE job[s].again /\ Set(s, "retry")
  BY <1>1, SetJob, Processes DEF Pc, Failed, Unlock
<1>2. CASE Free(s)
  BY <1>2, FreeJob, Processes DEF Failed, Unlock, Idle
<1> QED BY <1>1, <1>2 DEF Failed

\* ... the root of the tree.
LEMMA RootIs ==
  ASSUME job \in Jobs, NEW s \in Stream, Root(s)
  PROVE  /\ job[s].pc = "root" /\ Others(s)
         /\ \/ /\ root = "none" /\ NoFault /\ UNCHANGED <<mu, told>>
               /\ job'[s].again = job[s].again
               /\ \/ job[s].rule = "cake" /\ root' = "cake" /\ job'[s].pc = "verify"
                  \/ job[s].rule # "cake" /\ root' = "htb" /\ job'[s].pc = "class" /\ job'[s].dev = Default
            \/ (root # "none" \/ Fault(Device)) /\ Failed(s) /\ root' = root
         /\ root # "none" => Failed(s) /\ root' = root
         /\ UNCHANGED <<rule, session, override, class, leaf, filter, police>>
<1>0. s \in Proc /\ job[s] \in Job /\ job[s].pc = "root"
  BY Processes DEF Jobs, Root
<1>1. CASE root = "none" /\ job[s].rule = "cake" /\ Set(s, "verify") /\ NoFault /\ root' = "cake"
           /\ UNCHANGED <<mu, told>>
  BY <1>0, <1>1, SetJob DEF Root, Pc, device
<1>2. CASE /\ root = "none" /\ job[s].rule # "cake" /\ root' = "htb" /\ NoFault /\ UNCHANGED <<mu, told>>
           /\ job' = [job EXCEPT ![s].pc = "class", ![s].dev = Default]
  <2> DEFINE j == [job[s] EXCEPT !.pc = "class", !.dev = Default]
  <2>1. j \in Job /\ j.pc = "class" /\ j.dev = Default /\ j.again = job[s].again
    BY <1>0 DEF Job
  <2>2. job' = [job EXCEPT ![s] = j]
    BY <1>0, <1>2 DEF Jobs
  <2> HIDE DEF j
  <2>3. job'[s] = j /\ Others(s)
    BY <1>0, <2>1, <2>2, OneJob
  <2> QED BY <1>0, <1>2, <2>1, <2>3 DEF Root, device
<1>3. CASE ((root # "none" /\ NoFault) \/ Fault(Device)) /\ Failed(s) /\ UNCHANGED root
  BY <1>0, <1>3, FailedIs DEF Root, device
<1> QED BY <1>1, <1>2, <1>3 DEF Root

\* ... the devices with a session.
LEMMA SnapshotIs ==
  ASSUME job \in Jobs, NEW s \in Stream, Snapshot(s)
  PROVE  /\ job[s].pc = "snapshot" /\ Others(s) /\ job'[s].pc = "next" /\ job'[s].again = job[s].again
         /\ \A m \in Device : session[m] = "active" => m \in job'[s].todo
<1>1. PICK P \in SUBSET {m \in Device : session[m] = "paused"} :
        job' = [job EXCEPT ![s].pc = "next", ![s].todo = P \cup {m \in Device : session[m] = "active"}]
  BY DEF Snapshot
<1> DEFINE t == P \cup {m \in Device : session[m] = "active"}
           j == [job[s] EXCEPT !.pc = "next", !.todo = t]
<1>2. s \in Proc /\ job[s] \in Job /\ job[s].pc = "snapshot"
  BY Processes DEF Jobs, Snapshot
<1>3. j \in Job /\ j.pc = "next" /\ j.todo = t /\ j.again = job[s].again
  BY <1>2 DEF Job
<1>4. job' = [job EXCEPT ![s] = j]
  BY <1>1, <1>2 DEF Jobs
<1> HIDE DEF j
<1>5. job'[s] = j /\ Others(s)
  BY <1>2, <1>3, <1>4, OneJob
<1> QED BY <1>2, <1>3, <1>5

\* ... the next of them.
LEMMA NextIs ==
  ASSUME job \in Jobs, NEW s \in Stream, NextDevice(s)
  PROVE  /\ job[s].pc = "next" /\ Others(s) /\ job'[s].again = job[s].again
         /\ \/ job[s].todo = {} /\ job'[s].pc = "verify"
            \/ /\ job'[s].pc = "class" /\ job'[s].dev \in Device
               /\ job'[s].todo = job[s].todo \ {job'[s].dev}
<1>0. s \in Proc /\ job[s] \in Job /\ job[s].pc = "next"
  BY Processes DEF Jobs, NextDevice
<1>1. CASE job[s].todo = {} /\ Set(s, "verify")
  BY <1>0, <1>1, SetJob DEF Pc
<1>2. ASSUME NEW m \in job[s].todo,
             job' = [job EXCEPT ![s].pc = "class", ![s].dev = m, ![s].todo = job[s].todo \ {m}]
      PROVE  /\ Others(s) /\ job'[s].pc = "class" /\ job'[s].dev = m /\ m \in Device
             /\ job'[s].todo = job[s].todo \ {m} /\ job'[s].again = job[s].again
  <2> DEFINE j == [job[s] EXCEPT !.pc = "class", !.dev = m, !.todo = job[s].todo \ {m}]
  <2>1. /\ j \in Job /\ j.pc = "class" /\ j.dev = m /\ m \in Device
        /\ j.todo = job[s].todo \ {m} /\ j.again = job[s].again
    BY <1>0 DEF Job
  <2>2. job' = [job EXCEPT ![s] = j]
    BY <1>0, <1>2 DEF Jobs
  <2> HIDE DEF j
  <2>3. job'[s] = j /\ Others(s)
    BY <1>0, <2>1, <2>2, OneJob
  <2> QED BY <2>1, <2>3
<1> QED BY <1>0, <1>1, <1>2 DEF NextDevice

\* A request that gets the mutex starts with the saved rule.
LEMMA ApplyIs ==
  ASSUME TypeInv, NEW s \in Request, ApplyQdisc(s)
  PROVE  /\ job[s] = Idle /\ Others(s) /\ job'[s].pc = "wipe" /\ job'[s].rule = rule
         /\ ~job'[s].again /\ mu = None /\ mu' = s /\ applied' = None
<1> DEFINE j == [job[s] EXCEPT !.pc = "wipe", !.rule = rule]
<1>1. s \in Stream /\ s \in Proc /\ job \in Jobs /\ job[s] \in Job /\ rule \in Global
  BY Processes DEF TypeInv, JobOK, Jobs, DeviceOK, ApplyQdisc
<1>2. job[s] = Idle
  BY DEF ApplyQdisc
<1>3. j \in Job /\ j.pc = "wipe" /\ j.rule = rule /\ j.again = job[s].again
  BY <1>1 DEF Job
<1>4. job' = [job EXCEPT ![s] = j]
  BY <1>1 DEF ApplyQdisc, Jobs
<1>6. ~job[s].again
  BY <1>2 DEF Idle
<1> HIDE DEF j
<1>5. job'[s] = j /\ Others(s)
  BY <1>1, <1>3, <1>4, OneJob
<1> QED BY <1>2, <1>3, <1>5, <1>6 DEF ApplyQdisc

\* A refused command ends the class, or the stream when it is the default class.
LEMMA RefusedIs ==
  ASSUME job \in Jobs, NEW p \in Proc, NEW allowed \in BOOLEAN, Refused(p, allowed)
  PROVE  /\ Others(p) /\ UNCHANGED <<rule, session, override, root, class, leaf, filter, police>>
         /\ p \in Stream /\ job[p].dev = Default => Failed(p)
         /\ p \in Stream /\ job[p].dev # Default =>
              /\ job'[p].pc = "next" /\ job'[p].todo = job[p].todo /\ job'[p].again = job[p].again
              /\ mu' = mu /\ applied' = applied /\ reported' = reported \cup {job[p].dev}
         /\ p \notin Stream => job'[p] = Idle /\ UNCHANGED <<mu, told>>
         /\ touched \subseteq touched'
         /\ \A m \in Device \ touched' : job[p].dev \in {m, Default} => ~allowed
<1>1. Skip(p) /\ UNCHANGED <<rule, session, override, root, class, leaf, filter, police>>
  BY DEF Refused, device, tree
<1>2. /\ touched \subseteq touched'
      /\ \A m \in Device \ touched' : job[p].dev \in {m, Default} => ~allowed
  <2>1. CASE ~allowed /\ NoFault
    BY <2>1 DEF NoFault, fault
  <2>2. CASE Fault(IF job[p].dev = Default THEN Device ELSE {job[p].dev})
    BY <2>2 DEF Fault
  <2> QED BY <2>1, <2>2 DEF Refused
<1>3. CASE p \in Stream /\ job[p].dev = Default
  <2>1. Failed(p)
    BY <1>1, <1>3, Processes DEF Skip
  <2> QED BY <1>1, <1>2, <1>3, <2>1, FailedIs
<1>4. CASE p \in Stream /\ job[p].dev # Default
  <2>1. Set(p, "next") /\ reported' = reported \cup {job[p].dev} /\ UNCHANGED <<mu, applied>>
    BY <1>1, <1>4, Processes DEF Skip
  <2>2. /\ Others(p) /\ job'[p].pc = "next" /\ job'[p].todo = job[p].todo
        /\ job'[p].again = job[p].again
    BY <2>1, SetJob DEF Pc
  <2> QED BY <1>1, <1>2, <1>4, <2>1, <2>2
<1>5. CASE p \notin Stream
  <2>1. Free(p) /\ UNCHANGED <<mu, told>>
    BY <1>1, <1>5, Processes DEF Skip
  <2> QED BY <1>1, <1>2, <1>5, <2>1, FreeJob
<1> QED BY <1>3, <1>4, <1>5

\* A class is added where there is none, or the command is refused.
LEMMA ClassAddIs ==
  ASSUME job \in Jobs, NEW p \in Proc, ClassAdd(p)
  PROVE  /\ job[p].pc = "class"
         /\ \/ /\ root = "htb" /\ job[p].dev \notin DOMAIN class
               /\ class' = ClassWith(job[p].dev, RateOf(job[p]))
               /\ Others(p) /\ job'[p].pc = "leaf" /\ job'[p].dev = job[p].dev
               /\ job'[p].rule = job[p].rule /\ job'[p].todo = job[p].todo /\ job'[p].again = job[p].again
               /\ UNCHANGED <<rule, session, override, root, leaf, filter, police, mu, applied, reported, touched>>
            \/ \E allowed \in BOOLEAN :
                 /\ Refused(p, allowed)
                 /\ allowed <=> root = "htb" /\ job[p].dev \notin DOMAIN class
<1> DEFINE allowed == root = "htb" /\ job[p].dev \notin DOMAIN class
<1>1. CASE Refused(p, allowed)
  BY <1>1 DEF ClassAdd
<1>2. CASE allowed /\ class' = ClassWith(job[p].dev, RateOf(job[p])) /\ Set(p, "leaf")
           /\ UNCHANGED <<rule, device, root, leaf, filter, police, mu, told, fault>>
  BY <1>2, SetJob DEF ClassAdd, Pc, device, told, fault
<1> QED BY <1>1, <1>2 DEF ClassAdd

\* A leaf is added to a class without one, or the command is refused.
LEMMA LeafAddIs ==
  ASSUME job \in Jobs, NEW p \in Proc, LeafAdd(p)
  PROVE  /\ job[p].pc = "leaf"
         /\ \/ /\ job[p].dev \in DOMAIN class \ leaf /\ leaf' = leaf \cup {job[p].dev}
               /\ Others(p) /\ job'[p].dev = job[p].dev
               /\ job'[p].pc = IF job[p].dev # Default THEN "filter"
                               ELSE IF job[p].rule = "global" THEN "verify" ELSE "snapshot"
               /\ job'[p].rule = job[p].rule /\ job'[p].todo = job[p].todo /\ job'[p].again = job[p].again
               /\ UNCHANGED <<rule, session, override, root, class, filter, police, mu, applied, reported, touched>>
            \/ \E allowed \in BOOLEAN :
                 Refused(p, allowed) /\ (allowed <=> job[p].dev \in DOMAIN class \ leaf)
<1> DEFINE allowed == job[p].dev \in DOMAIN class \ leaf
           pc == IF job[p].dev # Default THEN "filter"
                 ELSE IF job[p].rule = "global" THEN "verify" ELSE "snapshot"
<1>1. CASE Refused(p, allowed)
  <2>1. allowed \in BOOLEAN /\ (allowed <=> job[p].dev \in DOMAIN class \ leaf) /\ job[p].pc = "leaf"
    BY DEF LeafAdd
  <2> HIDE DEF allowed
  <2> QED BY <1>1, <2>1
<1>2. CASE allowed /\ leaf' = leaf \cup {job[p].dev} /\ Set(p, pc)
           /\ UNCHANGED <<rule, device, root, class, filter, police, mu, told, fault>>
  <2>1. pc \in Pc
    BY DEF Pc
  <2> HIDE DEF pc
  <2>2. /\ Others(p) /\ job'[p].pc = pc /\ job'[p].rule = job[p].rule /\ job'[p].dev = job[p].dev
        /\ job'[p].todo = job[p].todo /\ job'[p].again = job[p].again
    BY <1>2, <2>1, SetJob
  <2> QED BY <1>2, <2>2 DEF LeafAdd, device, told, fault, pc
<1> QED BY <1>1, <1>2 DEF LeafAdd

\* A filter is added to an HTB tree, or the command is refused.
LEMMA FilterAddIs ==
  ASSUME job \in Jobs, NEW p \in Proc, FilterAdd(p)
  PROVE  /\ job[p].pc = "filter"
         /\ \/ /\ root = "htb" /\ filter' = filter \cup {job[p].dev}
               /\ police' = police \cup {<<job[p].dev, job[p].rule>>} /\ Others(p)
               /\ p \in Stream => /\ job'[p].pc = "next" /\ job'[p].todo = job[p].todo
                                  /\ job'[p].again = job[p].again
               /\ p \notin Stream => job'[p] = Idle
               /\ UNCHANGED <<rule, session, override, root, class, leaf, mu, applied, reported, touched>>
            \/ \E allowed \in BOOLEAN : Refused(p, allowed) /\ (allowed <=> root = "htb")
<1>1. CASE Refused(p, root = "htb")
  BY <1>1 DEF FilterAdd
<1>2. CASE /\ root = "htb" /\ filter' = filter \cup {job[p].dev}
           /\ police' = police \cup {<<job[p].dev, job[p].rule>>}
           /\ IF p \in Stream THEN Set(p, "next") ELSE Free(p)
           /\ UNCHANGED <<rule, device, root, class, leaf, mu, told, fault>>
  <2>1. CASE p \in Stream
    BY <1>2, <2>1, SetJob DEF FilterAdd, Pc, device, told, fault
  <2>2. CASE p \notin Stream
    BY <1>2, <2>2, FreeJob DEF FilterAdd, device, told, fault
  <2> QED BY <2>1, <2>2
<1> QED BY <1>1, <1>2 DEF FilterAdd

\* ... and what hooks do to theirs.
LEMMA HookIs ==
  ASSUME job \in Jobs, NEW h \in Hook, HookRead(h) \/ Unfilter(h) \/ Unclass(h)
  PROVE  /\ Others(h) /\ UNCHANGED <<rule, session, override, root, mu, applied, reported>>
         /\ HookRead(h) =>
              /\ job[h].pc = "read" /\ UNCHANGED <<class, leaf, filter, police, touched>>
              /\ \/ rule \notin Rate /\ job'[h] = Idle
                 \/ /\ rule \in Rate /\ job'[h].pc = IF h[2] = "add" THEN "class" ELSE "unfilter"
                    /\ job'[h].rule = rule /\ job'[h].dev = h[1]
         /\ Unfilter(h) => job[h].pc = "unfilter" /\ job'[h].pc = "unclass"
         /\ Unclass(h) => job[h].pc = "unclass" /\ job'[h] = Idle
<1>0. h \in Proc /\ job[h] \in Job
  BY Processes DEF Jobs
<1>1. CASE HookRead(h)
  <2>1. CASE rule \notin Rate
    BY <1>0, <1>1, <2>1, FreeJob, EmptyTypes DEF HookRead, Unfilter, Unclass, device, tree, told, fault
  <2>2. CASE rule \in Rate
    <3> DEFINE pc == IF h[2] = "add" THEN "class" ELSE "unfilter"
    <3>1. job' = [job EXCEPT ![h].pc = pc, ![h].rule = rule, ![h].dev = h[1]]
      BY <1>1, <2>2 DEF HookRead
    <3> HIDE DEF pc
    <3>2. Others(h) /\ job'[h].pc = pc /\ job'[h].rule = rule /\ job'[h].dev = h[1]
      BY <1>0, <3>1 DEF Jobs, Job, Others
    <3> QED BY <1>0, <1>1, <2>2, <3>2 DEF HookRead, Unfilter, Unclass, device, tree, told, fault, pc
  <2> QED BY <2>1, <2>2
<1>2. CASE Unfilter(h)
  BY <1>0, <1>2, SetJob DEF HookRead, Unfilter, Unclass, device, told, Pc
<1>3. CASE Unclass(h)
  BY <1>0, <1>3, FreeJob DEF HookRead, Unfilter, Unclass, device, told
<1> QED BY <1>1, <1>2, <1>3

\* A wipe that does not fail leaves nothing of the tree.
LEMMA WipeIs ==
  ASSUME job \in Jobs, NEW s \in Stream, Wipe(s)
  PROVE  /\ job[s].pc = "wipe" /\ job'[s].pc = "root" /\ Others(s) /\ job'[s].again = job[s].again
         /\ UNCHANGED <<rule, session, override, police, mu, told>>
         /\ touched \subseteq touched'
         /\ \A m \in Device \ touched' : root' = "none" /\ class' = <<>> /\ leaf' = {} /\ filter' = {}
<1>1. Set(s, "root")
  BY DEF Wipe
<1>2. Others(s) /\ job'[s].pc = "root" /\ job'[s].again = job[s].again
  BY <1>1, Processes, SetJob DEF Pc
<1>3. CASE root' = "none" /\ class' = <<>> /\ leaf' = {} /\ filter' = {} /\ NoFault
  BY <1>2, <1>3 DEF Wipe, device, told, NoFault, fault
<1>4. CASE Fault(Device)
  BY <1>2, <1>4 DEF Wipe, device, told, Fault
<1> QED BY <1>3, <1>4 DEF Wipe

\* Whoever takes a step leaves requests alone and hooks with their session.
LEMMA LoneKept ==
  ASSUME Careful, TypeInv, HopeInv, LoneInv, [Next]_vars
  PROVE  LoneInv'
<1>0. job \in Jobs /\ applied \in {None, rule} /\ SameRule
  BY DEF TypeInv, JobOK, LoneInv, HopeInv
<1>1. ASSUME NEW s \in Stream, Failed(s), job[s].pc # "idle", UNCHANGED <<rule, session>>
      PROVE  LoneInv'
  <2>1. /\ Others(s) /\ UNCHANGED told /\ job'[s].pc \in {"idle", "retry"}
        /\ job'[s].again => job[s].again
        /\ job'[s].pc = "retry" => job[s].again
        /\ mu' = IF mu = s THEN None ELSE mu
    BY <1>0, <1>1, FailedIs
  <2> QED BY <1>0, <1>1, <2>1, LoneStream DEF LoneInv, told
<1>2. ASSUME NEW s \in Stream, job[s].pc # "idle", Others(s), job'[s].again = job[s].again,
             UNCHANGED <<rule, session, mu, applied>>
      PROVE  LoneInv'
  BY <1>0, <1>2, LoneStream DEF LoneInv
<1>3. ASSUME NEW r \in Global, SaveQdisc(r) PROVE LoneInv'
  <2>1. UNCHANGED <<session, job, mu>> /\ applied' = None /\ job[Boot].pc = "idle"
    BY <1>3, EmptyTypes DEF SaveQdisc, device
  <2> QED BY <2>1 DEF LoneInv
<1>4. ASSUME NEW s \in Request, ApplyQdisc(s) PROVE LoneInv'
  <2>1. /\ job[s] = Idle /\ Others(s) /\ job'[s].pc = "wipe"
        /\ ~job'[s].again /\ mu = None /\ mu' = s /\ applied' = None
    BY <1>4, ApplyIs
  <2>2. s \in Stream /\ s # Boot /\ None \notin Request /\ UNCHANGED <<rule, session>>
    BY <1>4, Processes, QdiscAssumption DEF ApplyQdisc, device
  <2>3. \A r \in Request \ {s} : mu # r
    BY <2>1, <2>2, EmptyTypes DEF LoneInv
  <2> QED BY <2>1, <2>2, <2>3, LoneStream
<1>5. ASSUME NEW m \in Device, NEW r \in Rate \cup {None}, Shape(m, r) PROVE LoneInv'
  BY <1>5 DEF Shape, LoneInv, Stale, told
<1>6. ASSUME NEW s \in Stream, Wipe(s) PROVE LoneInv'
  BY <1>0, <1>2, <1>6, WipeIs DEF told
<1>7. ASSUME NEW s \in Stream, Root(s) PROVE LoneInv'
  BY <1>0, <1>1, <1>2, <1>7, RootIs DEF told
<1>8. ASSUME NEW s \in Stream, Snapshot(s) PROVE LoneInv'
  BY <1>0, <1>2, <1>8, SnapshotIs DEF Snapshot, device, told
<1>9. ASSUME NEW s \in Stream, NextDevice(s) PROVE LoneInv'
  BY <1>0, <1>2, <1>9, NextIs DEF NextDevice, device, told
<1>10. ASSUME NEW s \in Stream, Verify(s) PROVE LoneInv'
  <2>0. job[s].pc = "verify" /\ UNCHANGED <<rule, session>>
    BY <1>10 DEF Verify, device
  <2>1. CASE Done(s)
    <3>1. job'[s] = Idle /\ Others(s) /\ applied' = rule /\ mu' = IF mu = s THEN None ELSE mu
      BY <1>0, <2>0, <2>1, FreeJob, Processes DEF Done, Unlock, SameRule
    <3> QED BY <2>0, <3>1, LoneStream DEF Idle, LoneInv
  <2>2. CASE Failed(s)
    BY <1>1, <2>0, <2>2
  <2> QED BY <1>10, <2>1, <2>2 DEF Verify
<1>11. ASSUME NEW p \in Proc, ClassAdd(p) \/ LeafAdd(p) \/ FilterAdd(p) PROVE LoneInv'
  <2>0. job[p].pc \in {"class", "leaf", "filter"}
    BY <1>11 DEF ClassAdd, LeafAdd, FilterAdd
  <2>1. ASSUME NEW allowed \in BOOLEAN, Refused(p, allowed) PROVE LoneInv'
    <3>1. CASE p \in Stream
      BY <1>0, <1>1, <1>2, <2>0, <2>1, <3>1, RefusedIs
    <3>2. CASE p \notin Stream
      BY <1>0, <2>0, <2>1, <3>2, RefusedIs, Processes, LoneHook, EmptyTypes DEF told
    <3> QED BY <3>1, <3>2
  <2>2. CASE ClassAdd(p)
    BY <1>0, <1>2, <2>0, <2>1, <2>2, ClassAddIs, Processes, LoneHook
  <2>3. CASE LeafAdd(p)
    BY <1>0, <1>2, <2>0, <2>1, <2>3, LeafAddIs, Processes, LoneHook
  <2>4. CASE FilterAdd(p)
    BY <1>0, <1>2, <2>0, <2>1, <2>4, FilterAddIs, Processes, LoneHook, EmptyTypes
  <2> QED BY <1>11, <2>2, <2>3, <2>4
<1>12. ASSUME NEW m \in Device, NEW act \in {"add", "remove"}, HookAfter(m, act),
              session' = [session EXCEPT ![m] = session'[m]], session'[m] = "active" <=> act = "add"
       PROVE  LoneInv'
  <2> DEFINE h == <<m, act>>
  <2>1. Others(h) /\ job'[h].pc = "read"
    BY <1>12, HookAfterType DEF TypeInv
  <2>2. h \in Hook /\ h \notin Stream /\ h = IF act = "add" THEN AddHook(m) ELSE RemoveHook(m)
    BY Processes DEF Hook, AddHook, RemoveHook
  <2>3. job[AddHook(m)].pc = "idle" /\ job[RemoveHook(m)].pc = "idle"
    BY <1>12, TwoHooks, EmptyTypes DEF HookAfter, Busy
  <2>4. UNCHANGED <<rule, mu, applied>>
    BY <1>12 DEF HookAfter, told
  <2> HIDE DEF h
  <2>5. \A s \in Stream : job'[s] = job[s]
    BY <2>1, <2>2, Processes DEF Others
  <2>6. \A n \in Device : /\ n # m => /\ job'[AddHook(n)] = job[AddHook(n)]
                                      /\ job'[RemoveHook(n)] = job[RemoveHook(n)]
                          /\ n = m => /\ job'[AddHook(n)].pc = IF act = "add" THEN "read" ELSE "idle"
                                      /\ job'[RemoveHook(n)].pc = IF act = "add" THEN "idle" ELSE "read"
    BY <2>1, <2>2, <2>3, TwoHooks DEF Others
  <2>7. \A n \in Device : Stale(n)' => Stale(n)
    BY <2>4, <2>6 DEF Stale
  <2>8. \A n \in Device : session'[n] = IF n = m THEN session'[m] ELSE session[n]
    BY <1>12 DEF TypeInv, DeviceOK
  <2>9. \A n \in Device : /\ job'[AddHook(n)].pc # "idle" => session'[n] = "active"
                          /\ job'[RemoveHook(n)].pc # "idle" => session'[n] # "active"
    BY <1>12, <2>6, <2>8 DEF LoneInv
  <2> QED BY <2>4, <2>5, <2>7, <2>9, Processes DEF LoneInv
<1>13. ASSUME NEW m \in Device, SessionStarts(m) PROVE LoneInv'
  BY <1>12, <1>13 DEF SessionStarts, TypeInv, DeviceOK
<1>14. ASSUME NEW m \in Device, NEW to \in {"none", "paused"}, SessionStops(m, to) PROVE LoneInv'
  BY <1>12, <1>14 DEF SessionStops, TypeInv, DeviceOK
<1>15. ASSUME NEW h \in Hook, HookRead(h) \/ Unfilter(h) \/ Unclass(h) PROVE LoneInv'
  BY <1>0, <1>15, HookIs, LoneHook, EmptyTypes
<1>16. CASE BootApply
  <2>1. job[Boot].pc # "idle" /\ UNCHANGED <<rule, session, mu>> /\ Boot \notin Request
    BY <1>16, QdiscAssumption DEF BootApply, device
  <2>2. Others(Boot) /\ applied' \in {None, rule}
    BY <1>0, <1>16, BootApplyJob DEF told
  <2> QED BY <2>1, <2>2, LoneStream, Processes
<1>17. CASE ApiRestart \/ PowerCut
  <2>1. Stopped
    BY <1>17 DEF ApiRestart, PowerCut
  <2>2. \A p \in Proc : p # Boot => job'[p] = Idle
    BY <2>1 DEF Stopped
  <2>3. applied' = None
    BY <2>1 DEF Stopped
  <2>4. \A r \in Request : job'[r] = Idle
    BY <2>2, Processes, QdiscAssumption
  <2>5. \A m \in Device : job'[AddHook(m)] = Idle /\ job'[RemoveHook(m)] = Idle
    BY <2>2, TwoHooks, Processes
  <2> QED BY <2>3, <2>4, <2>5 DEF LoneInv, Stale, Idle
<1>18. CASE LinkUp \/ UNCHANGED vars
  <2>1. UNCHANGED <<rule, session, job, mu, applied>>
    BY <1>18 DEF LinkUp, vars, device, told
  <2> QED BY <2>1 DEF LoneInv, Stale
<1> QED BY <1>3, <1>4, <1>5, <1>6, <1>7, <1>8, <1>9, <1>10, <1>11, <1>13, <1>14, <1>15, <1>16, <1>17, <1>18
        DEF Next

\* What a stream that waits, and what a hook that waits, still has to do.
LEMMA OthersWait ==
  ASSUME NEW p \in Proc, Others(p), NEW m \in Device, UNCHANGED <<root, class, leaf>>
  PROVE  /\ \A t \in Stream \ {p} : /\ Awaits(t, m)' <=> Awaits(t, m)
                                    /\ AtRoot(t)' <=> AtRoot(t)
                                    /\ AtWipe(t)' <=> AtWipe(t)
         /\ \A q \in Proc \ {p} : /\ Halfway(q, m)' <=> Halfway(q, m)
                                  /\ Laying(q, m)' <=> Laying(q, m)
<1>1. \A q \in Proc \ {p} : job'[q] = job[q]
  BY DEF Others
<1>2. ASSUME NEW t \in Stream \ {p}
      PROVE  /\ Awaits(t, m)' <=> Awaits(t, m)
             /\ AtRoot(t)' <=> AtRoot(t)
             /\ AtWipe(t)' <=> AtWipe(t)
  <2>1. job'[t] = job[t]
    BY <1>1, Processes
  <2> QED BY <2>1 DEF Awaits, AtRoot, AtWipe, AtDefault, AtLeaf
<1>3. ASSUME NEW q \in Proc \ {p}
      PROVE  (Halfway(q, m)' <=> Halfway(q, m)) /\ (Laying(q, m)' <=> Laying(q, m))
  BY <1>1 DEF Halfway, Laying
<1> QED BY <1>2, <1>3

\* A step of a stream that leaves the tree alone keeps a device capped, if the stream
\* still awaits it, or nothing is missing, or another stream starts over.
LEMMA StreamBeside ==
  ASSUME NEW m \in Device, CappedInv(m), LoneInv, NEW s \in Stream, Others(s),
         UNCHANGED <<rule, session, override, root, class, leaf, filter, police>>,
         job'[s].pc \notin {"leaf", "filter", "root"}, ~AtRoot(s), ~AtWipe(s),
         Capping' => Capping, Building' => Building,
         reported \subseteq reported' \/ job'[s].pc = "wipe",
         Capping /\ Awaits(s, m) =>
            \/ Awaits(s, m)' \/ session[m] # "active" \/ root # "htb"
            \/ m \in DOMAIN class /\ (Wrong(m) => m \in reported'),
         Laying(s, m) => m \notin DOMAIN class
  PROVE  CappedInv(m)'
<1> DEFINE found == m \in DOMAIN class /\ (Wrong(m) => m \in reported')
<1>0. /\ \A t \in Stream \ {s} : /\ Awaits(t, m)' <=> Awaits(t, m)
                                 /\ AtRoot(t)' <=> AtRoot(t)
                                 /\ AtWipe(t)' <=> AtWipe(t)
      /\ \A q \in Proc \ {s} : /\ Halfway(q, m)' <=> Halfway(q, m)
                               /\ Laying(q, m)' <=> Laying(q, m)
      /\ s \in Proc
  BY OthersWait, Processes
<1>1. \A h \in Hook : job'[h] = job[h]
  BY Processes DEF Others
<1>2. Stale(m)' = Stale(m) /\ Wrong(m)' = Wrong(m) /\ Going(m)' = Going(m)
  BY <1>1, TwoHooks DEF Stale, Wrong, Going
<1>3. ~Halfway(s, m)'
  BY DEF Halfway
<1>4. RootInv'
  BY <1>0 DEF CappedInv, RootInv
<1>5. Capping /\ Awaited(m) => Awaited(m)' \/ session[m] # "active" \/ found
  <2>1. ASSUME NEW t \in Stream, Capping, AtRoot(t) PROVE Awaited(m)'
    BY <1>0, <2>1 DEF Awaited, Awaits
  <2>2. Capping /\ root # "htb" => Awaited(m)'
    BY <2>1 DEF CappedInv, RootInv
  <2> QED BY <1>0, <2>2 DEF Awaited
<1>6. StaleInv(m)'
  <2>1. Stale(m) => session[m] = "active"
    BY DEF Stale, LoneInv
  <2>2. \A t \in Stream : Halfway(t, m)' => Halfway(t, m)
    BY <1>0, <1>3, Processes
  <2> QED BY <1>2, <1>5, <2>1, <2>2 DEF CappedInv, StaleInv
<1>7. FilterInv(m)'
  <2>1. m \in DOMAIN class /\ (\E p \in Proc : Laying(p, m)) => \E p \in Proc : Laying(p, m)'
    BY <1>0
  <2> QED BY <1>1, <2>1, TwoHooks DEF CappedInv, FilterInv
<1>8. ClassInv(m)'
  BY <1>1, <1>5, TwoHooks DEF CappedInv, ClassInv
<1>9. RateInv(m)'
  <2> SUFFICES ASSUME Capping', Wrong(m)' PROVE RateInv(m)'
    BY DEF RateInv
  <2>1. Capping /\ Wrong(m)
    BY <1>2
  <2>2. \A t \in Stream : ~Halfway(t, m)'
    BY <1>0, <1>3, <2>1, Processes DEF CappedInv, RateInv
  <2>3. CASE \E t \in Stream : AtWipe(t)
    BY <1>0, <2>2, <2>3 DEF RateInv
  <2>4. CASE session[m] = "active" /\ Awaited(m)
    BY <1>5, <2>1, <2>2, <2>4 DEF RateInv
  <2>5. CASE Going(m)
    BY <1>2, <2>2, <2>5 DEF RateInv
  <2>6. CASE m \in reported
    BY <2>2, <2>6 DEF RateInv, AtWipe
  <2>7. CASE ~Building /\ override[m] \in {class[m], "cleared"}
    BY <2>2, <2>7 DEF RateInv
  <2> QED BY <2>1, <2>3, <2>4, <2>5, <2>6, <2>7 DEF CappedInv, RateInv
<1> QED BY <1>4, <1>6, <1>7, <1>8, <1>9 DEF CappedInv

\* A step of a hook that leaves the tree alone keeps a device capped, if the hook goes on,
\* or nothing is missing, or a stream starts over.
LEMMA HookBeside ==
  ASSUME NEW m \in Device, CappedInv(m), NEW h \in Hook, Others(h),
         UNCHANGED <<rule, session, override, root, class, leaf, filter, police, applied, reported>>,
         job[h].pc # "unclass", job'[h].pc \notin {"leaf", "filter", "unclass"},
         Capping /\ Laying(h, m) => m \notin DOMAIN class,
         job'[h].pc = "class" => job'[h].rule = rule,
         Capping /\ h = AddHook(m) /\ job[h].pc \in {"read", "class"} =>
            job'[h].pc = "class" \/ m \in DOMAIN class \/ root # "htb",
         Capping /\ h = RemoveHook(m) /\ job[h].pc \in {"read", "unfilter"} => job'[h].pc = "unfilter"
  PROVE  CappedInv(m)'
<1>0. /\ h \in Proc /\ h \notin Stream /\ \A s \in Stream : job'[s] = job[s]
      /\ \A q \in Proc \ {h} : /\ Halfway(q, m)' <=> Halfway(q, m)
                               /\ Laying(q, m)' <=> Laying(q, m)
  BY OthersWait, Processes DEF Others
<1>1. /\ \A s \in Stream : /\ Awaits(s, m)' <=> Awaits(s, m)
                           /\ AtRoot(s)' <=> AtRoot(s)
                           /\ AtWipe(s)' <=> AtWipe(s)
      /\ \A s \in Stream : Halfway(s, m)' <=> Halfway(s, m)
  BY <1>0, OthersWait, Processes
<1>2. /\ Building' <=> Building
      /\ Capping' <=> Capping
      /\ Awaited(m)' <=> Awaited(m)
      /\ Wrong(m)' <=> Wrong(m)
  BY <1>0, <1>1 DEF Building, Capping, Awaited, Wrong
<1>3. Stale(m)' => Stale(m)
  BY TwoHooks DEF Stale, Others
<1>4. RootInv'
  BY <1>1, <1>2 DEF CappedInv, RootInv
<1>5. StaleInv(m)'
  BY <1>1, <1>2, <1>3 DEF CappedInv, StaleInv
<1>6. FilterInv(m)'
  <2>1. Capping /\ m \in DOMAIN class /\ (\E p \in Proc : Laying(p, m)) => \E p \in Proc : Laying(p, m)'
    BY <1>0
  <2>2. job[RemoveHook(m)].pc = "unclass" => job'[RemoveHook(m)].pc = "unclass"
    BY TwoHooks DEF Others
  <2> QED BY <1>2, <2>1, <2>2 DEF CappedInv, FilterInv
<1>7. ClassInv(m)'
  <2>1. CASE h # AddHook(m)
    <3>1. job'[AddHook(m)] = job[AddHook(m)]
      BY <2>1, TwoHooks DEF Others
    <3> QED BY <1>2, <3>1 DEF CappedInv, ClassInv
  <2>2. CASE h = AddHook(m)
    <3>1. Capping /\ root # "htb" => Awaited(m)
      BY DEF CappedInv, RootInv, Awaited, Awaits
    <3> QED BY <1>2, <2>2, <3>1 DEF CappedInv, ClassInv
  <2> QED BY <2>1, <2>2
<1>8. RateInv(m)'
  <2>1. Capping /\ Going(m) => Going(m)'
    <3>1. CASE h = RemoveHook(m)
      BY <3>1 DEF Going
    <3>2. CASE h # RemoveHook(m)
      <4>1. job'[RemoveHook(m)] = job[RemoveHook(m)]
        BY <3>2, TwoHooks DEF Others
      <4> QED BY <4>1 DEF Going
    <3> QED BY <3>1, <3>2
  <2> QED BY <1>1, <1>2, <2>1 DEF CappedInv, RateInv
<1> QED BY <1>4, <1>5, <1>6, <1>7, <1>8 DEF CappedInv

\* A request begins, or the boot applies the rule: the stream will wipe the tree.
LEMMA CappedApply ==
  ASSUME TypeInv, LoneInv, NEW m \in Device, CappedInv(m),
         BootApply \/ \E s \in Request : ApplyQdisc(s)
  PROVE  CappedInv(m)'
<1>1. ASSUME NEW s \in Stream, job[s].pc \in {"idle", "boot", "retry"}, Others(s),
             job'[s].pc \in {"idle", "retry", "wipe"}, UNCHANGED <<rule, device, tree>>,
             UNCHANGED told \/ (applied' = None /\ job'[s].pc = "wipe")
      PROVE  CappedInv(m)'
  <2>1. UNCHANGED <<rule, session, override, root, class, leaf, filter, police>>
    BY <1>1 DEF device, tree
  <2>2. /\ job'[s].pc \notin {"leaf", "filter", "root"} /\ ~AtRoot(s) /\ ~AtWipe(s) /\ ~Awaits(s, m)
        /\ ~Laying(s, m) /\ (reported \subseteq reported' \/ job'[s].pc = "wipe")
    BY <1>1 DEF AtRoot, AtWipe, AtDefault, AtLeaf, Awaits, Laying, Halfway, told
  <2>3. Building' => Building
    BY <1>1, Processes DEF Building, Others
  <2>4. Capping' => Capping
    BY <1>1, <2>1, <2>3, QdiscAssumption DEF Capping, told, Global
  <2> QED BY <1>1, <2>1, <2>2, <2>3, <2>4, StreamBeside
<1>2. CASE BootApply
  BY <1>1, <1>2, BootApplyJob, Processes DEF BootApply
<1>3. ASSUME NEW s \in Request, ApplyQdisc(s) PROVE CappedInv(m)'
  BY <1>1, <1>3, ApplyIs, Processes, EmptyTypes DEF ApplyQdisc
<1> QED BY <1>2, <1>3

\* A stream asks for the devices, takes one, ends its recipe, or fails.
LEMMA CappedStream ==
  ASSUME TypeInv, HopeInv, LoneInv, NEW m \in Device \ touched', CappedInv(m), NEW s \in Stream,
         \/ Snapshot(s) \/ NextDevice(s) \/ Verify(s) \/ (Root(s) /\ root # "none")
  PROVE  CappedInv(m)'
<1>0. job \in Jobs /\ job[s] \in Job /\ s \in Proc /\ SameRule /\ Default \notin Device
  BY Processes, QdiscAssumption DEF TypeInv, JobOK, Jobs, HopeInv
<1>1. ASSUME job[s].pc \in {"root", "snapshot", "next", "verify"}, ~AtRoot(s), Others(s),
             job'[s].pc \in {"next", "class", "verify", "idle", "retry"},
             UNCHANGED <<rule, session, override, root, class, leaf, filter, police, reported>>,
             applied' \in {applied, rule},
             Awaits(s, m) => Awaits(s, m)' \/ session[m] # "active"
      PROVE  CappedInv(m)'
  <2>1. ~AtWipe(s) /\ ~Laying(s, m) /\ Building
    BY <1>1 DEF AtWipe, Laying, Halfway, Building
  <2>2. Capping' => Capping
    BY <1>1, <2>1 DEF Capping
  <2> QED BY <1>1, <2>1, <2>2, StreamBeside
<1>2. CASE Snapshot(s)
  <2>1. /\ job[s].pc = "snapshot" /\ Others(s) /\ job'[s].pc = "next"
        /\ session[m] = "active" => m \in job'[s].todo
    BY <1>0, <1>2, SnapshotIs
  <2>2. session[m] = "active" => Awaits(s, m)'
    BY <2>1 DEF Awaits
  <2> QED BY <1>1, <1>2, <2>1, <2>2 DEF Snapshot, device, tree, told, AtRoot
<1>3. CASE NextDevice(s)
  <2>1. /\ job[s].pc = "next" /\ Others(s)
        /\ \/ job[s].todo = {} /\ job'[s].pc = "verify"
           \/ /\ job'[s].pc = "class" /\ job'[s].dev \in Device
              /\ job'[s].todo = job[s].todo \ {job'[s].dev}
    BY <1>0, <1>3, NextIs
  <2>2. Awaits(s, m) => Awaits(s, m)'
    BY <1>0, <2>1 DEF Awaits, AtWipe, AtRoot, AtDefault, AtLeaf
  <2> QED BY <1>1, <1>3, <2>1, <2>2 DEF NextDevice, device, tree, told, AtRoot
<1>4. CASE Verify(s)
  <2>1. job[s].pc = "verify" /\ UNCHANGED <<rule, session, override, root, class, leaf, filter, police>>
    BY <1>4 DEF Verify, device, tree
  <2>2. ~Awaits(s, m) /\ ~AtRoot(s)
    BY <2>1 DEF Awaits, AtWipe, AtRoot, AtDefault, AtLeaf
  <2>3. CASE Done(s)
    <3>1. job'[s].pc = "idle" /\ Others(s) /\ applied' = rule /\ reported' = reported
      BY <1>0, <2>1, <2>3, FreeJob, EmptyTypes DEF Done, SameRule
    <3> QED BY <1>1, <2>1, <2>2, <3>1
  <2>4. CASE Failed(s)
    BY <1>0, <1>1, <2>1, <2>2, <2>4, FailedIs DEF told
  <2> QED BY <1>4, <2>3, <2>4 DEF Verify
<1>5. CASE Root(s) /\ root # "none"
  <2>1. job[s].pc = "root" /\ Failed(s) /\ UNCHANGED <<rule, session, override, root, class, leaf, filter, police>>
    BY <1>0, <1>5, RootIs
  <2>2. ~Awaits(s, m) /\ ~AtRoot(s)
    BY <1>5, <2>1 DEF Awaits, AtWipe, AtRoot, AtDefault, AtLeaf
  <2> QED BY <1>0, <1>1, <2>1, <2>2, FailedIs DEF told
<1> QED BY <1>2, <1>3, <1>4, <1>5

\* A command that is refused without a fault leaves nothing to be done for m, or a
\* stream starts over.
LEMMA CappedRefused ==
  ASSUME TypeInv, HopeInv, LoneInv, NEW m \in Device \ touched', CappedInv(m), NEW p \in Proc,
         NEW allowed \in BOOLEAN, Refused(p, allowed),
         job[p].pc \in {"class", "leaf", "filter"},
         job[p].pc = "class" => (allowed <=> root = "htb" /\ job[p].dev \notin DOMAIN class),
         job[p].pc = "leaf" => (allowed <=> job[p].dev \in DOMAIN class \ leaf),
         job[p].pc = "filter" => (allowed <=> root = "htb")
  PROVE  CappedInv(m)'
<1>0. /\ job \in Jobs /\ job[p] \in Job /\ Rooted /\ Default \notin Device /\ m \in Device
      /\ root \in {"none", "cake", "htb"}
  BY QdiscAssumption DEF TypeInv, JobOK, Jobs, HopeInv, TreeOK
<1>1. /\ Others(p) /\ UNCHANGED <<rule, session, override, root, class, leaf, filter, police>>
      /\ p \in Stream /\ job[p].dev = Default => Failed(p)
      /\ p \in Stream /\ job[p].dev # Default =>
           /\ job'[p].pc = "next" /\ job'[p].todo = job[p].todo
           /\ applied' = applied /\ reported' = reported \cup {job[p].dev}
      /\ p \notin Stream => job'[p] = Idle /\ UNCHANGED told
      /\ job[p].dev \in {m, Default} => ~allowed
  BY <1>0, RefusedIs
<1>2. Laying(p, m) => m \notin DOMAIN class
  BY <1>0, <1>1 DEF Laying, Halfway, Rooted
<1>3. CASE p \in Stream
  <2>1. ~AtRoot(p) /\ ~AtWipe(p) /\ Building
    BY <1>3 DEF AtRoot, AtWipe, Building
  <2>2. CASE job[p].dev = Default
    <3>1. ~Awaits(p, m)
      BY <1>0, <1>1, <2>2 DEF Awaits, AtRoot, AtWipe, AtDefault, AtLeaf
    <3>2. job'[p].pc \in {"idle", "retry"} /\ UNCHANGED told
      BY <1>0, <1>1, <1>3, <2>2, FailedIs
    <3>3. Capping' => Capping
      BY <1>1, <2>1 DEF Capping
    <3> QED BY <1>1, <1>2, <1>3, <2>1, <3>1, <3>2, <3>3, StreamBeside DEF told
  <2>3. CASE job[p].dev # Default
    <3>1. \/ ~Awaits(p, m) \/ Awaits(p, m)' \/ root # "htb"
          \/ m \in DOMAIN class /\ m \in reported'
      <4>1. CASE job[p].pc = "class" /\ job[p].dev = m
        BY <1>1, <1>3, <2>3, <4>1
      <4>2. CASE m \in job[p].todo
        BY <1>1, <1>3, <2>3, <4>2 DEF Awaits
      <4>3. CASE ~(job[p].pc = "class" /\ job[p].dev = m) /\ m \notin job[p].todo
        BY <2>3, <4>3 DEF Awaits, AtRoot, AtWipe, AtDefault, AtLeaf
      <4> QED BY <4>1, <4>2, <4>3
    <3>2. Capping' => Capping
      BY <1>1, <2>1 DEF Capping
    <3> QED BY <1>1, <1>2, <1>3, <2>1, <2>3, <3>1, <3>2, StreamBeside
  <2> QED BY <2>2, <2>3
<1>4. CASE p \notin Stream
  <2>0. p \in Hook /\ ProperHook(p, job[p])
    BY <1>4, Processes DEF TypeInv, JobOK, ProperJob
  <2>1. job'[p].pc = "idle" /\ UNCHANGED <<applied, reported>>
    BY <1>1, <1>4, EmptyTypes DEF told
  <2>2. p # RemoveHook(m)
    BY <2>0, TwoHooks DEF ProperHook
  <2>3. p = AddHook(m) /\ job[p].pc \in {"read", "class"} => m \in DOMAIN class \/ root # "htb"
    BY <1>1, <2>0, TwoHooks DEF ProperHook
  <2> QED BY <1>0, <1>1, <1>2, <2>0, <2>1, <2>2, <2>3, HookBeside
<1> QED BY <1>3, <1>4

\* A step of a process that works elsewhere keeps device m capped, if the streams still
\* await what they awaited.
LEMMA ElsewhereAwaited ==
  ASSUME NEW m \in Device, CappedInv(m), NEW p \in Proc, Others(p),
         p \notin {AddHook(m), RemoveHook(m)}, ~Halfway(p, m), ~Halfway(p, m)',
         UNCHANGED <<rule, root, applied, reported>>,
         session'[m] = session[m], override'[m] = override[m],
         m \in DOMAIN class' <=> m \in DOMAIN class, m \in leaf' <=> m \in leaf,
         m \in DOMAIN class => class'[m] = class[m], m \in filter' <=> m \in filter,
         (m \in {x[1] : x \in police'}) <=> (m \in {x[1] : x \in police}),
         p \in Stream => job[p].pc \notin {"idle", "boot", "retry", "wipe", "root"},
         Capping' /\ Awaited(m) => Awaited(m)'
  PROVE  CappedInv(m)'
<1>0. \A q \in Proc \ {p} : job'[q] = job[q]
  BY DEF Others
<1>1. \A t \in Stream : (AtRoot(t) => AtRoot(t)') /\ (AtWipe(t) => AtWipe(t)')
  BY <1>0, Processes DEF AtRoot, AtWipe
<1>2. \A q \in Proc : (Halfway(q, m)' <=> Halfway(q, m)) /\ (Laying(q, m)' <=> Laying(q, m))
  <2>1. ASSUME NEW q \in Proc, q # p PROVE (Halfway(q, m)' <=> Halfway(q, m)) /\ (Laying(q, m)' <=> Laying(q, m))
    BY <1>0, <2>1 DEF Halfway, Laying
  <2> QED BY <2>1 DEF Laying
<1>3. Building' => Building
  BY <1>0, Processes DEF Building
<1>4. Capping' => Capping
  BY <1>3 DEF Capping
<1>5. Capping' /\ Awaited(m) => Awaited(m)'
  OBVIOUS
<1>6. job'[AddHook(m)] = job[AddHook(m)] /\ job'[RemoveHook(m)] = job[RemoveHook(m)]
  BY <1>0, TwoHooks
<1>7. (Stale(m)' <=> Stale(m)) /\ (Wrong(m)' <=> Wrong(m)) /\ (Going(m)' <=> Going(m))
  BY <1>6 DEF Stale, Wrong, Going
<1>8. RootInv'
  BY <1>1, <1>4 DEF CappedInv, RootInv
<1>9. StaleInv(m)'
  BY <1>2, <1>4, <1>5, <1>7, Processes DEF CappedInv, StaleInv
<1>10. FilterInv(m)'
  BY <1>2, <1>4, <1>6 DEF CappedInv, FilterInv
<1>11. ClassInv(m)'
  BY <1>4, <1>5, <1>6 DEF CappedInv, ClassInv
<1>12. RateInv(m)'
  <2> SUFFICES ASSUME Capping', Wrong(m)' PROVE RateInv(m)'
    BY DEF RateInv
  <2>1. Capping /\ Wrong(m) /\ class'[m] = class[m]
    BY <1>4, <1>7 DEF Wrong
  <2>2. \A t \in Stream : ~Halfway(t, m)'
    BY <1>2, <2>1, Processes DEF CappedInv, RateInv
  <2> QED BY <1>1, <1>3, <1>5, <1>7, <2>1, <2>2 DEF CappedInv, RateInv
<1> QED BY <1>8, <1>9, <1>10, <1>11, <1>12 DEF CappedInv

\* ... as they do when the default class stays as it is.
LEMMA Elsewhere ==
  ASSUME NEW m \in Device, CappedInv(m), NEW p \in Proc, Others(p),
         p \notin {AddHook(m), RemoveHook(m)}, ~Halfway(p, m), ~Halfway(p, m)',
         UNCHANGED <<rule, root, applied, reported>>,
         session'[m] = session[m], override'[m] = override[m],
         \A c \in {m, Default} : /\ c \in DOMAIN class' <=> c \in DOMAIN class
                                 /\ c \in leaf' <=> c \in leaf,
         m \in DOMAIN class => class'[m] = class[m], m \in filter' <=> m \in filter,
         (m \in {x[1] : x \in police'}) <=> (m \in {x[1] : x \in police}),
         p \in Stream => /\ job[p].pc \notin {"idle", "boot", "retry", "wipe", "root"}
                         /\ Awaits(p, m) => Awaits(p, m)'
  PROVE  CappedInv(m)'
<1>1. ASSUME NEW t \in Stream, t # p, Awaits(t, m) PROVE Awaits(t, m)'
  <2>1. job'[t] = job[t]
    BY <1>1, Processes DEF Others
  <2> QED BY <1>1, <2>1 DEF Awaits, AtRoot, AtWipe, AtDefault, AtLeaf
<1>2. Awaited(m) => Awaited(m)'
  BY <1>1 DEF Awaited
<1> QED BY <1>2, ElsewhereAwaited

\* A rule is saved, or the API stops: no rule is applied any more.
LEMMA CappedOff ==
  ASSUME Careful, NEW m \in Device, CappedInv(m),
         ApiRestart \/ PowerCut \/ \E r \in Global : SaveQdisc(r)
  PROVE  CappedInv(m)'
<1>1. applied' = None /\ \A s \in Stream : job'[s].pc \in {"idle", "boot", "retry"}
  <2>1. CASE Stopped
    BY <2>1, StoppedJobs, Processes DEF Stopped
  <2>2. CASE \E r \in Global : SaveQdisc(r)
    BY <2>2 DEF SaveQdisc, Applying
  <2> QED BY <2>1, <2>2 DEF ApiRestart, PowerCut
<1>2. ~Capping'
  BY <1>1, QdiscAssumption DEF Capping, Building, Global
<1>3. m \in filter' => m \in {x[1] : x \in police'}
  BY DEF CappedInv, FilterInv, ApiRestart, PowerCut, SaveQdisc, tree
<1>4. \A s \in Stream : ~Halfway(s, m)'
  BY <1>1 DEF Halfway
<1> QED BY <1>2, <1>3, <1>4 DEF CappedInv, RootInv, StaleInv, FilterInv, ClassInv, RateInv

\* What changes nothing of the streams, the hooks and the tree.
LEMMA CappedIdle ==
  ASSUME NEW m \in Device, CappedInv(m),
         UNCHANGED <<rule, session, override, root, class, leaf, filter, police, job, applied, reported>>
  PROVE  CappedInv(m)'
BY DEF CappedInv, RootInv, StaleInv, FilterInv, ClassInv, RateInv, Capping, Building, Awaited, Awaits, Stale,
       Wrong, Going, Halfway, Laying, AtWipe, AtRoot, AtDefault, AtLeaf

\* A rate is changed while nothing else happens to the device.
LEMMA CappedShape ==
  ASSUME Careful, TypeInv, LoneInv, NEW m \in Device, CappedInv(m),
         NEW n \in Device, NEW r \in Rate \cup {None}, Shape(n, r)
  PROVE  CappedInv(m)'
<1>0. /\ UNCHANGED <<rule, session, root, leaf, filter, police, job, applied, reported>>
      /\ Default \notin Device /\ n # Default /\ m # Default
      /\ \A s \in Stream : job[s].pc \in {"idle", "retry"}
      /\ override' = [override EXCEPT ![n] = IF r = None THEN "cleared" ELSE r]
      /\ job[AddHook(n)].pc = "idle" /\ job[RemoveHook(n)].pc = "idle" /\ session[n] = "active"
  BY TwoHooks, EmptyTypes, QdiscAssumption DEF Shape, Applying, Busy, told
<1>1. IF rule \in Rate /\ r # None THEN ChangeClientClassRate(n, r) ELSE UNCHANGED class
  BY DEF Shape
<1>2. CASE n # m
  <2>1. /\ \A c \in {m, Default} : c \in DOMAIN class' <=> c \in DOMAIN class
        /\ m \in DOMAIN class => class'[m] = class[m]
    BY <1>0, <1>1, <1>2 DEF ChangeClientClassRate, ClassWith
  <2>2. override'[m] = override[m]
    BY <1>0, <1>2 DEF TypeInv, DeviceOK
  <2>3. /\ AddHook(n) \in Proc /\ AddHook(n) \notin {AddHook(m), RemoveHook(m)} /\ AddHook(n) \notin Stream
        /\ Others(AddHook(n)) /\ ~Halfway(AddHook(n), m) /\ ~Halfway(AddHook(n), m)'
    BY <1>0, <1>2, TwoHooks DEF Others, Halfway
  <2> QED BY <1>0, <2>1, <2>2, <2>3, Elsewhere
<1>3. CASE n = m
  <2>1. /\ \A s \in Stream : /\ ~Awaits(s, m) /\ ~AtRoot(s)
                             /\ ~Halfway(s, m) /\ ~Halfway(s, m)'
        /\ ~Building /\ ~Building' /\ ~Stale(m) /\ ~Stale(m)'
    BY <1>0, <1>3 DEF Awaits, AtRoot, AtWipe, AtDefault, AtLeaf, Halfway, Building, Stale
  <2>2. Capping' <=> Capping
    BY <1>0, <2>1 DEF Capping
  <2>3. CASE ~Capping
    BY <1>0, <2>1, <2>2, <2>3 DEF CappedInv, RootInv, StaleInv, FilterInv, ClassInv, RateInv
  <2>4. CASE Capping
    <3>1. m \in DOMAIN class
      BY <1>0, <1>3, <2>1, <2>4 DEF CappedInv, ClassInv, Awaited
    <3>2. DOMAIN class' = DOMAIN class /\ (r # None => class'[m] = r)
      BY <1>1, <1>3, <2>4, <3>1 DEF ChangeClientClassRate, Capping
    <3>3. override'[m] = IF r = None THEN "cleared" ELSE r
      BY <1>0, <1>3 DEF TypeInv, DeviceOK
    <3>4. RootInv'
      BY <1>0, <2>1, <2>4 DEF CappedInv, RootInv
    <3>5. StaleInv(m)' /\ ClassInv(m)'
      BY <2>1, <3>1, <3>2 DEF StaleInv, ClassInv
    <3>6. \A p \in Proc : Laying(p, m) => Laying(p, m)'
      BY <1>0, <3>2 DEF Laying, Halfway
    <3>7. FilterInv(m)'
      BY <1>0, <2>2, <3>2, <3>6 DEF CappedInv, FilterInv
    <3>8. RateInv(m)'
      BY <2>1, <3>2, <3>3 DEF RateInv
    <3> QED BY <3>4, <3>5, <3>7, <3>8 DEF CappedInv
  <2> QED BY <2>3, <2>4
<1> QED BY <1>2, <1>3

\* The tree is emptied, and gets a new root.
LEMMA CappedRoot ==
  ASSUME TypeInv, HopeInv, LoneInv, NEW m \in Device \ touched', CappedInv(m), NEW s \in Stream,
         Wipe(s) \/ (Root(s) /\ root = "none")
  PROVE  CappedInv(m)'
<1>0. job \in Jobs /\ SameRule /\ Rooted /\ m \in Device /\ s \in Proc
  BY Processes DEF TypeInv, JobOK, HopeInv
<1>1. ASSUME Others(s), UNCHANGED rule, DOMAIN class' = {}, job[s].pc \in {"wipe", "root"},
             job'[s].pc \notin {"leaf", "filter"}, Capping' => Awaits(s, m)',
             Capping' => root' = "htb" \/ AtRoot(s)',
             m \in filter' => m \in {x[1] : x \in police'},
             Stale(m) => \A t \in Stream \ {s} : ~Halfway(t, m)
      PROVE  CappedInv(m)'
  <2>1. Capping' => Awaited(m)'
    BY <1>1 DEF Awaited
  <2>2. Stale(m)' <=> Stale(m)
    BY <1>1, TwoHooks DEF Stale, Others
  <2>3. \A t \in Stream : Stale(m) => ~Halfway(t, m)'
    BY <1>1, Processes DEF Halfway, Others
  <2>4. ~Wrong(m)' /\ m \notin DOMAIN class'
    BY <1>1 DEF Wrong
  <2> QED BY <1>1, <2>1, <2>2, <2>3, <2>4
          DEF CappedInv, RootInv, StaleInv, FilterInv, ClassInv, RateInv
<1>2. CASE Wipe(s)
  <2>1. /\ job[s].pc = "wipe" /\ job'[s].pc = "root" /\ Others(s) /\ UNCHANGED rule
        /\ root' = "none" /\ DOMAIN class' = {} /\ filter' = {}
    BY <1>0, <1>2, WipeIs, EmptyTypes
  <2>2. AtRoot(s)'
    BY <2>1 DEF AtRoot
  <2>3. ASSUME Stale(m), NEW t \in Stream \ {s}, Halfway(t, m) PROVE FALSE
    <3>1. job[Boot].pc = "idle" /\ job[t].pc # "idle"
      BY <2>3 DEF LoneInv, Halfway
    <3>2. s \in Request /\ t \in Request
      BY <2>1, <3>1 DEF Stream
    <3> QED BY <2>1, <2>3, <3>1, <3>2 DEF LoneInv
  <2> QED BY <1>1, <2>1, <2>2, <2>3 DEF Awaits
<1>3. CASE Root(s) /\ root = "none"
  <2>1. job[s].pc = "root" /\ UNCHANGED <<rule, class, leaf, filter, police>> /\ job[s].rule = rule
    BY <1>0, <1>3, RootIs DEF SameRule
  <2>2. /\ Others(s)
        /\ \/ rule = "cake" /\ job'[s].pc = "verify"
           \/ rule # "cake" /\ root' = "htb" /\ job'[s].pc = "class" /\ job'[s].dev = Default
    <3>1. ~Fault(Device)
      BY DEF Fault
    <3> QED BY <1>0, <1>3, <2>1, <3>1, RootIs
  <2>3. DOMAIN class = {}
    BY <1>0, <1>3 DEF Rooted
  <2>4. Capping' => Awaits(s, m)' /\ root' = "htb"
    <3>1. rule \in Rate => rule # "cake"
      BY QdiscAssumption
    <3>2. rule # "cake" => AtDefault(s)' /\ root' = "htb"
      BY <2>1, <2>2, <2>3 DEF AtDefault
    <3> QED BY <2>1, <3>1, <3>2 DEF Capping, Awaits
  <2>5. Stale(m) => \A t \in Stream \ {s} : ~Halfway(t, m)
    BY <2>3 DEF CappedInv, StaleInv
  <2>6. m \in filter => m \in {x[1] : x \in police}
    BY DEF CappedInv, FilterInv
  <2> QED BY <1>1, <2>1, <2>2, <2>3, <2>4, <2>5, <2>6
<1> QED BY <1>2, <1>3

\* A session starts or stops; its hook begins when the one before is over.
LEMMA CappedSwitch ==
  ASSUME Careful, TypeInv, LoneInv, NEW m \in Device, CappedInv(m),
         NEW n \in Device, SessionStarts(n) \/ \E to \in {"none", "paused"} : SessionStops(n, to)
  PROVE  CappedInv(m)'
<1>1. PICK act \in {"add", "remove"} :
        /\ HookAfter(n, act)
        /\ \A d \in Device \ {n} : session'[d] = session[d] /\ override'[d] = override[d]
        /\ session'[n] = "active" <=> act = "add"
        /\ act = "add" => override' = override
  BY DEF SessionStarts, SessionStops, TypeInv, DeviceOK
<1> DEFINE h == <<n, act>>
<1>2. Others(h) /\ job'[h].pc = "read"
  BY <1>1, HookAfterType DEF TypeInv
<1>3. h \in Proc /\ h \notin Stream /\ h = IF act = "add" THEN AddHook(n) ELSE RemoveHook(n)
  BY <1>1, Processes DEF Hook, AddHook, RemoveHook
<1> HIDE DEF h
<1>4. job[AddHook(n)].pc = "idle" /\ job[RemoveHook(n)].pc = "idle"
  BY <1>1, TwoHooks, EmptyTypes DEF HookAfter, Busy
<1>5. UNCHANGED <<rule, root, class, leaf, filter, police, applied, reported>>
  BY <1>1 DEF HookAfter, tree, told
<1>6. ~Halfway(h, m) /\ ~Halfway(h, m)'
  BY <1>2, <1>3, <1>4 DEF Halfway
<1>7. CASE n # m
  BY <1>1, <1>2, <1>3, <1>5, <1>6, <1>7, TwoHooks, Elsewhere
<1>8. CASE n = m
  <2>1. /\ \A s \in Stream : job'[s] = job[s]
        /\ \A q \in Proc \ {h} : job'[q] = job[q]
        /\ \A q \in Proc : Laying(q, m) => Laying(q, m)'
        /\ \A s \in Stream : Halfway(s, m)' <=> Halfway(s, m)
        /\ \A s \in Stream : AtWipe(s)' <=> AtWipe(s)
        /\ \A s \in Stream : AtRoot(s)' <=> AtRoot(s)
        /\ \A s \in Stream : Awaits(s, m)' <=> Awaits(s, m)
    BY <1>2, <1>3, <1>5, <1>6, OthersWait, Processes DEF Others, Laying
  <2>2. (Building' <=> Building) /\ (Capping' <=> Capping) /\ (Awaited(m)' <=> Awaited(m))
    BY <1>5, <2>1 DEF Building, Capping, Awaited
  <2>3. ~Stale(m)' /\ (Wrong(m)' <=> Wrong(m)) /\ ~Going(m)
    BY <1>2, <1>3, <1>4, <1>5, <1>8, <2>1, TwoHooks DEF Stale, Wrong, Going
  <2>4. RootInv' /\ StaleInv(m)'
    BY <1>5, <2>1, <2>2, <2>3 DEF CappedInv, RootInv, StaleInv
  <2>5. FilterInv(m)'
    BY <1>4, <1>5, <1>8, <2>1, <2>2 DEF CappedInv, FilterInv
  <2>6. ClassInv(m)'
    BY <1>1, <1>2, <1>3, <1>8 DEF ClassInv
  <2>7. RateInv(m)'
    <3>1. CASE act = "add"
      BY <1>1, <1>5, <1>8, <2>1, <2>2, <2>3, <3>1 DEF CappedInv, RateInv
    <3>2. CASE act = "remove"
      <4>1. Going(m)'
        BY <1>2, <1>3, <1>8, <3>2 DEF Going
      <4> QED BY <2>1, <2>2, <2>3, <4>1 DEF CappedInv, RateInv
    <3> QED BY <3>1, <3>2
  <2> QED BY <2>4, <2>5, <2>6, <2>7 DEF CappedInv
<1> QED BY <1>7, <1>8

\* A hook reads the rule, and removes filter and class.
LEMMA CappedHook ==
  ASSUME TypeInv, LoneInv, NEW m \in Device \ touched', CappedInv(m), NEW h \in Hook,
         HookRead(h) \/ Unfilter(h) \/ Unclass(h)
  PROVE  CappedInv(m)'
<1>0. /\ job \in Jobs /\ m \in Device /\ h \in Proc /\ h \notin Stream /\ h[1] \in Device
      /\ Default \notin Device /\ ProperHook(h, job[h]) /\ TreeOK
      /\ Others(h) /\ UNCHANGED <<rule, session, override, root, applied, reported>>
  BY Processes, HookIs, QdiscAssumption DEF TypeInv, JobOK, ProperJob
<1>1. CASE HookRead(h)
  <2>1. /\ job[h].pc = "read" /\ UNCHANGED <<class, leaf, filter, police>>
        /\ \/ rule \notin Rate /\ job'[h] = Idle
           \/ /\ rule \in Rate /\ job'[h].pc = IF h[2] = "add" THEN "class" ELSE "unfilter"
              /\ job'[h].rule = rule
    BY <1>0, <1>1, HookIs
  <2>2. ~Laying(h, m)
    BY <2>1 DEF Laying, Halfway
  <2>3. CASE rule \in Rate
    BY <1>0, <2>1, <2>2, <2>3, TwoHooks, HookBeside
  <2>4. CASE rule \notin Rate
    <3>1. job'[h].pc = "idle" /\ ~Capping
      BY <2>1, <2>4, EmptyTypes DEF Capping
    <3> QED BY <1>0, <2>1, <2>2, <3>1, HookBeside
  <2> QED BY <2>3, <2>4
<1>2. ASSUME job[h].pc \in {"unfilter", "unclass"}, job'[h].pc \in {"idle", "unclass"}
      PROVE  /\ h = RemoveHook(h[1]) /\ ~Halfway(h, m) /\ ~Halfway(h, m)'
             /\ h[1] # m => h \notin {AddHook(m), RemoveHook(m)}
             /\ h[1] = m => session[m] # "active" /\ job[AddHook(m)].pc = "idle" /\ ~Stale(m)' /\ session'[m] # "active"
  <2>1. h = RemoveHook(h[1])
    BY <1>0, <1>2, TwoHooks DEF ProperHook
  <2>2. h[1] # m => h \notin {AddHook(m), RemoveHook(m)}
    BY <1>0, <2>1, TwoHooks
  <2>3. ASSUME h[1] = m
        PROVE  session[m] # "active" /\ job[AddHook(m)].pc = "idle" /\ ~Stale(m)'
    <3>1. session[m] # "active"
      BY <1>0, <1>2, <2>1, <2>3 DEF LoneInv
    <3>2. job[AddHook(m)].pc = "idle"
      BY <1>0, <3>1 DEF LoneInv
    <3>3. job'[AddHook(m)] = job[AddHook(m)]
      BY <1>0, <2>1, <2>3, TwoHooks DEF Others
    <3> QED BY <3>1, <3>2, <3>3 DEF Stale
  <2> QED BY <1>0, <1>2, <2>1, <2>2, <2>3 DEF Halfway
<1>3. ASSUME h[1] = m, job[h].pc \in {"unfilter", "unclass"}, job'[h].pc \in {"idle", "unclass"},
             Going(m) /\ Wrong(m)' => Going(m)', FilterInv(m)', Wrong(m)' => Wrong(m) /\ class'[m] = class[m],
             Default \in DOMAIN class' <=> Default \in DOMAIN class, Default \in leaf' <=> Default \in leaf
      PROVE  CappedInv(m)'
  <2>1. \A s \in Stream : job'[s] = job[s]
    BY <1>0, Processes DEF Others
  <2>2. /\ \A s \in Stream : (Halfway(s, m)' <=> Halfway(s, m)) /\ (AtRoot(s)' <=> AtRoot(s))
        /\ \A s \in Stream : AtWipe(s)' <=> AtWipe(s)
        /\ Building' <=> Building
    BY <1>0, <2>1 DEF Halfway, AtRoot, AtWipe, Building
  <2>3. Capping' <=> Capping
    BY <1>0, <2>2 DEF Capping
  <2>4. RootInv'
    BY <1>0, <2>2, <2>3 DEF CappedInv, RootInv
  <2>5. StaleInv(m)' /\ ClassInv(m)'
    BY <1>2, <1>3 DEF StaleInv, ClassInv
  <2>6. RateInv(m)'
    BY <1>0, <1>2, <1>3, <2>2, <2>3 DEF CappedInv, RateInv
  <2> QED BY <1>3, <2>4, <2>5, <2>6 DEF CappedInv
<1>4. CASE Unfilter(h)
  <2>1. job[h].pc = "unfilter" /\ job'[h].pc = "unclass" /\ UNCHANGED <<class, leaf>>
    BY <1>0, <1>4, HookIs DEF Unfilter
  <2>2. CASE h[1] # m
    <3>1. m \in filter' <=> m \in filter
      BY <1>4, <2>2 DEF Unfilter
    <3>2. (m \in {x[1] : x \in police'}) <=> (m \in {x[1] : x \in police})
      BY <1>4, <2>2 DEF Unfilter
    <3> QED BY <1>0, <1>2, <2>1, <2>2, <3>1, <3>2, Elsewhere
  <2>3. CASE h[1] = m
    <3>1. filter' = filter \ {m}
      BY <1>4, <2>3 DEF Unfilter, Fault
    <3>2. job'[RemoveHook(m)].pc = "unclass"
      BY <1>2, <2>1, <2>3
    <3>3. Going(m)' /\ FilterInv(m)'
      BY <3>1, <3>2 DEF Going, FilterInv
    <3> QED BY <1>0, <1>3, <2>1, <2>3, <3>3 DEF Wrong
  <2> QED BY <2>2, <2>3
<1>5. CASE Unclass(h)
  <2>1. job[h].pc = "unclass" /\ job'[h].pc = "idle" /\ UNCHANGED <<filter, police>>
    BY <1>0, <1>5, HookIs, EmptyTypes DEF Unclass
  <2>2. \/ class' = class
        \/ class' = Restrict(class, DOMAIN class \ {h[1]})
    BY <1>5 DEF Unclass
  <2>3. \A c \in (Device \cup {Default}) \ {h[1]} :
          /\ c \in DOMAIN class' <=> c \in DOMAIN class
          /\ c \in leaf' <=> c \in leaf
          /\ c \in DOMAIN class => class'[c] = class[c]
    BY <1>5, <2>2 DEF Restrict, Unclass
  <2>4. CASE h[1] # m
    BY <1>0, <1>2, <2>1, <2>3, <2>4, Elsewhere
  <2>5. CASE h[1] = m
    <3>1. m \in DOMAIN class' => class' = class /\ m \in filter
      BY <1>5, <2>5 DEF Unclass, Restrict, Fault
    <3>2. ~Going(m) \/ ~Wrong(m)'
      BY <1>2, <2>1, <2>5, <3>1 DEF Going, Wrong
    <3>3. FilterInv(m)'
      BY <2>1, <3>1 DEF CappedInv, FilterInv
    <3>4. Wrong(m)' => Wrong(m) /\ class'[m] = class[m]
      BY <1>0, <3>1 DEF Wrong
    <3> QED BY <1>0, <1>3, <2>1, <2>3, <2>5, <3>2, <3>3, <3>4
  <2> QED BY <2>4, <2>5
<1> QED BY <1>1, <1>4, <1>5

\* A class is added: the default class, which the stream goes on with, the class of the
\* device at the rate of the rule, or at the rate of an earlier one.
LEMMA CappedClass ==
  ASSUME TypeInv, HopeInv, LoneInv, NEW m \in Device \ touched', CappedInv(m), NEW p \in Proc,
         ClassAdd(p)
  PROVE  CappedInv(m)'
<1> DEFINE d == job[p].dev
<1>0. /\ job \in Jobs /\ SameRule /\ TreeOK /\ m \in Device /\ m # Default /\ job[p].pc = "class"
      /\ p \in Stream => p \notin {AddHook(m), RemoveHook(m)}
      /\ p \notin Stream => d = p[1] /\ d \in Device /\ p = AddHook(d)
  <2>1. p \in Stream => p \notin {AddHook(m), RemoveHook(m)}
    BY TwoHooks
  <2>2. p \notin Stream => p \in Hook /\ ProperHook(p, job[p])
    BY Processes DEF TypeInv, JobOK, ProperJob
  <2> QED BY <2>1, <2>2, TwoHooks, Processes, QdiscAssumption
          DEF TypeInv, JobOK, HopeInv, ClassAdd, ProperHook
<1>1. ASSUME NEW allowed \in BOOLEAN, Refused(p, allowed),
             allowed <=> root = "htb" /\ d \notin DOMAIN class
      PROVE  CappedInv(m)'
  BY <1>0, <1>1, CappedRefused
<1>2. ASSUME root = "htb", d \notin DOMAIN class, class' = ClassWith(d, RateOf(job[p])),
             Others(p), job'[p].pc = "leaf", job'[p].dev = d, job'[p].todo = job[p].todo,
             UNCHANGED <<rule, session, override, root, leaf, filter, police, applied, reported>>
      PROVE  CappedInv(m)'
  <2>0. /\ DOMAIN class' = DOMAIN class \cup {d} /\ class'[d] = RateOf(job[p])
        /\ \A c \in DOMAIN class \ {d} : class'[c] = class[c]
    BY <1>0, <1>2, ClassAdded
  <2>1. CASE d \notin {m, Default}
    <3>1. ~Halfway(p, m) /\ ~Halfway(p, m)' /\ p \notin {AddHook(m), RemoveHook(m)}
      BY <1>0, <1>2, <2>1, TwoHooks DEF Halfway
    <3>2. Awaits(p, m) => Awaits(p, m)'
      BY <1>0, <1>2, <2>1 DEF Awaits, AtRoot, AtWipe, AtDefault, AtLeaf
    <3> QED BY <1>0, <1>2, <2>0, <2>1, <3>1, <3>2, Elsewhere
  <2>2. CASE d = Default
    <3>1. p \in Stream /\ ~Halfway(p, m) /\ ~Halfway(p, m)'
      BY <1>0, <1>2, <2>2, QdiscAssumption DEF Halfway
    <3>2. AtLeaf(p)'
      BY <1>0, <1>2, <2>0, <2>2 DEF AtLeaf, TreeOK
    <3>3. Awaited(m)'
      BY <3>1, <3>2 DEF Awaited, Awaits
    <3> QED BY <1>0, <1>2, <2>0, <2>2, <3>1, <3>3, ElsewhereAwaited
  <2>3. CASE d = m
    <3>1. m \in DOMAIN class' /\ class'[m] = job[p].rule
      BY <1>0, <2>0, <2>3 DEF RateOf
    <3>2. Laying(p, m)'
      BY <1>0, <1>2, <2>3, <3>1 DEF Laying, Halfway, TreeOK
    <3>3. RootInv' /\ StaleInv(m)' /\ ClassInv(m)'
      BY <1>2, <3>1 DEF RootInv, StaleInv, ClassInv
    <3>4. FilterInv(m)'
      BY <1>2, <3>2 DEF CappedInv, FilterInv
    <3>5. RateInv(m)'
      <4> SUFFICES ASSUME Capping', Wrong(m)' PROVE RateInv(m)'
        BY DEF RateInv
      <4>1. p \notin Stream /\ p = AddHook(m)
        BY <1>0, <1>2, <2>3, <3>1 DEF SameRule, Wrong
      <4>2. \A s \in Stream : job'[s] = job[s]
        BY <1>2, <4>1 DEF Others, Stream, Proc
      <4>3. Stale(m) /\ session[m] = "active"
        BY <1>0, <1>2, <3>1, <4>1 DEF Stale, Wrong, LoneInv
      <4>4. Capping
        BY <1>2, <4>2 DEF Capping, Building
      <4>5. (\A s \in Stream : ~Halfway(s, m)) /\ Awaited(m)
        BY <1>2, <2>3, <4>3, <4>4 DEF CappedInv, StaleInv
      <4>6. \A s \in Stream : ~Halfway(s, m)'
        BY <4>2, <4>5 DEF Halfway
      <4>7. Default \in DOMAIN class' <=> Default \in DOMAIN class
        BY <1>0, <2>0, <2>3
      <4>8. \A s \in Stream : Awaits(s, m) => Awaits(s, m)'
        BY <1>2, <4>2, <4>7 DEF Awaits, AtRoot, AtWipe, AtDefault, AtLeaf
      <4>9. Awaited(m)'
        BY <4>5, <4>8 DEF Awaited
      <4> QED BY <1>2, <4>3, <4>6, <4>9 DEF RateInv
    <3> QED BY <3>3, <3>4, <3>5 DEF CappedInv
  <2> QED BY <2>1, <2>2, <2>3
<1> QED BY <1>0, <1>1, <1>2, ClassAddIs

\* A leaf is added, to the default class or to a device's.
LEMMA CappedLeaf ==
  ASSUME TypeInv, HopeInv, LoneInv, NEW m \in Device \ touched', CappedInv(m), NEW p \in Proc,
         LeafAdd(p)
  PROVE  CappedInv(m)'
<1> DEFINE d == job[p].dev
<1>0. /\ job \in Jobs /\ SameRule /\ TreeOK /\ m \in Device /\ m # Default /\ job[p].pc = "leaf"
      /\ p \in Stream => p \notin {AddHook(m), RemoveHook(m)}
      /\ p \notin Stream => d = p[1] /\ d \in Device /\ p = AddHook(d)
  <2>1. p \in Stream => p \notin {AddHook(m), RemoveHook(m)}
    BY TwoHooks
  <2>2. p \notin Stream => p \in Hook /\ ProperHook(p, job[p])
    BY Processes DEF TypeInv, JobOK, ProperJob
  <2> QED BY <2>1, <2>2, TwoHooks, Processes, QdiscAssumption
          DEF TypeInv, JobOK, HopeInv, LeafAdd, ProperHook
<1>1. ASSUME NEW allowed \in BOOLEAN, Refused(p, allowed), allowed <=> d \in DOMAIN class \ leaf
      PROVE  CappedInv(m)'
  BY <1>0, <1>1, CappedRefused
<1>2. ASSUME d \in DOMAIN class \ leaf, leaf' = leaf \cup {d}, Others(p), job'[p].dev = d,
             job'[p].pc = IF d # Default THEN "filter"
                          ELSE IF job[p].rule = "global" THEN "verify" ELSE "snapshot",
             job'[p].todo = job[p].todo,
             UNCHANGED <<rule, session, override, root, class, filter, police, applied, reported>>
      PROVE  CappedInv(m)'
  <2>1. CASE d \notin {m, Default}
    <3>1. ~Halfway(p, m) /\ ~Halfway(p, m)' /\ p \notin {AddHook(m), RemoveHook(m)}
      BY <1>0, <1>2, <2>1, TwoHooks DEF Halfway
    <3>2. Awaits(p, m) => Awaits(p, m)'
      BY <1>0, <1>2, <2>1 DEF Awaits, AtRoot, AtWipe, AtDefault, AtLeaf
    <3> QED BY <1>0, <1>2, <2>1, <3>1, <3>2, Elsewhere
  <2>2. CASE d = Default
    <3>1. p \in Stream /\ ~Halfway(p, m) /\ ~Halfway(p, m)'
      BY <1>0, <1>2, <2>2, QdiscAssumption DEF Halfway
    <3>2. Capping' => job'[p].pc = "snapshot"
      BY <1>0, <1>2, <2>2, <3>1, QdiscAssumption DEF Capping, SameRule
    <3>3. Capping' => Awaited(m)'
      BY <3>1, <3>2 DEF Awaited, Awaits
    <3> QED BY <1>0, <1>2, <2>2, <3>1, <3>3, ElsewhereAwaited
  <2>3. CASE d = m
    <3>0. m \in DOMAIN class' /\ DOMAIN class' = DOMAIN class /\ job'[p].pc = "filter"
      BY <1>0, <1>2, <2>3
    <3>1. Laying(p, m)' /\ Halfway(p, m)
      BY <1>0, <1>2, <2>3, <3>0 DEF Laying, Halfway
    <3>2. /\ \A s \in Stream : AtRoot(s)' <=> AtRoot(s)
          /\ \A s \in Stream : AtWipe(s)' <=> AtWipe(s)
          /\ \A s \in Stream : Halfway(s, m)' <=> Halfway(s, m)
          /\ \A s \in Stream \ {p} : Awaits(s, m) => Awaits(s, m)'
          /\ Building' <=> Building
      <4>1. \A s \in Stream \ {p} : job'[s] = job[s]
        BY <1>2, Processes DEF Others
      <4> QED BY <1>0, <1>2, <2>3, <3>0, <3>1, <4>1
              DEF AtRoot, AtWipe, AtDefault, AtLeaf, Awaits, Halfway, Laying, Building
    <3>3. Capping' <=> Capping
      BY <1>2, <3>2 DEF Capping
    <3>4. RootInv'
      BY <1>2, <3>2, <3>3 DEF CappedInv, RootInv
    <3>5. StaleInv(m)' /\ ClassInv(m)'
      BY <3>0 DEF StaleInv, ClassInv
    <3>6. FilterInv(m)'
      BY <1>2, <3>1 DEF CappedInv, FilterInv
    <3>7. RateInv(m)'
      <4> SUFFICES ASSUME Capping', Wrong(m)' PROVE RateInv(m)'
        BY DEF RateInv
      <4>1. Capping /\ Wrong(m)
        BY <1>2, <3>3 DEF Wrong
      <4>2. \A s \in Stream : ~Halfway(s, m)
        BY <4>1 DEF CappedInv, RateInv
      <4>3. p \notin Stream /\ p # RemoveHook(m)
        BY <1>0, <2>3, <3>1, <4>2, TwoHooks
      <4>4. Going(m) => Going(m)'
        BY <1>2, <4>3, TwoHooks DEF Going, Others
      <4>5. Awaited(m) => Awaited(m)'
        BY <3>2, <4>3 DEF Awaited
      <4> QED BY <1>2, <3>2, <4>1, <4>2, <4>4, <4>5 DEF CappedInv, RateInv
    <3> QED BY <3>4, <3>5, <3>6, <3>7 DEF CappedInv
  <2> QED BY <2>1, <2>2, <2>3
<1> QED BY <1>0, <1>1, <1>2, LeafAddIs

\* A device gets its filter, and its upload is policed.
LEMMA CappedFilter ==
  ASSUME TypeInv, HopeInv, LoneInv, NEW m \in Device \ touched', CappedInv(m), NEW p \in Proc,
         FilterAdd(p)
  PROVE  CappedInv(m)'
<1> DEFINE d == job[p].dev
<1>0. /\ job \in Jobs /\ TreeOK /\ m \in Device /\ m # Default /\ job[p].pc = "filter"
      /\ d \in Device /\ d # Default
      /\ p \in Stream => p \notin {AddHook(m), RemoveHook(m)}
      /\ p \notin Stream => d = p[1] /\ p = AddHook(d)
  <2>1. p \in Stream => p \notin {AddHook(m), RemoveHook(m)}
    BY TwoHooks
  <2>2. p \notin Stream => p \in Hook /\ ProperHook(p, job[p])
    BY Processes DEF TypeInv, JobOK, ProperJob
  <2>3. p \in Stream => ProperStream(job[p])
    BY DEF TypeInv, JobOK, ProperJob
  <2> QED BY <2>1, <2>2, <2>3, TwoHooks, Processes, QdiscAssumption
          DEF TypeInv, JobOK, FilterAdd, ProperHook, ProperStream
<1>1. ASSUME NEW allowed \in BOOLEAN, Refused(p, allowed), allowed <=> root = "htb"
      PROVE  CappedInv(m)'
  BY <1>0, <1>1, CappedRefused
<1>2. ASSUME root = "htb", filter' = filter \cup {d}, police' = police \cup {<<d, job[p].rule>>},
             Others(p), p \in Stream => job'[p].pc = "next" /\ job'[p].todo = job[p].todo,
             p \notin Stream => job'[p] = Idle,
             UNCHANGED <<rule, session, override, root, class, leaf, applied, reported>>
      PROVE  CappedInv(m)'
  <2>0. job'[p].pc \in {"next", "idle"} /\ ~Halfway(p, m)'
    BY <1>2, EmptyTypes DEF Halfway
  <2>1. p \in Stream /\ Awaits(p, m) => Awaits(p, m)'
    BY <1>0, <1>2 DEF Awaits, AtRoot, AtWipe, AtDefault, AtLeaf
  <2>2. CASE d # m
    <3>1. ~Halfway(p, m) /\ p \notin {AddHook(m), RemoveHook(m)}
      BY <1>0, <2>2, TwoHooks DEF Halfway
    <3>2. (m \in {x[1] : x \in police'}) <=> (m \in {x[1] : x \in police})
      BY <1>2, <2>2
    <3> QED BY <1>0, <1>2, <2>0, <2>1, <2>2, <3>1, <3>2, Elsewhere
  <2>3. CASE d = m
    <3>1. Halfway(p, m) /\ m \in filter' /\ m \in {x[1] : x \in police'}
      <4>1. <<m, job[p].rule>> \in police' /\ <<m, job[p].rule>>[1] = m
        BY <1>2, <2>3
      <4> QED BY <1>0, <1>2, <2>3, <4>1 DEF Halfway
    <3>2. /\ \A s \in Stream : AtWipe(s)' <=> AtWipe(s)
          /\ \A s \in Stream : Halfway(s, m)' => Halfway(s, m)
          /\ \A s \in Stream : Awaits(s, m) => Awaits(s, m)'
          /\ Building' <=> Building
      <4>1. \A s \in Stream \ {p} : job'[s] = job[s]
        BY <1>2, Processes DEF Others
      <4> QED BY <1>0, <1>2, <2>0, <2>1, <4>1
              DEF AtRoot, AtWipe, AtDefault, AtLeaf, Awaits, Halfway, Building
    <3>3. (Capping' <=> Capping) /\ (Awaited(m) => Awaited(m)')
      BY <1>2, <3>2 DEF Capping, Awaited
    <3>4. RootInv' /\ FilterInv(m)'
      BY <1>2, <3>1 DEF RootInv, FilterInv
    <3>5. StaleInv(m)'
      <4>1. Stale(m)' => Stale(m)
        BY <1>2, <2>0, TwoHooks DEF Stale, Others
      <4> QED BY <1>2, <3>2, <3>3, <4>1 DEF CappedInv, StaleInv
    <3>6. ClassInv(m)'
      <4>1. job[AddHook(m)].pc \in {"read", "class"} => job'[AddHook(m)] = job[AddHook(m)]
        BY <1>0, <1>2, TwoHooks DEF Others
      <4> QED BY <1>2, <3>3, <4>1 DEF CappedInv, ClassInv
    <3>7. RateInv(m)'
      <4> SUFFICES ASSUME Capping', Wrong(m)' PROVE RateInv(m)'
        BY DEF RateInv
      <4>1. Capping /\ Wrong(m)
        BY <1>2, <3>3 DEF Wrong
      <4>2. \A s \in Stream : ~Halfway(s, m)
        BY <4>1 DEF CappedInv, RateInv
      <4>3. p = AddHook(m)
        BY <1>0, <2>3, <3>1, <4>2
      <4>4. session[m] = "active" /\ job[RemoveHook(m)].pc = "idle"
        BY <1>0, <4>3 DEF LoneInv
      <4>5. ~Going(m)
        BY <4>4 DEF Going
      <4> QED BY <1>2, <3>2, <3>3, <4>1, <4>2, <4>5 DEF CappedInv, RateInv
    <3> QED BY <3>4, <3>5, <3>6, <3>7 DEF CappedInv
  <2> QED BY <2>2, <2>3
<1> QED BY <1>0, <1>1, <1>2, FilterAddIs

\* What a command failed for stays so.
LEMMA TouchedGrows == [Next]_vars => touched \subseteq touched'
<1>1. ASSUME NEW S, Fault(S) PROVE touched \subseteq touched'
  BY <1>1 DEF Fault
<1>2. NoFault => touched \subseteq touched'
  BY DEF NoFault, fault
<1>3. ASSUME NEW p \in Proc, NEW allowed \in BOOLEAN, Refused(p, allowed) PROVE touched \subseteq touched'
  BY <1>1, <1>2, <1>3 DEF Refused
<1>4. ASSUME NEW p \in Proc, ClassAdd(p) \/ LeafAdd(p) \/ FilterAdd(p) PROVE touched \subseteq touched'
  <2>1. CASE UNCHANGED fault
    BY <2>1 DEF fault
  <2> DEFINE id == job[p].dev
  <2>2. CASE Refused(p, root = "htb" /\ id \notin DOMAIN class)
    BY <1>3, <2>2
  <2>3. CASE Refused(p, id \in DOMAIN class \ leaf)
    <3> DEFINE allowed == id \in DOMAIN class \ leaf
    <3>1. allowed \in BOOLEAN /\ Refused(p, allowed)
      BY <2>3
    <3> HIDE DEF allowed
    <3> QED BY <1>3, <3>1
  <2>4. CASE Refused(p, root = "htb")
    BY <1>3, <2>4
  <2> QED BY <1>4, <2>1, <2>2, <2>3, <2>4 DEF ClassAdd, LeafAdd, FilterAdd
<1>5. ASSUME NEW s \in Stream, Wipe(s) \/ Root(s) \/ Snapshot(s) \/ NextDevice(s) \/ Verify(s)
      PROVE  touched \subseteq touched'
  BY <1>1, <1>2, <1>5 DEF Wipe, Root, Snapshot, NextDevice, Verify, fault
<1>6. ASSUME NEW h \in Hook, HookRead(h) \/ Unfilter(h) \/ Unclass(h) PROVE touched \subseteq touched'
  BY <1>1, <1>2, <1>6 DEF HookRead, Unfilter, Unclass, fault
<1>7. ASSUME OperatorStep \/ BootApply \/ ApiRestart \/ PowerCut \/ LinkUp
             \/ \E m \in Device : SessionStarts(m) \/ \E to \in {"none", "paused"} : SessionStops(m, to)
      PROVE  touched \subseteq touched'
  BY <1>7 DEF OperatorStep, SaveQdisc, ApplyQdisc, Shape, BootApply, ApiRestart, PowerCut, LinkUp, Stopped,
              SessionStarts, SessionStops, HookAfter, fault
<1>8. UNCHANGED vars => touched \subseteq touched'
  BY DEF vars, fault
<1> QED BY <1>4, <1>5, <1>6, <1>7, <1>8 DEF Next, OperatorStep

\* Every step keeps a device capped that no command failed for.
LEMMA CapKept ==
  ASSUME Careful, TypeInv, HopeInv, CapInv, [Next]_vars
  PROVE  CapInv'
<1>1. LoneInv /\ LoneInv'
  BY LoneKept DEF CapInv
<1>2. SUFFICES ASSUME NEW m \in Device \ touched' PROVE CappedInv(m)'
  BY <1>1 DEF CapInv
<1>3. m \in Device /\ CappedInv(m)
  BY TouchedGrows DEF CapInv
<1>4. ASSUME NEW r \in Global, SaveQdisc(r) PROVE CappedInv(m)'
  BY <1>3, <1>4, CappedOff
<1>5. ASSUME NEW s \in Request, ApplyQdisc(s) PROVE CappedInv(m)'
  BY <1>1, <1>3, <1>5, CappedApply
<1>6. ASSUME NEW n \in Device, NEW r \in Rate \cup {None}, Shape(n, r) PROVE CappedInv(m)'
  BY <1>1, <1>3, <1>6, CappedShape
<1>7. ASSUME NEW s \in Stream, Wipe(s) \/ Root(s) \/ Snapshot(s) \/ NextDevice(s) \/ Verify(s)
      PROVE  CappedInv(m)'
  BY <1>1, <1>3, <1>7, CappedRoot, CappedStream
<1>8. ASSUME NEW p \in Proc, ClassAdd(p) \/ LeafAdd(p) \/ FilterAdd(p) PROVE CappedInv(m)'
  BY <1>1, <1>3, <1>8, CappedClass, CappedLeaf, CappedFilter
<1>9. ASSUME NEW n \in Device, SessionStarts(n) \/ \E to \in {"none", "paused"} : SessionStops(n, to)
      PROVE  CappedInv(m)'
  BY <1>1, <1>3, <1>9, CappedSwitch
<1>10. ASSUME NEW h \in Hook, HookRead(h) \/ Unfilter(h) \/ Unclass(h) PROVE CappedInv(m)'
  BY <1>1, <1>3, <1>10, CappedHook
<1>11. CASE BootApply
  BY <1>1, <1>3, <1>11, CappedApply
<1>12. CASE ApiRestart \/ PowerCut
  BY <1>3, <1>12, CappedOff
<1>13. CASE LinkUp \/ UNCHANGED vars
  BY <1>3, <1>13, CappedIdle DEF LinkUp, vars, device, tree, told
<1> QED BY <1>4, <1>5, <1>6, <1>7, <1>8, <1>9, <1>10, <1>11, <1>12, <1>13 DEF Next

\* When the operator waits, and shapes running sessions only, every device with a
\* session that no command failed for is capped once the processes are idle and a rule
\* per device is applied: class, filter and upload policing, at the rate of the rule or
\* of the session, or the apply reported it.
THEOREM DevicesStayCapped ==
  ASSUME Careful
  PROVE  Spec => []EveryDeviceCapped
<1>1. Init => CapInv
  <2> SUFFICES ASSUME Init PROVE CapInv
    OBVIOUS
  <2>1. \A p \in Proc : job[p].pc = "idle" /\ ~job[p].again
    BY EmptyTypes DEF Init, Idle
  <2>2. LoneInv
    BY <2>1, Processes, TwoHooks DEF Init, LoneInv, Stale
  <2>3. rule \notin Rate
    BY QdiscAssumption DEF Init, Global
  <2>4. ~Capping /\ filter = {} /\ \A m \in Device : ~Stale(m)
    BY <2>1, <2>3, TwoHooks DEF Init, Capping, Stale
  <2>5. \A m \in Device : CappedInv(m)
    BY <2>4 DEF CappedInv, RootInv, StaleInv, FilterInv, ClassInv, RateInv
  <2> QED BY <2>2, <2>5 DEF CapInv
<1>2. TypeInv /\ HopeInv /\ CapInv /\ [Next]_vars => CapInv'
  BY CapKept
<1>3. CapInv => EveryDeviceCapped
  <2> SUFFICES ASSUME CapInv, Quiet, applied \in Rate, NEW m \in Device \ touched, session[m] = "active"
               PROVE  /\ m \in DOMAIN class \cap filter /\ m \in {x[1] : x \in police}
                      /\ \/ class[m] \in {applied, override[m]} \/ m \in reported
                         \/ override[m] = "cleared"
    BY DEF EveryDeviceCapped
  <2>1. \A p \in Proc : job[p].pc = "idle"
    BY EmptyTypes DEF Quiet
  <2>2. rule = applied /\ rule \in Rate /\ Capping
    BY QdiscAssumption DEF CapInv, LoneInv, Capping, Global
  <2>3. CappedInv(m)
    BY DEF CapInv
  <2>4. \A s \in Stream : ~AtWipe(s) /\ ~Awaits(s, m)
    BY <2>1, Processes DEF Awaits, AtWipe, AtRoot, AtDefault, AtLeaf
  <2>5. \A p \in Proc : ~Laying(p, m)
    BY <2>1 DEF Laying, Halfway
  <2>6. job[AddHook(m)].pc = "idle" /\ job[RemoveHook(m)].pc = "idle"
    BY <2>1, TwoHooks
  <2>7. m \in DOMAIN class
    BY <2>2, <2>3, <2>4, <2>6 DEF CappedInv, ClassInv, Awaited
  <2>8. m \in filter /\ m \in {x[1] : x \in police}
    BY <2>2, <2>3, <2>5, <2>6, <2>7 DEF CappedInv, FilterInv
  <2>9. class[m] # rule => m \in reported \/ override[m] \in {class[m], "cleared"}
    BY <2>2, <2>3, <2>4, <2>6, <2>7 DEF CappedInv, RateInv, Wrong, Going, Awaited
  <2> QED BY <2>2, <2>7, <2>8, <2>9
<1> QED BY <1>1, <1>2, <1>3, HopeHolds, PTL DEF Spec
=============================================================================
