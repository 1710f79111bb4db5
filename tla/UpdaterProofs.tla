---------------------------- MODULE UpdaterProofs ----------------------------
(***************************************************************************)
(* Proofs about Updater for any number of versions, republications,        *)
(* requests, failures, crashes and power cuts.                             *)
(***************************************************************************)
EXTENDS Updater, FiniteSetTheorems, WellFoundedInduction, TLAPS

-----------------------------------------------------------------------------
\* Values

\* The order of the numbers is well founded.
LEMMA LessWellFounded == IsWellFoundedOn({ss \in Nat \X Nat : ss[1] < ss[2]}, Nat)
BY NatLessThanWellFounded DEF OpToRel

\* A set of numbers that is not empty has a least element, which MinOf returns.
LEMMA MinOfType ==
  ASSUME NEW S, S \subseteq Nat, S # {}
  PROVE  MinOf(S) \in S
<1> DEFINE R == {p \in Nat \X Nat : p[1] < p[2]}
<1>1. \E x \in S : \A y \in S : ~ (<<y, x>> \in R)
  <2>1. IsWellFoundedOn(R, Nat)
    BY LessWellFounded
  <2> HIDE DEF R
  <2> QED BY <2>1, WFMin
<1>2. \E x \in S : \A y \in S : x <= y
  <2>1. PICK x \in S : \A y \in S : ~ (<<y, x>> \in R)
    BY <1>1
  <2>2. \A y \in S : ~ (y < x)
    BY <2>1
  <2> QED BY <2>2
<1> QED BY <1>2 DEF MinOf

\* Versions are numbers, and the first and the last of them are versions.
LEMMA VersionNumbers ==
  /\ Version \subseteq Nat \ {0}
  /\ 1 \in Version /\ Cardinality(Version) \in Version
<1>1. Cardinality(Version) \in Nat
  BY FS_CardinalityType, UpdaterAssumption
<1>2. Version = 1 .. Cardinality(Version) /\ Version # {}
  BY UpdaterAssumption DEF UpdaterAssumption
<1>3. Cardinality(Version) >= 1
  <2> DEFINE n == Cardinality(Version)
  <2>1. n \in Nat /\ 1 .. n # {}
    BY <1>1, <1>2
  <2> HIDE DEF n
  <2>2. n >= 1
    BY <2>1
  <2> QED BY <2>2 DEF n
<1> QED BY <1>1, <1>2, <1>3

\* What FetchLatest returns is a manifest of the declared type.
LEMMA FetchType ==
  ASSUME TypeOK, NEW force \in BOOLEAN
  PROVE  FetchLatest(force) \in [manifest: Manifest, fresh: BOOLEAN]
BY DEF TypeOK, FetchLatest

\* The empty cache, the idle job and the script that does not run are well typed.
LEMMA EmptyTypes ==
  /\ NoCache \in [manifest: Manifest, fresh: BOOLEAN]
  /\ Idle \in Job /\ NoScript \in Script
BY DEF NoCache, NoManifest, Manifest, Idle, Job, None, NoScript, Script, Release

-----------------------------------------------------------------------------
\* Jobs

\* Creating or unlinking files changes the links of downloads and nothing else.
LEMMA LinkedJobs ==
  ASSUME TypeOK, NEW l \in {"last", "older", "unlinked"}, NEW V, NEW L
  PROVE  /\ Linked(l, V, L) \in [Worker -> Job]
         /\ \A w \in Worker :
              /\ Linked(l, V, L)[w].pc = job[w].pc /\ Linked(l, V, L)[w].v = job[w].v
              /\ Linked(l, V, L)[w].sha = job[w].sha /\ Linked(l, V, L)[w].gen = job[w].gen
BY DEF TypeOK, Linked, Job

\* A release that is about to be started was named by the staging directory.
LaunchTyped ==
    \A w \in Worker : job[w].pc = "launch" => job[w].sha \in Version /\ job[w].gen \in Gen

\* Some downloads ended and nothing else began: every job is idle or as it was,
\* but for its link.
Calmer ==
    \A w \in Worker :
        \/ job'[w].pc = "idle"
        \/ /\ job'[w].pc = job[w].pc /\ job'[w].v = job[w].v
           /\ job'[w].sha = job[w].sha /\ job'[w].gen = job[w].gen
JobsOK ==
    /\ job \in [Worker -> Job] /\ LaunchTyped
    /\ \A w \in Worker : job[w].pc # "idle" => job[w].v \in Version

\* Jobs that only end, or only lose their link, stay well typed.
LEMMA CalmerType ==
  ASSUME TypeOK, LaunchTyped, Calmer, job' \in [Worker -> Job]
  PROVE  JobsOK'
BY DEF TypeOK, LaunchTyped, Calmer, JobsOK

\* Ending one job, after a file was unlinked or not, leaves the others as they were.
LEMMA EndCalmer ==
  ASSUME TypeOK, NEW w \in Worker, NEW V,
         job' = [job EXCEPT ![w] = Idle] \/ job' = [Unlinked(V) EXCEPT ![w] = Idle]
  PROVE  Calmer /\ job' \in [Worker -> Job]
<1>1. CASE job' = [job EXCEPT ![w] = Idle]
  BY <1>1, EmptyTypes DEF TypeOK, Calmer, Idle
<1>2. CASE job' = [Unlinked(V) EXCEPT ![w] = Idle]
  <2>1. /\ Unlinked(V) \in [Worker -> Job]
        /\ \A u \in Worker :
             /\ Unlinked(V)[u].pc = job[u].pc /\ Unlinked(V)[u].v = job[u].v
             /\ Unlinked(V)[u].sha = job[u].sha /\ Unlinked(V)[u].gen = job[u].gen
    BY LinkedJobs DEF Unlinked
  <2> QED BY <1>2, <2>1, EmptyTypes DEF Calmer, Idle
<1> QED BY <1>1, <1>2

\* Unlinking files leaves every job as it was.
LEMMA UnlinkCalmer ==
  ASSUME TypeOK, NEW V, job' = Unlinked(V)
  PROVE  Calmer /\ job' \in [Worker -> Job]
BY LinkedJobs DEF Unlinked, Calmer

\* An API that stops has no jobs left.
LEMMA KillCalmer ==
  ASSUME Kill
  PROVE  /\ Calmer /\ job' \in [Worker -> Job]
         /\ \A w \in Worker : job'[w].pc = "idle"
BY EmptyTypes DEF Kill, Calmer, Idle

-----------------------------------------------------------------------------
\* Types

\* An API that stops leaves directories and histories of their types.
LEMMA KillType ==
  ASSUME TypeOK, LaunchTyped, Kill
  PROVE  /\ JobsOK' /\ cache' \in [manifest: Manifest, fresh: BOOLEAN]
         /\ staging' \subseteq Version \X Gen \X PartSet
         /\ unchecked' \subseteq Version \X (Nat \cup {Torn})
<1>1. JobsOK'
  BY KillCalmer, CalmerType
<1>2. unchecked' \subseteq Version \X (Nat \cup {Torn})
  BY DEF Kill, LeftUnchecked, TypeOK
<1>3. staging' \subseteq Version \X Gen \X PartSet
  BY DEF Kill, Unpacked, TypeOK, Gen, Torn
<1> QED BY <1>1, <1>2, <1>3, EmptyTypes DEF Kill

\* The processes that start load what is on disk.
LEMMA StartType ==
  ASSUME TypeOK, StartApi
  PROVE  api' \in BOOLEAN /\ loaded' \in [Daemon -> Release]
BY DEF TypeOK, StartApi, Daemon, PartSet

\* One worker that takes a well typed job leaves the others well typed.
LEMMA TakeType ==
  ASSUME TypeOK, LaunchTyped, NEW w \in Worker, NEW js, NEW r \in Job, r.v \in Version,
         js \in [Worker -> Job],
         \A u \in Worker : /\ js[u].pc = job[u].pc /\ js[u].v = job[u].v
                           /\ js[u].sha = job[u].sha /\ js[u].gen = job[u].gen,
         r.pc = "launch" => r.sha \in Version /\ r.gen \in Gen,
         job' = [js EXCEPT ![w] = r]
  PROVE  JobsOK'
BY DEF TypeOK, LaunchTyped, JobsOK

\* What is unpacked for a job is a part of its version and of a generation.
LEMMA ExtractType ==
  ASSUME TypeOK, NEW v \in Version, file[v] > 0
  PROVE  LET all == staging \cup Unpacked(v, PartSet)
             first == MinOf({s[1] : s \in all})
         IN /\ all \subseteq Version \X Gen \X PartSet
            /\ first \in Version /\ (CHOOSE s \in all : s[1] = first)[2] \in Gen
<1> DEFINE all == staging \cup Unpacked(v, PartSet)
           S == {s[1] : s \in all}
           first == MinOf(S)
<1>1. all \subseteq Version \X Gen \X PartSet
  BY DEF TypeOK, Unpacked, Gen, Torn
<1>2. <<v, file[v], "api">> \in all
  BY DEF Unpacked, PartSet
<1>3. S \subseteq Nat /\ S # {}
  BY <1>1, <1>2, VersionNumbers
<1>4. first \in S
  <2> HIDE DEF S
  <2> QED BY <1>3, MinOfType
<1>5. first \in Version /\ (CHOOSE s \in all : s[1] = first)[2] \in Gen
  <2> HIDE DEF first
  <2>1. PICK s \in all : s[1] = first
    BY <1>4
  <2>2. (CHOOSE t \in all : t[1] = first) \in all
    BY <2>1
  <2> QED BY <1>1, <2>1, <2>2
<1> QED BY <1>1, <1>5

\* The typing that a step preserves: that of the variables and of the releases
\* that are about to be started.
TypeInv == TypeOK /\ LaunchTyped

\* A request of the admin leaves the state well typed.
LEMMA RequestType ==
  ASSUME TypeInv, NEW w \in Worker,
         \/ CheckForUpdate(w) \/ DownloadCopied(w) \/ DownloadBreaks(w) \/ DownloadVerify(w)
         \/ DeleteDownload(w) \/ InstallExtract(w) \/ InstallLaunch(w) \/ InstallFails(w)
         \/ \E v \in Version : DownloadOpen(w, v)
         \/ \E ask \in Version \cup {None} : InstallChoose(w, ask)
  PROVE  TypeInv'
<1>0. /\ TypeOK /\ LaunchTyped /\ job[w] \in Job /\ MaxEvents \in Nat
      /\ job[w].pc # "idle" => job[w].v \in Version
      /\ \A u \in Worker : job[u] \in Job
  BY UpdaterAssumption DEF TypeInv, TypeOK
<1>e. Event => events' \in 0 .. MaxEvents
  BY <1>0 DEF TypeOK, Event
<1>r. ASSUME NEW V PROVE Removed(V) \in [Version -> {Torn} \cup Nat]
  BY <1>0 DEF TypeOK, Removed, None
<1>1. CASE CheckForUpdate(w)
  BY <1>0, <1>1, FetchType DEF CheckForUpdate, TypeInv, TypeOK, LaunchTyped,
        cloudVars, fileVars, diskVars, histVars
<1>2. CASE DownloadCopied(w)
  <2> DEFINE r == [job[w] EXCEPT !.pc = "verify", !.gen = None, !.link = "last"]
  <2>1. r \in Job /\ r.v \in Version /\ r.pc = "verify"
    BY <1>0, <1>2 DEF DownloadCopied, At, Job, None
  <2>2. job' = [job EXCEPT ![w] = r]
    BY <1>2 DEF DownloadCopied, Goto
  <2>3. JobsOK'
    <3> HIDE DEF r
    <3> QED BY <1>0, <2>1, <2>2, TakeType DEF TypeOK
  <2>4. file' \in [Version -> {Torn} \cup Nat]
    BY <1>0, <1>2 DEF DownloadCopied, At, Overwritten, TypeOK, Job, None
  <2> QED BY <1>0, <1>2, <2>3, <2>4 DEF DownloadCopied, JobsOK, TypeInv, TypeOK,
        cloudVars, diskVars, histVars
<1>3. CASE DownloadBreaks(w)
  <2>1. JobsOK'
    BY <1>0, <1>3, EndCalmer, CalmerType DEF DownloadBreaks, Goto
  <2>2. file' \in [Version -> {Torn} \cup Nat]
    BY <1>0, <1>3 DEF DownloadBreaks, At, Overwritten, TypeOK, None
  <2> QED BY <1>0, <1>e, <1>3, <2>1, <2>2 DEF DownloadBreaks, JobsOK, TypeInv, TypeOK,
        cloudVars, diskVars, histVars
<1>4. CASE DownloadVerify(w)
  <2>0. job[w].v \in Version
    BY <1>0, <1>4 DEF DownloadVerify, At
  <2>1. JobsOK'
    BY <1>0, <1>4, EndCalmer, CalmerType DEF DownloadVerify
  <2>2. file' \in [Version -> {Torn} \cup Nat]
    BY <1>0, <1>r, <1>4 DEF DownloadVerify, TypeOK
  <2>3. verified' \subseteq Version \X (Gen \cup {Torn}) /\ deleted' \in BOOLEAN
    BY <1>0, <1>4, <2>0 DEF DownloadVerify, TypeOK, Gen, None
  <2> QED BY <1>0, <1>4, <2>1, <2>2, <2>3 DEF DownloadVerify, JobsOK, TypeInv, TypeOK,
        cloudVars, diskVars
<1>5. CASE DeleteDownload(w)
  <2>1. JobsOK'
    BY <1>0, <1>5, UnlinkCalmer, CalmerType DEF DeleteDownload
  <2> QED BY <1>0, <1>e, <1>r, <1>5, <2>1 DEF DeleteDownload, JobsOK, TypeInv, TypeOK,
        cloudVars, diskVars
<1>6. CASE InstallExtract(w)
  <2> DEFINE v == job[w].v
             all == staging \cup Unpacked(v, PartSet)
             first == MinOf({s[1] : s \in all})
             g == (CHOOSE s \in all : s[1] = first)[2]
             r == [job[w] EXCEPT !.pc = "launch", !.gen = g, !.sha = first]
  <2>0. v \in Version
    BY <1>0, <1>6 DEF InstallExtract, At
  <2>1. CASE file[v] > 0
    <3>1. /\ all \subseteq Version \X Gen \X PartSet /\ first \in Version /\ g \in Gen
      BY <1>0, <2>0, <2>1, ExtractType
    <3>2. staging' = all /\ job' = [job EXCEPT ![w] = r]
      BY <1>6, <2>1 DEF InstallExtract, Goto
    <3> HIDE DEF all, first, g
    <3>3. r \in Job /\ r.v \in Version /\ r.sha \in Version /\ r.gen \in Gen
      BY <1>0, <2>0, <3>1, VersionNumbers DEF Job, Gen
    <3>4. JobsOK'
      <4> HIDE DEF r
      <4> QED BY <1>0, <3>2, <3>3, TakeType DEF TypeOK
    <3> QED BY <1>0, <1>6, <3>1, <3>2, <3>4 DEF InstallExtract, JobsOK, TypeInv, TypeOK,
          cloudVars, diskVars, histVars
  <2>2. CASE ~ (file[v] > 0)
    <3>1. JobsOK'
      BY <1>0, <1>6, <2>2, EndCalmer, CalmerType DEF InstallExtract, Goto
    <3> QED BY <1>0, <1>6, <2>2, <3>1 DEF InstallExtract, JobsOK, TypeInv, TypeOK,
          cloudVars, diskVars, histVars
  <2> QED BY <2>1, <2>2
<1>7. CASE InstallLaunch(w)
  <2>1. JobsOK'
    BY <1>0, <1>7, EndCalmer, CalmerType DEF InstallLaunch, Goto
  <2>2. script' \in Script
    <3>1. <<job[w].sha, job[w].gen>> \in Release /\ job[w].v \in Version \cup {None}
      BY <1>0, <1>7 DEF InstallLaunch, At, LaunchTyped, Release
    <3> DEFINE r == [NoScript EXCEPT !.pc = "sleep", !.dir = <<job[w].sha, job[w].gen>>,
                                     !.ask = job[w].v]
    <3>2. r \in Script
      BY <3>1, EmptyTypes DEF Script
    <3>3. script' \in {script, r}
      BY <1>7 DEF InstallLaunch
    <3> HIDE DEF r
    <3> QED BY <1>0, <3>2, <3>3 DEF TypeOK
  <2> QED BY <1>0, <1>7, <2>1, <2>2, EmptyTypes DEF InstallLaunch, JobsOK, TypeInv, TypeOK,
        cloudVars, fileVars, diskVars, histVars
<1>8. CASE InstallFails(w)
  <2>1. JobsOK'
    BY <1>0, <1>8, EndCalmer, CalmerType DEF InstallFails, Goto
  <2> QED BY <1>0, <1>e, <1>8, <2>1, EmptyTypes DEF InstallFails, JobsOK, TypeInv, TypeOK,
        cloudVars, fileVars, diskVars, histVars
<1>9. ASSUME NEW v \in Version, DownloadOpen(w, v)
      PROVE  TypeInv'
  <2> DEFINE c == FetchLatest(FALSE)
             js == Linked("older", {v}, {"last"})
             r == [Idle EXCEPT !.pc = "copy", !.v = v, !.sha = c.manifest.sha[v], !.gen = blob[v]]
  <2>1. c \in [manifest: Manifest, fresh: BOOLEAN]
    BY <1>0, FetchType
  <2>2. job' = [js EXCEPT ![w] = r] /\ cache' = c
    BY <1>9 DEF DownloadOpen
  <2> HIDE DEF c
  <2>3. r \in Job /\ r.v \in Version /\ r.pc = "copy"
    BY <1>0, <2>1 DEF Idle, Job, Manifest, TypeOK, Gen
  <2>4. JobsOK'
    <3> HIDE DEF r, js
    <3>1. /\ js \in [Worker -> Job]
          /\ \A u \in Worker : /\ js[u].pc = job[u].pc /\ js[u].v = job[u].v
                             /\ js[u].sha = job[u].sha /\ js[u].gen = job[u].gen
      BY <1>0, LinkedJobs DEF js
    <3> QED BY <1>0, <2>2, <2>3, <3>1, TakeType
  <2> QED BY <1>0, <1>9, <2>1, <2>2, <2>4 DEF DownloadOpen, JobsOK, TypeInv, TypeOK,
        cloudVars, diskVars, histVars
<1>10. ASSUME NEW ask \in Version \cup {None}, InstallChoose(w, ask)
       PROVE  TypeInv'
  <2> DEFINE found == {v \in Version : file[v] # None /\ (ask = None \/ v = ask)}
             r == [Idle EXCEPT !.pc = "extract", !.v = MinOf(found)]
  <2>1. MinOf(found) \in Version
    <3>1. found \subseteq Nat /\ found # {} /\ found \subseteq Version
      BY <1>10, VersionNumbers DEF InstallChoose
    <3> HIDE DEF found
    <3> QED BY <3>1, MinOfType
  <2>2. job' = [job EXCEPT ![w] = r]
    BY <1>10 DEF InstallChoose, Goto
  <2> HIDE DEF found
  <2>3. r \in Job /\ r.v \in Version /\ r.pc = "extract"
    BY <2>1 DEF Idle, Job, None
  <2>4. JobsOK'
    <3> HIDE DEF r
    <3> QED BY <1>0, <2>2, <2>3, TakeType DEF TypeOK
  <2> QED BY <1>0, <1>10, <2>4 DEF InstallChoose, JobsOK, TypeInv, TypeOK,
        cloudVars, diskVars, histVars
<1> QED BY <1>1, <1>2, <1>3, <1>4, <1>5, <1>6, <1>7, <1>8, <1>9, <1>10

\* A step of the script or a fault leaves the state well typed.
LEMMA DeviceType ==
  ASSUME TypeInv, ScriptStep \/ ScriptStartFails \/ ApiCrash \/ PowerCut
  PROVE  TypeInv'
<1>0. TypeOK /\ LaunchTyped /\ MaxEvents \in Nat
  BY UpdaterAssumption DEF TypeInv
<1>e. Event => events' \in 0 .. MaxEvents
  BY <1>0 DEF TypeOK, Event
<1>1. CASE ScriptStop
  BY <1>0, <1>1, KillType DEF ScriptStop, Script, JobsOK, TypeInv, TypeOK, cloudVars, diskVars, PartSet
<1>2. ASSUME NEW p \in PartSet, ScriptCopy(p)
      PROVE  TypeInv'
  <2>1. installed' \in [PartSet -> Release] /\ loaded' \in [Daemon -> Release]
    <3>1. script.dir \in Release
      BY <1>0 DEF TypeOK, Script
    <3>2. installed' \in [PartSet -> Release]
      BY <1>0, <1>2, <3>1 DEF ScriptCopy, TypeOK
    <3> QED BY <1>0, <1>2, <3>2 DEF ScriptCopy, TypeOK, PartSet, Daemon
  <2>2. script' \in Script
    BY <1>0, <1>2 DEF ScriptCopy, TypeOK, NextPart, PartSet, Script
  <2> QED BY <1>0, <1>2, <2>1, <2>2 DEF ScriptCopy, TypeInv, TypeOK, LaunchTyped,
        cloudVars, fileVars, histVars
<1>3. CASE ScriptStart
  BY <1>0, <1>3, StartType DEF ScriptStart, Script, TypeInv, TypeOK, LaunchTyped,
        cloudVars, fileVars, histVars
<1>4. CASE ScriptClean
  <2>1. JobsOK'
    BY <1>0, <1>4, UnlinkCalmer, CalmerType DEF ScriptClean
  <2> QED BY <1>0, <1>4, <2>1, EmptyTypes DEF ScriptClean, Removed, JobsOK, None,
        TypeInv, TypeOK, cloudVars, diskVars, histVars
<1>5. CASE ScriptStartFails
  BY <1>0, <1>e, <1>5 DEF ScriptStartFails, Script, TypeInv, TypeOK, LaunchTyped,
        cloudVars, fileVars, diskVars, histVars
<1>6. CASE ApiCrash
  BY <1>0, <1>e, <1>6, KillType, StartType DEF ApiCrash, JobsOK, TypeInv, TypeOK, cloudVars
<1>7. CASE PowerCut
  <2>1. /\ installed' \in [PartSet -> Release] /\ loaded' \in [Daemon -> Release]
        /\ api' \in BOOLEAN
    BY <1>0, <1>7 DEF PowerCut, TypeOK, Release, Daemon, PartSet
  <2> QED BY <1>0, <1>e, <1>7, <2>1, KillType, EmptyTypes DEF PowerCut, JobsOK, TypeInv, TypeOK, cloudVars
<1> QED BY <1>1, <1>2, <1>3, <1>4, <1>5, <1>6, <1>7 DEF ScriptStep

\* The first state is well typed.
LEMMA InitType ==
  ASSUME Init
  PROVE  TypeInv
<1>1. blob \in [Version -> Gen] /\ manifest \in Manifest
  BY VersionNumbers DEF Init, Hashes, Manifest, Gen, None
<1>2. /\ job \in [Worker -> Job] /\ LaunchTyped
      /\ \A w \in Worker : job[w].pc # "idle" => job[w].v \in Version
  BY EmptyTypes DEF Init, Idle, LaunchTyped
<1>3. <<1, 1>> \in Release
  BY VersionNumbers DEF Release, Gen
<1>4. script \in Script
  BY EmptyTypes DEF Init
<1>5. /\ api \in BOOLEAN /\ cut \in BOOLEAN /\ deleted \in BOOLEAN
      /\ file \in [Version -> {Torn} \cup Nat] /\ staging = {} /\ verified = {} /\ unchecked = {}
  BY DEF Init, None
<1>6. events \in 0 .. MaxEvents
  BY UpdaterAssumption DEF Init
<1>7. installed \in [PartSet -> Release] /\ loaded \in [Daemon -> Release]
  BY <1>3 DEF Init
<1>8. cache \in [manifest: Manifest, fresh: BOOLEAN]
  BY EmptyTypes DEF Init
<1> QED BY <1>1, <1>2, <1>4, <1>5, <1>6, <1>7, <1>8 DEF TypeInv, TypeOK

\* A step of anybody leaves the state well typed.
LEMMA StepType ==
  ASSUME TypeInv, [Next]_vars
  PROVE  TypeInv'
<1>1. CASE PublishManifest
  BY <1>1 DEF PublishManifest, Hashes, Manifest, Gen, None, TypeInv, TypeOK, LaunchTyped,
        fileVars, diskVars, histVars
<1>2. ASSUME NEW v \in Version, PublishTarball(v)
      PROVE  TypeInv'
  BY <1>2 DEF PublishTarball, Gen, TypeInv, TypeOK, LaunchTyped, fileVars, diskVars, histVars
<1>3. CASE CacheExpires
  BY <1>3, EmptyTypes DEF CacheExpires, TypeInv, TypeOK, LaunchTyped,
        cloudVars, fileVars, diskVars, histVars
<1>4. CASE UNCHANGED vars
  BY <1>4 DEF vars, TypeInv, TypeOK, LaunchTyped, cloudVars, fileVars, diskVars, histVars
<1> QED BY <1>1, <1>2, <1>3, <1>4, RequestType, DeviceType DEF Next

\* Every reachable state is well typed.
LEMMA TypeInvariant == Spec => []TypeInv
<1>1. Init => TypeInv
  BY InitType
<1>2. TypeInv /\ [Next]_vars => TypeInv'
  BY StepType
<1> QED BY <1>1, <1>2, PTL DEF Spec

\* Type correctness: whatever the requests, the script and the faults do, every
\* variable keeps its type; in particular a release that is started, copied or
\* loaded is one the vendor published, or a part a power cut broke.
THEOREM TypeCorrect == Spec => []TypeOK
<1>1. TypeInv => TypeOK
  BY DEF TypeInv
<1> QED BY <1>1, TypeInvariant, PTL

-----------------------------------------------------------------------------
\* What runs is what is on disk

\* Between the stop and the start of the API its script only copies; otherwise
\* the daemons run what is installed.
LoadedInv ==
    /\ script.pc \in {"none", "sleep", "clean"} => \A p \in Daemon : loaded[p] = installed[p]
    /\ script.pc \in PartSet \cup {"start"} => ~api

\* The processes that start run what is on disk.
LEMMA LoadedStep ==
  ASSUME TypeInv, LoadedInv, [Next]_vars
  PROVE  LoadedInv'
<1> USE DEF LoadedInv, PartSet, Daemon
<1>0. script \in Script /\ installed \in [PartSet -> Release] /\ loaded \in [Daemon -> Release]
  BY DEF TypeInv, TypeOK
<1>1. ASSUME NEW w \in Worker,
             \/ CheckForUpdate(w) \/ DownloadCopied(w) \/ DownloadBreaks(w) \/ DownloadVerify(w)
             \/ DeleteDownload(w) \/ InstallExtract(w) \/ InstallFails(w)
             \/ \E v \in Version : DownloadOpen(w, v)
             \/ \E ask \in Version \cup {None} : InstallChoose(w, ask)
      PROVE  LoadedInv'
  <2>1. UNCHANGED <<script, api, installed, loaded>>
    <3>1. CASE CheckForUpdate(w) \/ DownloadCopied(w) \/ DownloadBreaks(w) \/ DownloadVerify(w)
      BY <3>1 DEF CheckForUpdate, DownloadCopied, DownloadBreaks, DownloadVerify, diskVars
    <3>2. CASE DeleteDownload(w) \/ InstallExtract(w) \/ InstallFails(w)
      BY <3>2 DEF DeleteDownload, InstallExtract, InstallFails, diskVars
    <3>3. CASE \E v \in Version : DownloadOpen(w, v)
      BY <3>3 DEF DownloadOpen, diskVars
    <3>4. CASE \E ask \in Version \cup {None} : InstallChoose(w, ask)
      BY <3>4 DEF InstallChoose, diskVars
    <3> QED BY <1>1, <3>1, <3>2, <3>3, <3>4
  <2> QED BY <2>1
<1>2. ASSUME NEW w \in Worker, InstallLaunch(w)
      PROVE  LoadedInv'
  BY <1>2 DEF InstallLaunch, NoScript, diskVars
<1>3. CASE PublishManifest \/ CacheExpires \/ \E v \in Version : PublishTarball(v)
  BY <1>3 DEF PublishManifest, CacheExpires, PublishTarball, diskVars
<1>4. CASE ScriptStop
  BY <1>0, <1>4 DEF ScriptStop, Script
<1>5. ASSUME NEW p \in PartSet, ScriptCopy(p)
      PROVE  LoadedInv'
  BY <1>0, <1>5 DEF ScriptCopy, NextPart, Script
<1>6. CASE ScriptStart
  BY <1>0, <1>6 DEF ScriptStart, StartApi, Script
<1>7. CASE ScriptClean
  BY <1>7 DEF ScriptClean, NoScript, diskVars
<1>8. CASE ScriptStartFails
  BY <1>0, <1>8 DEF ScriptStartFails, diskVars, Script
<1>9. CASE ApiCrash
  BY <1>9 DEF ApiCrash, StartApi
<1>10. CASE PowerCut
  BY <1>10 DEF PowerCut, NoScript
<1>11. CASE UNCHANGED vars
  BY <1>11 DEF vars, diskVars
<1> QED BY <1>1, <1>2, <1>3, <1>4, <1>5, <1>6, <1>7, <1>8, <1>9, <1>10, <1>11
           DEF Next, ScriptStep

\* Whatever overlaps: when no script runs, the API and the coin listener execute
\* what is on disk, although the script replaces the files of processes that run.
THEOREM RunsWhatIsInstalled == Spec => []LoadedIsInstalled
<1>1. Init => LoadedInv
  BY DEF Init, LoadedInv, NoScript, PartSet, Daemon
<1>2. TypeInv /\ LoadedInv /\ [Next]_vars => LoadedInv'
  BY LoadedStep
<1>3. LoadedInv => LoadedIsInstalled
  BY DEF LoadedInv, LoadedIsInstalled
<1> QED BY <1>1, <1>2, <1>3, TypeInvariant, PTL DEF Spec

-----------------------------------------------------------------------------
\* What is installed was verified

Checked == verified \cup unchecked

\* Without overlapping requests, an install is alone.
Solo ==
    \A w \in Worker : job[w].pc \in {"extract", "launch"} =>
        \A u \in Worker \ {w} : job[u].pc = "idle"

\* A whole tarball in the download directory was checked, or still is to be.
FileChecked ==
    \A v \in Version : file[v] > 0 =>
        \/ <<v, file[v]>> \in Checked
        \/ \E w \in Worker : job[w].pc = "verify" /\ job[w].v = v

\* What an install starts was checked; the staging directory it unpacks to is empty.
InstallChecked ==
    \A w \in Worker :
        /\ job[w].pc = "extract" => staging = {}
        /\ job[w].pc = "launch" => <<job[w].sha, job[w].gen>> \in Checked

\* What the script copies was checked.
ScriptChecked == script.pc # "none" => script.dir \in Checked

VerifiedInv == Solo /\ FileChecked /\ InstallChecked /\ ScriptChecked /\ InstalledWasVerified

\* The steps after which every job is idle or as it was, but for its link.
LEMMA CalmerSteps ==
  ASSUME TypeInv, [Next]_vars,
         ~ \E w \in Worker :
             \/ DownloadCopied(w) \/ InstallExtract(w)
             \/ \E v \in Version : DownloadOpen(w, v)
             \/ \E ask \in Version \cup {None} : InstallChoose(w, ask)
  PROVE  Calmer
<1>0. TypeOK
  BY DEF TypeInv
<1>1. UNCHANGED job => Calmer
  BY DEF Calmer
<1>2. CASE UNCHANGED vars
  BY <1>1, <1>2 DEF vars
<1>3. CASE PublishManifest \/ CacheExpires \/ \E v \in Version : PublishTarball(v)
  BY <1>1, <1>3 DEF PublishManifest, CacheExpires, PublishTarball
<1>4. ASSUME NEW w \in Worker,
             \/ CheckForUpdate(w) \/ DownloadBreaks(w) \/ DownloadVerify(w)
             \/ DeleteDownload(w) \/ InstallLaunch(w) \/ InstallFails(w)
      PROVE  Calmer
  <2>1. CASE CheckForUpdate(w)
    BY <1>1, <2>1 DEF CheckForUpdate
  <2>2. CASE DownloadBreaks(w) \/ InstallLaunch(w) \/ InstallFails(w)
    BY <1>0, <2>2, EndCalmer DEF DownloadBreaks, InstallLaunch, InstallFails, Goto
  <2>3. CASE DownloadVerify(w)
    BY <1>0, <2>3, EndCalmer DEF DownloadVerify
  <2>4. CASE DeleteDownload(w)
    BY <1>0, <2>4, UnlinkCalmer DEF DeleteDownload
  <2> QED BY <1>4, <2>1, <2>2, <2>3, <2>4
<1>5. CASE ScriptStep \/ ScriptStartFails
  <2>1. CASE ScriptStop
    BY <2>1, KillCalmer DEF ScriptStop
  <2>2. CASE ScriptStart \/ ScriptStartFails \/ \E p \in PartSet : ScriptCopy(p)
    BY <1>1, <2>2 DEF ScriptStart, ScriptStartFails, ScriptCopy
  <2>3. CASE ScriptClean
    BY <1>0, <2>3, UnlinkCalmer DEF ScriptClean
  <2> QED BY <1>5, <2>1, <2>2, <2>3 DEF ScriptStep
<1>6. CASE ApiCrash \/ PowerCut
  BY <1>6, KillCalmer DEF ApiCrash, PowerCut
<1> QED BY <1>2, <1>3, <1>4, <1>5, <1>6 DEF Next

\* The four steps that move a job on leave the others as they were, but for links.
LEMMA MovingSteps ==
  ASSUME TypeInv, NEW w \in Worker, NEW u \in Worker \ {w},
         \/ DownloadCopied(w) \/ InstallExtract(w)
         \/ \E v \in Version : DownloadOpen(w, v)
         \/ \E ask \in Version \cup {None} : InstallChoose(w, ask)
  PROVE  /\ job'[u].pc = job[u].pc /\ job'[u].v = job[u].v
         /\ job'[u].sha = job[u].sha /\ job'[u].gen = job[u].gen
<1>0. TypeOK /\ job \in [Worker -> Job]
  BY DEF TypeInv, TypeOK
<1>1. ASSUME NEW r, Goto(w, r)
      PROVE  job'[u] = job[u]
  BY <1>0, <1>1 DEF Goto
<1>2. CASE DownloadCopied(w)
  BY <1>1, <1>2 DEF DownloadCopied
<1>3. CASE InstallExtract(w)
  BY <1>1, <1>3 DEF InstallExtract
<1>4. CASE \E ask \in Version \cup {None} : InstallChoose(w, ask)
  BY <1>1, <1>4 DEF InstallChoose
<1>5. ASSUME NEW v \in Version, DownloadOpen(w, v)
      PROVE  /\ job'[u].pc = job[u].pc /\ job'[u].v = job[u].v
             /\ job'[u].sha = job[u].sha /\ job'[u].gen = job[u].gen
  <2> DEFINE js == Linked("older", {v}, {"last"})
  <2>1. PICK r : job' = [js EXCEPT ![w] = r]
    BY <1>5 DEF DownloadOpen
  <2>2. /\ js \in [Worker -> Job]
        /\ js[u].pc = job[u].pc /\ js[u].v = job[u].v
        /\ js[u].sha = job[u].sha /\ js[u].gen = job[u].gen
    BY <1>0, LinkedJobs
  <2> HIDE DEF js
  <2> QED BY <2>1, <2>2
<1> QED BY <1>2, <1>3, <1>4, <1>5

\* Where each of the four steps takes its job.
LEMMA MovedTo ==
  ASSUME TypeInv, NEW w \in Worker
  PROVE  /\ DownloadCopied(w) => /\ job[w].pc = "copy" /\ job'[w].pc = "verify"
                                 /\ job'[w].v = job[w].v
         /\ InstallExtract(w) => job[w].pc = "extract" /\ job'[w].pc \in {"idle", "launch"}
         /\ \A v \in Version : DownloadOpen(w, v) =>
               job[w].pc = "idle" /\ job'[w].pc = "copy"
         /\ \A ask \in Version \cup {None} : InstallChoose(w, ask) =>
               job[w].pc = "idle" /\ job'[w].pc = "extract"
<1>0. TypeOK /\ job \in [Worker -> Job] /\ job[w] \in Job
  BY DEF TypeInv, TypeOK
<1>1. DownloadCopied(w) => job[w].pc = "copy" /\ job'[w].pc = "verify" /\ job'[w].v = job[w].v
  BY <1>0 DEF DownloadCopied, Goto, At, Job
<1>2. ASSUME InstallExtract(w)
      PROVE  job[w].pc = "extract" /\ job'[w].pc \in {"idle", "launch"}
  <2>1. CASE file[job[w].v] > 0
    <3>1. PICK g, f : job' = [job EXCEPT ![w] = [job[w] EXCEPT !.pc = "launch", !.gen = g, !.sha = f]]
      BY <1>2, <2>1 DEF InstallExtract, Goto
    <3>2. job'[w].pc = "launch"
      BY <1>0, <3>1 DEF Job
    <3> QED BY <1>2, <3>2 DEF InstallExtract, At
  <2>2. CASE ~ (file[job[w].v] > 0)
    BY <1>0, <1>2, <2>2 DEF InstallExtract, Goto, At, Idle
  <2> QED BY <2>1, <2>2
<1>3. ASSUME NEW v \in Version, DownloadOpen(w, v)
      PROVE  job[w].pc = "idle" /\ job'[w].pc = "copy"
  <2> DEFINE js == Linked("older", {v}, {"last"})
             r == [Idle EXCEPT !.pc = "copy", !.v = v,
                     !.sha = FetchLatest(FALSE).manifest.sha[v], !.gen = blob[v]]
  <2>1. job' = [js EXCEPT ![w] = r]
    BY <1>3 DEF DownloadOpen
  <2>2. js \in [Worker -> Job] /\ r.pc = "copy"
    BY <1>0, LinkedJobs DEF Idle
  <2> HIDE DEF js, r
  <2> QED BY <1>3, <2>1, <2>2 DEF DownloadOpen, MayStart, At
<1>4. ASSUME NEW ask \in Version \cup {None}, InstallChoose(w, ask)
      PROVE  job[w].pc = "idle" /\ job'[w].pc = "extract"
  BY <1>0, <1>4 DEF InstallChoose, MayStart, At, Goto, Idle
<1> QED BY <1>1, <1>2, <1>3, <1>4

\* An install stays alone.
LEMMA SoloStep ==
  ASSUME ~Overlap, TypeInv, Solo, [Next]_vars
  PROVE  Solo'
<1>1. CASE Calmer
  BY <1>1 DEF Calmer, Solo
<1>2. ASSUME NEW w \in Worker, DownloadCopied(w)
      PROVE  Solo'
  BY <1>2, MovingSteps, MovedTo DEF Solo
<1>3. ASSUME NEW w \in Worker, InstallExtract(w)
      PROVE  Solo'
  BY <1>3, MovingSteps, MovedTo DEF Solo
<1>4. ASSUME NEW w \in Worker, NEW v \in Version, DownloadOpen(w, v)
      PROVE  Solo'
  <2>1. \A u \in Worker : job[u].pc \notin {"extract", "launch"}
    BY <1>4 DEF DownloadOpen, MayStart, Downloading
  <2> QED BY <1>4, <2>1, MovingSteps, MovedTo DEF Solo
<1>5. ASSUME NEW w \in Worker, NEW ask \in Version \cup {None}, InstallChoose(w, ask)
      PROVE  Solo'
  <2>1. \A u \in Worker : job[u].pc = "idle"
    BY <1>5 DEF InstallChoose, MayStart
  <2> QED BY <1>5, <2>1, MovingSteps, MovedTo DEF Solo
<1> QED BY <1>1, <1>2, <1>3, <1>4, <1>5, CalmerSteps

\* What was checked stays checked.
LEMMA ChecksKept ==
  ASSUME [Next]_vars
  PROVE  Checked \subseteq Checked'
<1>1. UNCHANGED <<verified, unchecked>> => Checked \subseteq Checked'
  BY DEF Checked
<1>2. CASE UNCHANGED vars \/ PublishManifest \/ CacheExpires \/ \E v \in Version : PublishTarball(v)
  BY <1>1, <1>2 DEF vars, PublishManifest, CacheExpires, PublishTarball, histVars
<1>3. ASSUME NEW w \in Worker,
             \/ CheckForUpdate(w) \/ DownloadCopied(w) \/ DownloadBreaks(w) \/ DownloadVerify(w)
             \/ DeleteDownload(w) \/ InstallExtract(w) \/ InstallLaunch(w) \/ InstallFails(w)
             \/ \E v \in Version : DownloadOpen(w, v)
             \/ \E ask \in Version \cup {None} : InstallChoose(w, ask)
      PROVE  Checked \subseteq Checked'
  <2>1. CASE CheckForUpdate(w) \/ DownloadCopied(w) \/ DownloadBreaks(w) \/ DeleteDownload(w)
    BY <1>1, <2>1 DEF CheckForUpdate, DownloadCopied, DownloadBreaks, DeleteDownload, histVars
  <2>2. CASE DownloadVerify(w)
    BY <2>2 DEF DownloadVerify, Checked
  <2>3. CASE InstallExtract(w) \/ InstallLaunch(w) \/ InstallFails(w)
    BY <1>1, <2>3 DEF InstallExtract, InstallLaunch, InstallFails, histVars
  <2>4. CASE \E v \in Version : DownloadOpen(w, v)
    BY <1>1, <2>4 DEF DownloadOpen, histVars
  <2>5. CASE \E ask \in Version \cup {None} : InstallChoose(w, ask)
    BY <1>1, <2>5 DEF InstallChoose, histVars
  <2> QED BY <1>3, <2>1, <2>2, <2>3, <2>4, <2>5
<1>4. CASE ScriptStep \/ ScriptStartFails
  <2>1. CASE ScriptStop
    BY <2>1 DEF ScriptStop, Kill, Checked
  <2>2. CASE ScriptStart \/ ScriptStartFails \/ ScriptClean \/ \E p \in PartSet : ScriptCopy(p)
    BY <1>1, <2>2 DEF ScriptStart, ScriptStartFails, ScriptClean, ScriptCopy, histVars
  <2> QED BY <1>4, <2>1, <2>2 DEF ScriptStep
<1>5. CASE ApiCrash \/ PowerCut
  BY <1>5 DEF ApiCrash, PowerCut, Kill, Checked
<1> QED BY <1>2, <1>3, <1>4, <1>5 DEF Next

\* A step that keeps the files and the downloads to be checked keeps FileChecked.
LEMMA FileKept ==
  ASSUME FileChecked, UNCHANGED file, Checked \subseteq Checked',
         \A w \in Worker : job[w].pc = "verify" =>
             job'[w].pc = "verify" /\ job'[w].v = job[w].v
  PROVE  FileChecked'
BY DEF FileChecked

\* An API that dies leaves its downloads, and they count as unchecked.
LEMMA FileLeft ==
  ASSUME TypeInv, FileChecked, UNCHANGED file, Kill, Checked \subseteq Checked'
  PROVE  FileChecked'
<1> SUFFICES ASSUME NEW v \in Version, file[v] > 0
             PROVE  <<v, file[v]>> \in Checked'
  BY DEF FileChecked
<1>1. CASE <<v, file[v]>> \in Checked
  BY <1>1
<1>2. ASSUME NEW w \in Worker, job[w].pc = "verify", job[w].v = v
      PROVE  <<v, file[v]>> \in Checked'
  BY <1>2 DEF Kill, LeftUnchecked, Checked
<1> QED BY <1>1, <1>2 DEF FileChecked

\* Every whole file is checked or waits for its check.
LEMMA FileCheckedStep ==
  ASSUME TypeInv, FileChecked, [Next]_vars
  PROVE  FileChecked'
<1>0. /\ TypeOK /\ file \in [Version -> {Torn} \cup Nat] /\ Checked \subseteq Checked'
      /\ \A w \in Worker : job[w].pc # "idle" => job[w].v \in Version
      /\ job \in [Worker -> Job]
  BY ChecksKept DEF TypeInv, TypeOK
<1>r. file' = Removed(Version) => FileChecked'
  BY <1>0 DEF Removed, FileChecked, None
<1>1. CASE UNCHANGED vars \/ PublishManifest \/ CacheExpires \/ \E v \in Version : PublishTarball(v)
  BY <1>0, <1>1, FileKept DEF vars, PublishManifest, CacheExpires, PublishTarball, fileVars
<1>2. ASSUME NEW w \in Worker, CheckForUpdate(w) \/ InstallLaunch(w) \/ InstallFails(w)
      PROVE  FileChecked'
  <2>1. CASE CheckForUpdate(w)
    BY <1>0, <2>1, FileKept DEF CheckForUpdate, fileVars
  <2>2. CASE InstallLaunch(w) \/ InstallFails(w)
    BY <1>0, <2>2, FileKept DEF InstallLaunch, InstallFails, Goto, At, fileVars
  <2> QED BY <1>2, <2>1, <2>2
<1>3. ASSUME NEW w \in Worker, DownloadCopied(w)
      PROVE  FileChecked'
  <2>1. job'[w].pc = "verify" /\ job'[w].v = job[w].v
    BY <1>3, MovedTo
  <2>2. \A v \in Version : v # job[w].v => file'[v] = file[v]
    <3>1. job[w].link \in {"last", "older", "unlinked"}
      BY <1>0 DEF Job
    <3> QED BY <1>0, <1>3, <3>1 DEF DownloadCopied, Overwritten
  <2>3. \A u \in Worker : job[u].pc = "verify" => job'[u].pc = "verify" /\ job'[u].v = job[u].v
    BY <1>3, <2>1, MovingSteps, MovedTo
  <2> QED BY <1>0, <2>1, <2>2, <2>3 DEF FileChecked
<1>4. ASSUME NEW w \in Worker, DownloadBreaks(w)
      PROVE  FileChecked'
  <2>1. \A v \in Version : file'[v] = file[v] \/ file'[v] = Torn
    BY <1>0, <1>4 DEF DownloadBreaks, Overwritten
  <2>2. \A u \in Worker : job[u].pc = "verify" => job'[u] = job[u]
    BY <1>0, <1>4 DEF DownloadBreaks, At, Goto
  <2> QED BY <1>0, <2>1, <2>2 DEF FileChecked, Torn
<1>5. ASSUME NEW w \in Worker, DownloadVerify(w)
      PROVE  FileChecked'
  <2> DEFINE v == job[w].v
             mismatch == job[w].sha # None /\ file[v] # job[w].sha
  <2>0. v \in Version
    BY <1>0, <1>5 DEF DownloadVerify, At
  <2>1. file'[v] > 0 => file'[v] = file[v] /\ <<v, file[v]>> \in Checked'
    <3>1. CASE file[v] # None /\ mismatch
      BY <1>0, <1>5, <2>0, <3>1 DEF DownloadVerify, Removed, None
    <3>2. CASE file[v] = None
      BY <1>5, <3>2 DEF DownloadVerify, None
    <3>3. CASE file[v] # None /\ ~mismatch
      BY <1>5, <3>3 DEF DownloadVerify, Checked
    <3> QED BY <3>1, <3>2, <3>3
  <2>2. \A x \in Version : x # v => file'[x] = file[x]
    BY <1>0, <1>5 DEF DownloadVerify, Removed
  <2>3. \A u \in Worker \ {w} : job[u].pc = job'[u].pc /\ job[u].v = job'[u].v
    <3>1. /\ Unlinked({v}) \in [Worker -> Job]
          /\ \A u \in Worker : Unlinked({v})[u].pc = job[u].pc /\ Unlinked({v})[u].v = job[u].v
      BY <1>0, LinkedJobs DEF Unlinked
    <3> QED BY <1>0, <1>5, <3>1 DEF DownloadVerify
  <2> QED BY <1>0, <2>0, <2>1, <2>2, <2>3 DEF FileChecked
<1>6. ASSUME NEW w \in Worker, DeleteDownload(w)
      PROVE  FileChecked'
  BY <1>r, <1>6 DEF DeleteDownload
<1>7. ASSUME NEW w \in Worker, InstallExtract(w)
      PROVE  FileChecked'
  <2>1. \A u \in Worker : job[u].pc = "verify" => job'[u].pc = "verify" /\ job'[u].v = job[u].v
    BY <1>7, MovingSteps, MovedTo
  <2> QED BY <1>0, <1>7, <2>1, FileKept DEF InstallExtract
<1>8. ASSUME NEW w \in Worker, NEW v \in Version, DownloadOpen(w, v)
      PROVE  FileChecked'
  <2>1. \A u \in Worker : job[u].pc = "verify" => job'[u].pc = "verify" /\ job'[u].v = job[u].v
    BY <1>8, MovingSteps, MovedTo
  <2>2. \A x \in Version : file'[x] = file[x] \/ file'[x] = Torn
    BY <1>0, <1>8 DEF DownloadOpen
  <2> QED BY <1>0, <2>1, <2>2 DEF FileChecked, Torn
<1>9. ASSUME NEW w \in Worker, NEW ask \in Version \cup {None}, InstallChoose(w, ask)
      PROVE  FileChecked'
  <2>1. \A u \in Worker : job[u].pc = "verify" => job'[u].pc = "verify" /\ job'[u].v = job[u].v
    BY <1>9, MovingSteps, MovedTo
  <2> QED BY <1>0, <1>9, <2>1, FileKept DEF InstallChoose
<1>10. CASE ScriptStart \/ ScriptStartFails \/ \E p \in PartSet : ScriptCopy(p)
  BY <1>0, <1>10, FileKept DEF ScriptStart, ScriptStartFails, ScriptCopy, fileVars
<1>11. CASE ScriptClean
  BY <1>r, <1>11 DEF ScriptClean
<1>12. CASE ScriptStop \/ ApiCrash \/ PowerCut
  BY <1>0, <1>12, FileLeft DEF ScriptStop, ApiCrash, PowerCut
<1> QED BY <1>1, <1>2, <1>3, <1>4, <1>5, <1>6, <1>7, <1>8, <1>9, <1>10, <1>11, <1>12
           DEF Next, ScriptStep

\* What tar unpacks to an empty directory is the release of that tarball.
LEMMA ExtractAlone ==
  ASSUME TypeOK, NEW v \in Version, file[v] > 0, staging = {}
  PROVE  LET all == staging \cup Unpacked(v, PartSet)
             first == MinOf({s[1] : s \in all})
         IN all = Unpacked(v, PartSet) /\ first = v
            /\ (CHOOSE s \in all : s[1] = first)[2] = file[v]
<1> DEFINE all == staging \cup Unpacked(v, PartSet)
<1>1. all = Unpacked(v, PartSet)
  OBVIOUS
<1>a. <<v, file[v], "api">> \in all /\ \A s \in all : s[1] = v /\ s[2] = file[v]
  BY DEF Unpacked, PartSet
<1>b. \E s \in all : s[1] = v
  <2> DEFINE a == <<v, file[v], "api">>
  <2>1. a \in all /\ a[1] = v
    BY <1>a
  <2> HIDE DEF a, all
  <2> QED BY <2>1
<1>2. {s[1] : s \in all} = {v}
  <2> HIDE DEF all
  <2> QED BY <1>a, <1>b
<1>3. MinOf({v}) = v
  <2>1. {v} \subseteq Nat /\ {v} # {}
    BY VersionNumbers
  <2> QED BY <2>1, MinOfType
<1>4. (CHOOSE s \in all : s[1] = v)[2] = file[v]
  <2> HIDE DEF all
  <2>1. (CHOOSE s \in all : s[1] = v) \in all
    BY <1>b
  <2> QED BY <1>a, <2>1
<1> QED BY <1>1, <1>2, <1>3, <1>4

\* Who changes the staging directory: an install, the end of the script, and an
\* API that stops.
LEMMA StagingKept ==
  ASSUME [Next]_vars, staging' # staging
  PROVE  \/ \E w \in Worker : InstallExtract(w)
         \/ \E w \in Worker, ask \in Version \cup {None} : InstallChoose(w, ask)
         \/ ScriptClean \/ ScriptStop \/ ApiCrash \/ PowerCut
<1>1. ~ (UNCHANGED vars \/ PublishManifest \/ CacheExpires \/ \E v \in Version : PublishTarball(v))
  BY DEF vars, PublishManifest, CacheExpires, PublishTarball, fileVars
<1>2. ASSUME NEW w \in Worker
      PROVE  ~ (\/ CheckForUpdate(w) \/ InstallLaunch(w) \/ InstallFails(w))
  BY DEF CheckForUpdate, InstallLaunch, InstallFails, fileVars
<1>3. ASSUME NEW w \in Worker
      PROVE  ~ (\/ DownloadCopied(w) \/ DownloadBreaks(w) \/ DownloadVerify(w) \/ DeleteDownload(w)
                \/ \E v \in Version : DownloadOpen(w, v))
  BY DEF DownloadCopied, DownloadBreaks, DownloadVerify, DeleteDownload, DownloadOpen
<1>4. ~ (ScriptStart \/ ScriptStartFails \/ \E p \in PartSet : ScriptCopy(p))
  BY DEF ScriptStart, ScriptStartFails, ScriptCopy, fileVars
<1> QED BY <1>1, <1>2, <1>3, <1>4 DEF Next, ScriptStep

\* An install unpacks to an empty directory, and starts what was checked.
LEMMA InstallCheckedStep ==
  ASSUME TypeInv, Solo, FileChecked, InstallChecked, [Next]_vars
  PROVE  InstallChecked'
<1>0. /\ TypeOK /\ Checked \subseteq Checked' /\ job \in [Worker -> Job]
      /\ \A w \in Worker : job[w].pc # "idle" => job[w].v \in Version
  BY ChecksKept DEF TypeInv, TypeOK
<1>1. ASSUME NEW w \in Worker, InstallExtract(w)
      PROVE  InstallChecked'
  <2> DEFINE v == job[w].v
  <2>0. job[w].pc = "extract" /\ v \in Version /\ staging = {}
    BY <1>0, <1>1 DEF InstallExtract, At, InstallChecked
  <2>1. \A u \in Worker \ {w} : job'[u].pc = "idle"
    BY <1>1, <2>0, MovingSteps DEF Solo
  <2>2. ASSUME job'[w].pc = "launch"
        PROVE  <<job'[w].sha, job'[w].gen>> = <<v, file[v]>> /\ <<v, file[v]>> \in Checked
    <3>1. file[v] > 0
      BY <1>0, <1>1, <2>2 DEF InstallExtract, Goto, Idle
    <3>2. job' = [job EXCEPT ![w] = [job[w] EXCEPT !.pc = "launch", !.gen = file[v], !.sha = v]]
      BY <1>0, <1>1, <2>0, <3>1, ExtractAlone DEF InstallExtract, Goto
    <3>3. job'[w].sha = v /\ job'[w].gen = file[v]
      BY <1>0, <3>2 DEF Job
    <3>4. <<v, file[v]>> \in Checked
      BY <2>0, <3>1 DEF FileChecked, Solo
    <3> QED BY <3>3, <3>4
  <2>3. job'[w].pc # "extract"
    BY <1>1, MovedTo
  <2> QED BY <1>0, <2>1, <2>2, <2>3 DEF InstallChecked
<1>2. ASSUME NEW w \in Worker, NEW ask \in Version \cup {None}, InstallChoose(w, ask)
      PROVE  InstallChecked'
  <2>1. staging' = {} /\ job'[w].pc = "extract"
    BY <1>2, MovedTo DEF InstallChoose
  <2> QED BY <1>0, <1>2, <2>1, MovingSteps DEF InstallChecked
<1>3. ASSUME NEW w \in Worker, DownloadCopied(w) \/ \E v \in Version : DownloadOpen(w, v)
      PROVE  InstallChecked'
  <2>1. UNCHANGED staging
    BY <1>3 DEF DownloadCopied, DownloadOpen
  <2>2. job'[w].pc \in {"verify", "copy"}
    BY <1>3, MovedTo
  <2> QED BY <1>0, <1>3, <2>1, <2>2, MovingSteps DEF InstallChecked
<1>4. CASE Calmer
  <2>1. CASE UNCHANGED staging
    BY <1>0, <1>4, <2>1 DEF Calmer, InstallChecked
  <2>2. CASE ScriptClean
    BY <1>0, <1>4, <2>2 DEF Calmer, InstallChecked, ScriptClean
  <2>3. CASE ScriptStop \/ ApiCrash \/ PowerCut
    BY <2>3, KillCalmer DEF InstallChecked, ScriptStop, ApiCrash, PowerCut
  <2> QED BY <1>1, <1>2, <2>1, <2>2, <2>3, StagingKept
<1> QED BY <1>1, <1>2, <1>3, <1>4, CalmerSteps

\* Who changes the script, and what is on disk.
LEMMA ScriptKept ==
  ASSUME [Next]_vars
  PROVE  \/ UNCHANGED <<script, installed>>
         \/ \E w \in Worker : InstallLaunch(w)
         \/ ScriptStep \/ ScriptStartFails \/ PowerCut
<1>1. CASE UNCHANGED vars \/ PublishManifest \/ CacheExpires \/ \E v \in Version : PublishTarball(v)
  BY <1>1 DEF vars, PublishManifest, CacheExpires, PublishTarball, diskVars
<1>2. ASSUME NEW w \in Worker,
             \/ CheckForUpdate(w) \/ DownloadCopied(w) \/ DownloadBreaks(w) \/ DownloadVerify(w)
             \/ DeleteDownload(w) \/ InstallExtract(w) \/ InstallFails(w)
             \/ \E v \in Version : DownloadOpen(w, v)
             \/ \E ask \in Version \cup {None} : InstallChoose(w, ask)
      PROVE  UNCHANGED <<script, installed>>
  <2>1. CASE CheckForUpdate(w) \/ DownloadCopied(w) \/ DownloadBreaks(w) \/ DownloadVerify(w)
    BY <2>1 DEF CheckForUpdate, DownloadCopied, DownloadBreaks, DownloadVerify, diskVars
  <2>2. CASE DeleteDownload(w) \/ InstallExtract(w) \/ InstallFails(w)
    BY <2>2 DEF DeleteDownload, InstallExtract, InstallFails, diskVars
  <2>3. CASE \E v \in Version : DownloadOpen(w, v)
    BY <2>3 DEF DownloadOpen, diskVars
  <2>4. CASE \E ask \in Version \cup {None} : InstallChoose(w, ask)
    BY <2>4 DEF InstallChoose, diskVars
  <2> QED BY <1>2, <2>1, <2>2, <2>3, <2>4
<1>3. ApiCrash => UNCHANGED <<script, installed>>
  BY DEF ApiCrash
<1> QED BY <1>1, <1>2, <1>3 DEF Next

\* What the script copies, and what it has copied, was checked.
LEMMA InstalledStep ==
  ASSUME TypeInv, InstallChecked, ScriptChecked, InstalledWasVerified, [Next]_vars
  PROVE  ScriptChecked' /\ InstalledWasVerified'
<1>0. Checked \subseteq Checked' /\ installed \in [PartSet -> Release] /\ script \in Script
  BY ChecksKept DEF TypeInv, TypeOK
<1> DEFINE Good == Checked \cup {Broken, <<1, 1>>}
<1>i. InstalledWasVerified <=> \A p \in PartSet : installed[p] \in Good
  BY DEF InstalledWasVerified, Checked
<1>j. InstalledWasVerified' <=> \A p \in PartSet : installed'[p] \in Good'
  BY DEF InstalledWasVerified, Checked
<1>g. Good \subseteq Good'
  BY <1>0
<1>k. UNCHANGED installed => InstalledWasVerified'
  BY <1>i, <1>j, <1>g
<1>l. script'.dir = script.dir /\ script.pc # "none" => ScriptChecked'
  BY <1>0 DEF ScriptChecked
<1>1. CASE UNCHANGED <<script, installed>>
  BY <1>0, <1>1, <1>k DEF ScriptChecked
<1>2. ASSUME NEW w \in Worker, InstallLaunch(w)
      PROVE  ScriptChecked' /\ InstalledWasVerified'
  <2>1. <<job[w].sha, job[w].gen>> \in Checked
    BY <1>2 DEF InstallLaunch, At, InstallChecked
  <2>2. script' = script \/ script'.dir = <<job[w].sha, job[w].gen>>
    BY <1>2 DEF InstallLaunch, NoScript
  <2> QED BY <1>0, <1>2, <1>k, <2>1, <2>2 DEF InstallLaunch, diskVars, ScriptChecked
<1>3. CASE ScriptStop \/ ScriptStart \/ ScriptStartFails
  <2>1. script'.dir = script.dir /\ script.pc # "none" /\ UNCHANGED installed
    BY <1>0, <1>3 DEF ScriptStop, ScriptStart, ScriptStartFails, diskVars, Script
  <2> QED BY <1>k, <1>l, <2>1
<1>4. ASSUME NEW p \in PartSet, ScriptCopy(p)
      PROVE  ScriptChecked' /\ InstalledWasVerified'
  <2>1. script'.dir = script.dir /\ script.pc # "none"
    BY <1>0, <1>4 DEF ScriptCopy, Script, PartSet
  <2>2. script.dir \in Checked
    BY <2>1 DEF ScriptChecked
  <2>3. \A q \in PartSet : installed'[q] \in {installed[q], script.dir}
    BY <1>0, <1>4 DEF ScriptCopy
  <2> QED BY <1>0, <1>i, <1>j, <1>l, <2>1, <2>2, <2>3
<1>5. CASE ScriptClean
  BY <1>5, <1>k DEF ScriptClean, NoScript, diskVars, ScriptChecked
<1>6. CASE PowerCut
  <2>1. \A q \in PartSet : installed'[q] \in {installed[q], Broken}
    BY <1>0, <1>6 DEF PowerCut
  <2> QED BY <1>6, <1>i, <1>j, <1>g, <2>1 DEF PowerCut, NoScript, ScriptChecked
<1> QED BY <1>1, <1>2, <1>3, <1>4, <1>5, <1>6, ScriptKept DEF ScriptStep

\* When requests do not overlap (downloads may), every part on disk comes from a
\* tarball whose hash was compared when it was downloaded, or that the API left
\* behind when it died before the comparison: an install does not compare again,
\* so this rests on who may write the file between the check and the tar.
THEOREM InstalledIsVerified == ASSUME ~Overlap PROVE Spec => []InstalledWasVerified
<1>1. Init => VerifiedInv
  BY DEF Init, VerifiedInv, Solo, FileChecked, InstallChecked, ScriptChecked,
         InstalledWasVerified, Idle, NoScript, None
<1>2. TypeInv /\ VerifiedInv /\ [Next]_vars => VerifiedInv'
  BY SoloStep, FileCheckedStep, InstallCheckedStep, InstalledStep DEF VerifiedInv
<1>3. VerifiedInv => InstalledWasVerified
  BY DEF VerifiedInv
<1> QED BY <1>1, <1>2, <1>3, TypeInvariant, PTL DEF Spec

-----------------------------------------------------------------------------
\* An install is whole

\* The parts of release d are in the staging directory, and its tarball is there.
Unpackable(d, ask) ==
    /\ d[1] = ask /\ ask \in Version /\ file[ask] # None
    /\ \A p \in PartSet : <<d[1], d[2], p>> \in staging

\* While the script runs nobody asks the API for anything.
ScriptAlone == script.pc # "none" => \A w \in Worker : job[w].pc = "idle"

LaunchReady ==
    \A w \in Worker : job[w].pc = "launch" => Unpackable(<<job[w].sha, job[w].gen>>, job[w].v)
ScriptReady == script.pc \in {"sleep"} \cup PartSet => Unpackable(script.dir, script.ask)

\* The parts the script has copied are those of its release.
Copied ==
    /\ script.pc \in {"html", "scripts"} => installed["api"] = script.dir
    /\ script.pc = "scripts" => installed["html"] = script.dir

\* A download has bytes to write.
CopyTyped == \A w \in Worker : job[w].pc = "copy" => job[w].gen # None

WholeInv ==
    /\ ScriptAlone /\ LaunchReady /\ ScriptReady /\ Copied /\ CopyTyped
    /\ ReleaseIsWhole /\ MixCanBeRepaired

\* What a request can do next.
RequestStep(w) ==
    \/ CheckForUpdate(w) \/ DownloadCopied(w) \/ DownloadBreaks(w) \/ DownloadVerify(w)
    \/ DeleteDownload(w) \/ InstallExtract(w) \/ InstallLaunch(w) \/ InstallFails(w)
    \/ \E v \in Version : DownloadOpen(w, v)
    \/ \E ask \in Version \cup {None} : InstallChoose(w, ask)

\* A request begins when an idle worker may start, or goes on from a job.
LEMMA RequestGuard ==
  ASSUME NEW w \in Worker, RequestStep(w)
  PROVE  \/ job[w].pc = "idle" /\ (MayStart(w, {}) \/ MayStart(w, Downloading))
         \/ job[w].pc \in {"copy", "verify", "extract"}
         \/ job[w].pc = "launch" /\ (InstallLaunch(w) \/ InstallFails(w))
<1>1. CASE DownloadCopied(w) \/ DownloadBreaks(w) \/ DownloadVerify(w) \/ InstallExtract(w)
  BY <1>1 DEF DownloadCopied, DownloadBreaks, DownloadVerify, InstallExtract, At
<1>2. CASE InstallLaunch(w) \/ InstallFails(w)
  BY <1>2 DEF InstallLaunch, InstallFails, At
<1>3. CASE CheckForUpdate(w) \/ DeleteDownload(w)
  BY <1>3 DEF CheckForUpdate, DeleteDownload, MayStart, At
<1>4. CASE \E v \in Version : DownloadOpen(w, v)
  BY <1>4 DEF DownloadOpen, MayStart, At
<1>5. CASE \E ask \in Version \cup {None} : InstallChoose(w, ask)
  BY <1>5 DEF InstallChoose, MayStart, At
<1> QED BY <1>1, <1>2, <1>3, <1>4, <1>5 DEF RequestStep

\* An admin who waits for the script asks for nothing while it runs.
LEMMA ScriptUndisturbed ==
  ASSUME Patient, ScriptAlone, script.pc # "none", NEW w \in Worker
  PROVE  ~RequestStep(w)
BY RequestGuard DEF ScriptAlone, MayStart

\* An install that is about to start its script is not disturbed either.
LEMMA LaunchUndisturbed ==
  ASSUME ~Overlap, TypeInv, Solo, ScriptAlone, [Next]_vars, NEW w \in Worker, job[w].pc = "launch",
         job'[w].pc = "launch"
  PROVE  UNCHANGED <<file, staging, job, script>>
<1>0. script.pc = "none"
  BY DEF ScriptAlone
<1>1. ASSUME NEW u \in Worker, RequestStep(u)
      PROVE  u = w /\ (InstallLaunch(w) \/ InstallFails(w))
  BY <1>1, RequestGuard DEF Solo, MayStart, Downloading
<1>2. ~ (InstallLaunch(w) \/ InstallFails(w))
  <2>1. job \in [Worker -> Job]
    BY DEF TypeInv, TypeOK
  <2> QED BY <2>1 DEF InstallLaunch, InstallFails, Goto, Idle
<1>3. ~ (ScriptStep \/ ScriptStartFails)
  BY <1>0 DEF ScriptStep, ScriptStop, ScriptCopy, ScriptStart, ScriptClean, ScriptStartFails, PartSet
<1>4. ~ (ApiCrash \/ PowerCut)
  BY KillCalmer DEF ApiCrash, PowerCut
<1>5. CASE UNCHANGED vars \/ PublishManifest \/ CacheExpires \/ \E v \in Version : PublishTarball(v)
  BY <1>5 DEF vars, PublishManifest, CacheExpires, PublishTarball, fileVars
<1> QED BY <1>1, <1>2, <1>3, <1>4, <1>5 DEF Next, RequestStep

\* While the script runs, only the script and the power change anything of it.
LEMMA ScriptSteps ==
  ASSUME Patient, ScriptAlone, script.pc # "none", [Next]_vars
  PROVE  \/ UNCHANGED <<file, staging, script, installed, job, deleted>>
         \/ ScriptStep \/ ScriptStartFails \/ PowerCut \/ ApiCrash
<1>1. \A w \in Worker : ~RequestStep(w)
  BY ScriptUndisturbed
<1>2. CASE UNCHANGED vars \/ PublishManifest \/ CacheExpires \/ \E v \in Version : PublishTarball(v)
  BY <1>2 DEF vars, PublishManifest, CacheExpires, PublishTarball, fileVars, diskVars, histVars
<1> QED BY <1>1, <1>2 DEF Next, RequestStep

\* The script starts when every job is done, and no job begins while it runs.
LEMMA AloneStep ==
  ASSUME ~Overlap, Patient, TypeInv, Solo, ScriptAlone, [Next]_vars
  PROVE  ScriptAlone'
<1>0. job \in [Worker -> Job] /\ script \in Script
  BY DEF TypeInv, TypeOK
<1>1. CASE script.pc # "none"
  <2>1. Calmer
    BY <1>1, ScriptUndisturbed, CalmerSteps DEF RequestStep
  <2> QED BY <1>1, <2>1 DEF ScriptAlone, Calmer
<1>2. ASSUME NEW w \in Worker, InstallLaunch(w)
      PROVE  ScriptAlone'
  BY <1>0, <1>2 DEF InstallLaunch, At, Goto, Idle, Solo, ScriptAlone
<1>3. CASE script.pc = "none" /\ ~ \E w \in Worker : InstallLaunch(w)
  <2>1. ~ (ScriptStep \/ ScriptStartFails)
    BY <1>3 DEF ScriptStep, ScriptStop, ScriptCopy, ScriptStart, ScriptClean, ScriptStartFails,
          PartSet
  <2>2. script'.pc = "none"
    <3>1. PowerCut => script' = NoScript
      BY DEF PowerCut
    <3>2. NoScript.pc = "none"
      BY DEF NoScript
    <3>3. UNCHANGED <<script, installed>> => script' = script
      OBVIOUS
    <3> QED BY <1>3, <2>1, <3>1, <3>2, <3>3, ScriptKept
  <2> QED BY <2>2 DEF ScriptAlone
<1> QED BY <1>1, <1>2, <1>3

\* What an install is about to start stays in the staging directory.
LEMMA LaunchReadyStep ==
  ASSUME ~Overlap, TypeInv, Solo, InstallChecked, ScriptAlone, LaunchReady, [Next]_vars
  PROVE  LaunchReady'
<1>0. /\ TypeOK /\ job \in [Worker -> Job]
      /\ \A w \in Worker : job[w].pc # "idle" => job[w].v \in Version
  BY DEF TypeInv, TypeOK
<1> SUFFICES ASSUME NEW w \in Worker, job'[w].pc = "launch"
             PROVE  Unpackable(<<job[w].sha, job[w].gen>>, job[w].v)'
  BY DEF LaunchReady
<1>1. CASE job[w].pc = "launch"
  BY <1>1, LaunchUndisturbed DEF LaunchReady, Unpackable
<1>2. CASE InstallExtract(w)
  <2> DEFINE v == job[w].v
  <2>0. job[w].pc = "extract" /\ v \in Version /\ staging = {}
    BY <1>0, <1>2 DEF InstallExtract, At, InstallChecked
  <2>1. file[v] > 0
    BY <1>0, <1>2 DEF InstallExtract, Goto, Idle
  <2>2. /\ job' = [job EXCEPT ![w] = [job[w] EXCEPT !.pc = "launch", !.gen = file[v], !.sha = v]]
        /\ staging' = Unpacked(v, PartSet) /\ UNCHANGED file
    BY <1>0, <1>2, <2>0, <2>1, ExtractAlone DEF InstallExtract, Goto
  <2>3. job'[w].sha = v /\ job'[w].gen = file[v] /\ job'[w].v = v
    BY <1>0, <2>2 DEF Job
  <2>4. \A p \in PartSet : <<v, file[v], p>> \in staging'
    BY <2>2 DEF Unpacked
  <2> QED BY <2>0, <2>1, <2>2, <2>3, <2>4 DEF Unpackable, None
<1>3. CASE job[w].pc # "launch" /\ ~InstallExtract(w)
  <2>1. ~Calmer
    BY <1>3 DEF Calmer
  <2> QED BY <1>3, <2>1, CalmerSteps, MovingSteps, MovedTo
<1> QED BY <1>1, <1>2, <1>3

\* A download that begins has bytes to write.
LEMMA CopyTypedStep ==
  ASSUME TypeInv, CopyTyped, [Next]_vars
  PROVE  CopyTyped'
<1>1. CASE Calmer
  BY <1>1 DEF Calmer, CopyTyped
<1>2. ASSUME NEW w \in Worker, NEW v \in Version, DownloadOpen(w, v)
      PROVE  CopyTyped'
  <2> DEFINE js == Linked("older", {v}, {"last"})
             r == [Idle EXCEPT !.pc = "copy", !.v = v,
                     !.sha = FetchLatest(FALSE).manifest.sha[v], !.gen = blob[v]]
  <2>1. job' = [js EXCEPT ![w] = r]
    BY <1>2 DEF DownloadOpen
  <2>2. js \in [Worker -> Job] /\ r.gen = blob[v] /\ blob[v] \in Gen
    BY LinkedJobs DEF Idle, TypeInv, TypeOK
  <2>3. job'[w].gen # None
    <3> HIDE DEF js, r
    <3> QED BY <2>1, <2>2 DEF Gen, None
  <2> QED BY <1>2, <2>3, MovingSteps DEF CopyTyped
<1>3. ASSUME NEW w \in Worker, DownloadCopied(w) \/ InstallExtract(w)
                             \/ \E ask \in Version \cup {None} : InstallChoose(w, ask)
      PROVE  CopyTyped'
  <2>1. job'[w].pc # "copy"
    BY <1>3, MovedTo
  <2> QED BY <1>3, <2>1, MovingSteps DEF CopyTyped
<1> QED BY <1>1, <1>2, <1>3, CalmerSteps

\* What the script is to copy stays in the staging directory.
LEMMA ScriptReadyStep ==
  ASSUME Patient, TypeInv, ScriptAlone, LaunchReady, ScriptReady, [Next]_vars
  PROVE  ScriptReady'
<1>0. script \in Script
  BY DEF TypeInv, TypeOK
<1>k. ASSUME Kill, UNCHANGED file, script'.dir = script.dir, script'.ask = script.ask,
             script.pc \in {"sleep"} \cup PartSet
      PROVE  ScriptReady'
  BY <1>k DEF Kill, ScriptReady, Unpackable
<1>1. CASE UNCHANGED <<file, staging, script>>
  BY <1>1 DEF ScriptReady, Unpackable
<1>2. CASE ScriptStop
  BY <1>0, <1>2, <1>k DEF ScriptStop, Script
<1>3. ASSUME NEW p \in PartSet, ScriptCopy(p)
      PROVE  ScriptReady'
  BY <1>0, <1>3 DEF ScriptCopy, fileVars, ScriptReady, Unpackable, Script
<1>4. CASE ScriptStart \/ ScriptStartFails \/ ScriptClean \/ PowerCut
  BY <1>0, <1>4 DEF ScriptStart, ScriptStartFails, ScriptClean, PowerCut, NoScript, ScriptReady,
        PartSet, Script
<1>5. CASE ApiCrash
  BY <1>5, <1>k DEF ApiCrash, ScriptReady
<1>6. CASE script.pc = "none"
  <2>1. ASSUME NEW w \in Worker, InstallLaunch(w)
        PROVE  ScriptReady'
    <3>1. Unpackable(<<job[w].sha, job[w].gen>>, job[w].v)
      BY <2>1 DEF InstallLaunch, At, LaunchReady
    <3>2. script'.dir = <<job[w].sha, job[w].gen>> /\ script'.ask = job[w].v
      BY <1>6, <2>1 DEF InstallLaunch, NoScript
    <3> QED BY <2>1, <3>1, <3>2 DEF InstallLaunch, fileVars, ScriptReady, Unpackable
  <2>2. CASE UNCHANGED script
    BY <1>6, <2>2 DEF ScriptReady, PartSet
  <2> QED BY <1>2, <1>3, <1>4, <2>1, <2>2, ScriptKept DEF ScriptStep
<1> QED BY <1>1, <1>2, <1>3, <1>4, <1>5, <1>6, ScriptSteps DEF ScriptStep

\* Part after part, what the script has copied is of its release.
LEMMA CopiedStep ==
  ASSUME Patient, TypeInv, ScriptAlone, ScriptReady, Copied, ReleaseIsWhole, [Next]_vars
  PROVE  Copied' /\ ReleaseIsWhole'
<1>0. script \in Script /\ installed \in [PartSet -> Release]
  BY DEF TypeInv, TypeOK
<1> USE DEF Copied, ReleaseIsWhole, PartSet
<1>1. CASE UNCHANGED <<script, installed>>
  BY <1>1
<1>2. CASE ScriptStop
  BY <1>0, <1>2 DEF ScriptStop, Script, diskVars
<1>3. ASSUME NEW p \in PartSet, ScriptCopy(p)
      PROVE  Copied' /\ ReleaseIsWhole'
  <2>1. /\ script'.dir = script.dir /\ script'.ask = script.ask /\ script.pc = p
        /\ script'.pc = NextPart(p) /\ script.dir[1] = script.ask
    BY <1>0, <1>3 DEF ScriptCopy, Script, ScriptReady, Unpackable
  <2>2. installed' = [installed EXCEPT ![p] = script.dir]
    BY <1>3, <2>1 DEF ScriptCopy, ScriptReady, Unpackable
  <2>3. CASE p = "api"
    BY <1>0, <2>1, <2>2, <2>3 DEF NextPart
  <2>4. CASE p = "html"
    BY <1>0, <2>1, <2>2, <2>4 DEF NextPart
  <2>5. CASE p = "scripts"
    BY <1>0, <2>1, <2>2, <2>5 DEF NextPart
  <2> QED BY <2>3, <2>4, <2>5
<1>4. CASE ScriptStart \/ ScriptStartFails
  BY <1>0, <1>4 DEF ScriptStart, ScriptStartFails, Script, diskVars
<1>5. CASE ScriptClean \/ PowerCut
  BY <1>5 DEF ScriptClean, PowerCut, NoScript
<1>6. ASSUME NEW w \in Worker, InstallLaunch(w)
      PROVE  Copied' /\ ReleaseIsWhole'
  <2>1. CASE script.pc = "none"
    BY <1>6, <2>1 DEF InstallLaunch, NoScript
  <2>2. CASE script.pc # "none"
    BY <1>6, <2>2 DEF InstallLaunch, diskVars
  <2> QED BY <2>1, <2>2
<1> QED BY <1>1, <1>2, <1>3, <1>4, <1>5, <1>6, ScriptKept DEF ScriptStep

\* Is there a tarball to install again?
SomeFile == \E v \in Version : file[v] # None

\* A tarball goes when the script is done, or when downloads are deleted.
LEMMA FileGoes ==
  ASSUME TypeInv, CopyTyped, [Next]_vars, SomeFile, ~SomeFile'
  PROVE  deleted' \/ ScriptClean
<1>0. /\ file \in [Version -> {Torn} \cup Nat] /\ job \in [Worker -> Job]
      /\ \A w \in Worker : job[w].pc # "idle" => job[w].v \in Version
      /\ \A w \in Worker : job[w] \in Job
  BY DEF TypeInv, TypeOK
<1>1. PICK v \in Version : file[v] # None /\ file'[v] = None
  BY DEF SomeFile
<1>2. file' # file
  BY <1>1
<1>3. ~ (UNCHANGED vars \/ PublishManifest \/ CacheExpires \/ \E x \in Version : PublishTarball(x))
  BY <1>2 DEF vars, PublishManifest, CacheExpires, PublishTarball, fileVars
<1>4. ASSUME NEW w \in Worker, RequestStep(w)
      PROVE  deleted'
  <2>1. ~ (CheckForUpdate(w) \/ InstallLaunch(w) \/ InstallFails(w) \/ InstallExtract(w))
    BY <1>2 DEF CheckForUpdate, InstallLaunch, InstallFails, InstallExtract, fileVars
  <2>2. ~ \E ask \in Version \cup {None} : InstallChoose(w, ask)
    BY <1>2 DEF InstallChoose
  <2>3. ~ \E x \in Version : DownloadOpen(w, x)
    <3>1. SUFFICES ASSUME NEW x \in Version, DownloadOpen(w, x) PROVE FALSE
      OBVIOUS
    <3>2. file' = [file EXCEPT ![x] = Torn]
      BY <3>1 DEF DownloadOpen
    <3> QED BY <1>0, <1>1, <3>2 DEF Torn, None
  <2>4. ~ DownloadCopied(w)
    <3>1. SUFFICES ASSUME DownloadCopied(w) PROVE FALSE
      OBVIOUS
    <3>2. job[w].v \in Version /\ job[w].gen # None
      BY <1>0, <3>1 DEF DownloadCopied, At, CopyTyped
    <3>3. file' = file \/ file' = [file EXCEPT ![job[w].v] = job[w].gen]
          \/ file' = [file EXCEPT ![job[w].v] = Overwritten(job[w])]
      <4>1. job[w].link \in {"last", "older", "unlinked"}
        BY <1>0 DEF Job
      <4> QED BY <3>1, <4>1 DEF DownloadCopied
    <3>4. file[job[w].v] # None => Overwritten(job[w]) # None
      BY DEF Overwritten, Torn, None
    <3> QED BY <1>0, <1>1, <1>2, <3>2, <3>3, <3>4
  <2>5. ~ DownloadBreaks(w)
    <3>1. SUFFICES ASSUME DownloadBreaks(w) PROVE FALSE
      OBVIOUS
    <3>2. file' = file \/ file' = [file EXCEPT ![job[w].v] = Overwritten(job[w])]
      BY <3>1 DEF DownloadBreaks
    <3>3. file[job[w].v] # None => Overwritten(job[w]) # None
      BY DEF Overwritten, Torn, None
    <3> QED BY <1>0, <1>1, <1>2, <3>2, <3>3
  <2>6. CASE DownloadVerify(w)
    BY <1>2, <2>6 DEF DownloadVerify
  <2>7. CASE DeleteDownload(w)
    BY <2>7 DEF DeleteDownload
  <2> QED BY <1>4, <2>1, <2>2, <2>3, <2>4, <2>5, <2>6, <2>7 DEF RequestStep
<1>5. ~ (ScriptStop \/ ScriptStart \/ ScriptStartFails \/ \E p \in PartSet : ScriptCopy(p))
  BY <1>2 DEF ScriptStop, ScriptStart, ScriptStartFails, ScriptCopy, fileVars
<1>6. ~ (ApiCrash \/ PowerCut)
  BY <1>2 DEF ApiCrash, PowerCut
<1> QED BY <1>3, <1>4, <1>5, <1>6 DEF Next, ScriptStep, RequestStep

\* Deletions are remembered.
LEMMA DeletedKept ==
  ASSUME [Next]_vars, deleted
  PROVE  deleted'
<1>1. CASE UNCHANGED vars \/ PublishManifest \/ CacheExpires \/ \E v \in Version : PublishTarball(v)
  BY <1>1 DEF vars, PublishManifest, CacheExpires, PublishTarball, histVars
<1>2. ASSUME NEW w \in Worker, RequestStep(w)
      PROVE  deleted'
  <2>1. CASE CheckForUpdate(w) \/ InstallLaunch(w) \/ InstallFails(w) \/ InstallExtract(w)
    BY <2>1 DEF CheckForUpdate, InstallLaunch, InstallFails, InstallExtract, histVars
  <2>2. CASE \E ask \in Version \cup {None} : InstallChoose(w, ask)
    BY <2>2 DEF InstallChoose, histVars
  <2>3. CASE \E x \in Version : DownloadOpen(w, x)
    BY <2>3 DEF DownloadOpen, histVars
  <2>4. CASE DownloadCopied(w) \/ DownloadBreaks(w)
    BY <2>4 DEF DownloadCopied, DownloadBreaks, histVars
  <2>5. CASE DownloadVerify(w) \/ DeleteDownload(w)
    BY <2>5 DEF DownloadVerify, DeleteDownload
  <2> QED BY <1>2, <2>1, <2>2, <2>3, <2>4, <2>5 DEF RequestStep
<1>3. CASE ScriptStep \/ ScriptStartFails
  BY <1>3 DEF ScriptStep, ScriptStop, ScriptCopy, ScriptStart, ScriptClean, ScriptStartFails, histVars
<1>4. CASE ApiCrash \/ PowerCut
  BY <1>4 DEF ApiCrash, PowerCut
<1> QED BY <1>1, <1>2, <1>3, <1>4 DEF Next, RequestStep

\* While the parts on disk differ there is a tarball to install again.
LEMMA RepairStep ==
  ASSUME TypeInv, ScriptReady, ReleaseIsWhole, CopyTyped, MixCanBeRepaired, [Next]_vars
  PROVE  MixCanBeRepaired'
<1> DEFINE Mix == \E p, q \in PartSet : installed[p] # installed[q]
<1>0. installed \in [PartSet -> Release] /\ script \in Script
  BY DEF TypeInv, TypeOK
<1>1. CASE Mix /\ ~deleted
  <2>1. SomeFile
    BY <1>1 DEF MixCanBeRepaired, SomeFile
  <2>2. CASE ScriptClean
    BY <1>1, <2>2 DEF ScriptClean, ReleaseIsWhole
  <2> QED BY <2>1, <2>2, FileGoes DEF MixCanBeRepaired, SomeFile
<1>2. CASE deleted
  BY <1>2, DeletedKept DEF MixCanBeRepaired
<1>3. CASE ~Mix
  <2>1. CASE UNCHANGED installed
    BY <1>3, <2>1 DEF MixCanBeRepaired
  <2>2. CASE installed' # installed
    <3>1. (\E p \in PartSet : ScriptCopy(p)) \/ PowerCut
      BY <2>2, ScriptKept DEF InstallLaunch, ScriptStep, ScriptStop, ScriptStart, ScriptClean,
            ScriptStartFails, diskVars
    <3>2. script.pc \in PartSet
      BY <2>2, <3>1 DEF ScriptCopy, PowerCut
    <3>3. SomeFile /\ UNCHANGED file
      BY <3>1, <3>2 DEF ScriptReady, Unpackable, SomeFile, ScriptCopy, PowerCut, fileVars
    <3> QED BY <3>3 DEF MixCanBeRepaired, SomeFile
  <2> QED BY <2>1, <2>2
<1> QED BY <1>1, <1>2, <1>3

\* The conjunction is inductive, for requests that do not overlap and an admin
\* who waits for the script.
LEMMA WholeInvariant ==
  ASSUME ~Overlap, Patient
  PROVE  Spec => [](ReleaseIsWhole /\ MixCanBeRepaired)
<1> DEFINE I == VerifiedInv /\ WholeInv
<1>1. Init => I
  <2>1. ASSUME Init PROVE VerifiedInv
    BY <2>1 DEF Init, VerifiedInv, Solo, FileChecked, InstallChecked, ScriptChecked,
         InstalledWasVerified, Idle, NoScript, None
  <2>2. ASSUME Init PROVE WholeInv
    BY <2>2 DEF Init, WholeInv, ScriptAlone, LaunchReady, ScriptReady, Copied, CopyTyped,
         ReleaseIsWhole, MixCanBeRepaired, Idle, NoScript, None, PartSet
  <2> QED BY <2>1, <2>2
<1>2. TypeInv /\ I /\ [Next]_vars => I'
  <2> SUFFICES ASSUME TypeInv, I, [Next]_vars
               PROVE  I'
    OBVIOUS
  <2>1. VerifiedInv'
    BY SoloStep, FileCheckedStep, InstallCheckedStep, InstalledStep DEF VerifiedInv
  <2>2. WholeInv'
    BY AloneStep, LaunchReadyStep, CopyTypedStep, ScriptReadyStep, CopiedStep, RepairStep
       DEF VerifiedInv, WholeInv
  <2> QED BY <2>1, <2>2
<1>3. I => ReleaseIsWhole /\ MixCanBeRepaired
  BY DEF WholeInv
<1> HIDE DEF I
<1> QED BY <1>1, <1>2, <1>3, TypeInvariant, PTL DEF Spec

\* Once the script has copied, every part on disk is of the version the admin asked
\* for: never a mix of two releases, nor what an earlier attempt left in the shared
\* staging directory.
THEOREM WholeRelease == ASSUME ~Overlap, Patient PROVE Spec => []ReleaseIsWhole
BY WholeInvariant, PTL

\* A power cut between two copies leaves parts of two releases, but the tarball is
\* removed only after the last copy: the install can be asked for again.
THEOREM MixIsRepairable == ASSUME ~Overlap, Patient PROVE Spec => []MixCanBeRepaired
BY WholeInvariant, PTL
=============================================================================
