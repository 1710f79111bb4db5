------------------------------- MODULE Updater -------------------------------
(***************************************************************************)
(* Over-the-air updates (handlers/updater.go).  The vendor publishes       *)
(* tarballs and a manifest with their hashes; the API downloads a tarball  *)
(* to its final name and checks the hash afterwards; an install unpacks it *)
(* to one shared staging directory and hands the rest to a script outside  *)
(* the API, which stops the API, copies one part after the other, starts   *)
(* the API again and only then removes what was downloaded.                *)
(*                                                                         *)
(* Versions are numbers in the order of their file names; Semver gives the *)
(* version number of each.  The content of a tarball is a generation: the  *)
(* vendor may publish a version again.                                     *)
(***************************************************************************)
EXTENDS Integers, Sequences, FiniteSets

CONSTANTS Version,     \* 1 .. n, in the order os.ReadDir returns the files
          Semver,      \* [Version -> parts of the version string, -1 for no number]
          Hashed,      \* the versions whose hash the manifest lists
          Worker,      \* requests the API serves at the same time
          Overlap,     \* may any two requests overlap, or downloads only?
          Patient,     \* does the admin wait for the script of an install?
          Gens,        \* [Version -> Nat]: bound on the times a version is published
          MaxEvents    \* bound on crashes, power cuts, failures and deletions

ASSUME UpdaterAssumption ==
    /\ IsFiniteSet(Version) /\ Version = 1 .. Cardinality(Version) /\ Version # {}
    /\ Semver \in [Version -> Seq(Int)] /\ Hashed \subseteq Version
    /\ Overlap \in BOOLEAN /\ Patient \in BOOLEAN
    /\ Gens \in [Version -> Nat \ {0}] /\ MaxEvents \in Nat

VARIABLES blob,       \* blob[v]: generation of the tarball in the cloud
          manifest,   \* the published manifest
          cache,      \* h.cached and h.cachedAt
          file,       \* file[v]: content of the tarball of v in the download directory
          staging,    \* <<version, generation, part>> unpacked in the staging directory
          job,        \* job[w]: what request w is doing
          script,     \* the unit aircoins-update
          api,        \* is the API running?
          installed,  \* installed[p]: release of part p on disk
          loaded,     \* loaded[p]: release of part p the running process was started from
          events,     \* number of events so far
          verified,   \* history: contents whose hash was compared with a manifest
          unchecked,  \* history: contents a dying API left behind before the comparison
          cut,        \* history: was the power ever cut?
          deleted     \* history: did the admin delete downloads or lose one?

cloudVars == <<blob, manifest>>
fileVars == <<file, staging>>
diskVars == <<installed, loaded>>
histVars == <<verified, unchecked, cut, deleted>>
vars == <<cloudVars, cache, fileVars, job, script, api, diskVars, events, histVars>>

-----------------------------------------------------------------------------
\* Values

None == 0
Torn == -1                    \* content of a file that is not whole
Broken == <<0, 0>>            \* a part that was being copied when the power went
PartSet == {"api", "html", "scripts"}
Gen == Nat \ {0}
Release == (Version \X Gen) \cup {Broken}
Daemon == {"api", "scripts"}

NoManifest == [latest |-> None, sha |-> [v \in Version |-> None]]
NoCache == [manifest |-> NoManifest, fresh |-> FALSE]
\* link: is the worker the last one that created its file, an older one, or has
\* the file been unlinked?
Idle == [pc |-> "idle", v |-> None, sha |-> None, gen |-> None, link |-> "last"]
NoScript == [pc |-> "none", dir |-> Broken, ask |-> None, tries |-> 0]

MinOf(S) == CHOOSE x \in S : \A y \in S : x <= y

-----------------------------------------------------------------------------
\* compareSemver: -1, 0 or 1; <<>> is "dev"; fewer than three parts, or a part
\* that is no number before the first difference, make two versions equal.
CompareSemver(a, b) ==
    LET decides(i) ==
            /\ \A j \in 1 .. i : a[j] >= 0 /\ b[j] >= 0
            /\ \A j \in 1 .. (i - 1) : a[j] = b[j]
            /\ a[i] # b[i]
        at == {i \in 1 .. 3 : decides(i)}
    IN CASE a = <<>> \/ b = <<>> ->
                (IF b = <<>> THEN 1 ELSE 0) - (IF a = <<>> THEN 1 ELSE 0)
         [] a # <<>> /\ b # <<>> /\ (Len(a) < 3 \/ Len(b) < 3) -> 0
         [] OTHER -> IF at = {} THEN 0
                     ELSE IF a[MinOf(at)] < b[MinOf(at)] THEN -1 ELSE 1

-----------------------------------------------------------------------------
\* The vendor

Event == events < MaxEvents /\ events' = events + 1

PublishTarball(v) ==
    /\ blob[v] < Gens[v]
    /\ blob' = [blob EXCEPT ![v] = @ + 1]
    /\ UNCHANGED <<manifest, cache, fileVars, job, script, api, diskVars, events, histVars>>

Hashes(b) == [v \in Version |-> IF v \in Hashed THEN b[v] ELSE None]
PublishManifest ==
    /\ manifest' = [manifest EXCEPT !.sha = Hashes(blob)]
    /\ manifest' # manifest
    /\ UNCHANGED <<blob, cache, fileVars, job, script, api, diskVars, events, histVars>>

-----------------------------------------------------------------------------
\* Requests

At(w, pc) == api /\ job[w].pc = pc
MayStart(w, besides) ==
    /\ At(w, "idle")
    /\ Overlap \/ \A u \in Worker : job[u].pc \in {"idle"} \cup besides
    /\ Patient => script.pc = "none"
Downloading == {"copy", "verify"}
Goto(w, j) == job' = [job EXCEPT ![w] = j]

\* fetchLatest: the cached manifest for an hour, unless a new one is forced.
FetchLatest(force) ==
    IF cache.fresh /\ ~force THEN cache ELSE [manifest |-> manifest, fresh |-> TRUE]

CheckForUpdate(w) ==
    /\ MayStart(w, Downloading)
    /\ cache' = FetchLatest(TRUE)
    /\ cache' # cache
    /\ UNCHANGED <<cloudVars, fileVars, job, script, api, diskVars, events, histVars>>

\* An hour later a cached manifest is never used again.
CacheExpires ==
    /\ cache.fresh
    /\ cache' = NoCache
    /\ UNCHANGED <<cloudVars, fileVars, job, script, api, diskVars, events, histVars>>

\* The workers that write a file of V under one of the links L get the link l.
Linked(l, V, L) ==
    [w \in Worker |-> IF job[w].pc = "copy" /\ job[w].v \in V /\ job[w].link \in L
                      THEN [job[w] EXCEPT !.link = l] ELSE job[w]]

\* DownloadUpdate: the entry of version v, or of the latest one, is looked up,
\* the cloud has the tarball, and os.Create truncates the file of that name.
DownloadOpen(w, v) ==
    /\ MayStart(w, Downloading)
    /\ LET m == FetchLatest(FALSE).manifest
       IN /\ v = m.latest \/ m.sha[v] # None
          /\ job' = [Linked("older", {v}, {"last"}) EXCEPT
                        ![w] = [Idle EXCEPT !.pc = "copy", !.v = v, !.sha = m.sha[v],
                                            !.gen = blob[v]]]
    /\ cache' = FetchLatest(FALSE)
    /\ file' = [file EXCEPT ![v] = Torn]
    /\ UNCHANGED <<cloudVars, staging, script, api, diskVars, events, histVars>>

\* What is in a file that is whole, once an older download of other bytes has
\* written on at its own offset.
Overwritten(j) == IF file[j.v] \in {None, j.gen} THEN file[j.v] ELSE Torn

\* io.Copy ends.  The bytes are all there when the last creator of the file is done.
DownloadCopied(w) ==
    /\ At(w, "copy")
    /\ LET j == job[w]
       IN /\ file' = CASE j.link = "last"     -> [file EXCEPT ![j.v] = j.gen]
                       [] j.link = "older"    -> [file EXCEPT ![j.v] = Overwritten(j)]
                       [] j.link = "unlinked" -> file
          /\ Goto(w, [j EXCEPT !.pc = "verify", !.gen = None, !.link = "last"])
    /\ UNCHANGED <<cloudVars, cache, staging, script, api, diskVars, events, histVars>>

\* The copy breaks off: the handler answers and leaves the file.
DownloadBreaks(w) ==
    /\ At(w, "copy")
    /\ Event
    /\ file' = IF job[w].link = "older"
               THEN [file EXCEPT ![job[w].v] = Overwritten(job[w])] ELSE file
    /\ Goto(w, Idle)
    /\ UNCHANGED <<cloudVars, cache, staging, script, api, diskVars, histVars>>

\* os.Remove of the files in V: who still writes one writes to no name.
Unlinked(V) == Linked("unlinked", V, {"last", "older"})
Removed(V) == [v \in Version |-> IF v \in V THEN None ELSE file[v]]

\* Mutant: a file that does not match is reported, but stays.
DownloadVerifyKeeps(w) ==
    /\ At(w, "verify")
    /\ LET j == job[w]
       IN verified' = IF file[j.v] # None /\ (j.sha = None \/ file[j.v] = j.sha)
                      THEN verified \cup {<<j.v, file[j.v]>>} ELSE verified
    /\ Goto(w, Idle)
    /\ UNCHANGED <<cloudVars, cache, fileVars, script, api, diskVars, events,
                    unchecked, cut, deleted>>

\* The file is read again and its hash compared, if the manifest lists one.
DownloadVerify(w) ==
    /\ At(w, "verify")
    /\ LET j == job[w]
           mismatch == j.sha # None /\ file[j.v] # j.sha
       IN /\ file' = IF file[j.v] # None /\ mismatch THEN Removed({j.v}) ELSE file
          /\ verified' = IF file[j.v] # None /\ ~mismatch
                         THEN verified \cup {<<j.v, file[j.v]>>} ELSE verified
          /\ deleted' = (deleted \/ (file[j.v] # None /\ mismatch))
          /\ job' = [(IF mismatch THEN Unlinked({j.v}) ELSE job) EXCEPT ![w] = Idle]
    /\ UNCHANGED <<cloudVars, cache, staging, script, api, diskVars, events, unchecked, cut>>

\* DeleteDownload
DeleteDownload(w) ==
    /\ MayStart(w, {})
    /\ Event
    /\ \E v \in Version : file[v] # None
    /\ file' = Removed(Version)
    /\ job' = Unlinked(Version)
    /\ deleted' = TRUE
    /\ UNCHANGED <<cloudVars, cache, staging, script, api, diskVars, verified, unchecked, cut>>

\* Mutant: the staging directory of an earlier attempt is not removed.
InstallChooseDirty(w, ask) ==
    /\ MayStart(w, {})
    /\ LET found == {v \in Version : file[v] # None /\ (ask = None \/ v = ask)}
       IN /\ found # {}
          /\ Goto(w, [Idle EXCEPT !.pc = "extract", !.v = MinOf(found)])
    /\ UNCHANGED <<cloudVars, cache, fileVars, script, api, diskVars, events, histVars>>

\* PerformUpdate: the tarball of the version asked for, or the first one found;
\* os.RemoveAll of the staging directory.
InstallChoose(w, ask) ==
    /\ MayStart(w, {})
    /\ LET found == {v \in Version : file[v] # None /\ (ask = None \/ v = ask)}
       IN /\ found # {}
          /\ Goto(w, [Idle EXCEPT !.pc = "extract", !.v = MinOf(found)])
    /\ staging' = {}
    /\ UNCHANGED <<cloudVars, cache, file, script, api, diskVars, events, histVars>>

Unpacked(v, parts) == {<<v, file[v], p>> : p \in parts}

\* tar; the install directory is the first one found in the staging directory.
\* What a failing tar leaves there is gone before anything is unpacked again.
InstallExtract(w) ==
    /\ At(w, "extract")
    /\ LET v == job[w].v
           all == staging \cup Unpacked(v, PartSet)
           first == MinOf({s[1] : s \in all})
       IN IF file[v] > 0
          THEN /\ staging' = all
               /\ Goto(w, [job[w] EXCEPT
                            !.pc = "launch",
                            !.gen = (CHOOSE s \in all : s[1] = first)[2], !.sha = first])
          ELSE /\ UNCHANGED staging
               /\ Goto(w, Idle)
    /\ UNCHANGED <<cloudVars, cache, file, script, api, diskVars, events, histVars>>

\* The answer is out, the cache is dropped, the script is written and started;
\* systemd-run refuses a second unit of the same name, which nobody notices.
InstallLaunch(w) ==
    /\ At(w, "launch")
    /\ cache' = NoCache
    /\ script' = IF script.pc = "none"
                 THEN [NoScript EXCEPT !.pc = "sleep", !.dir = <<job[w].sha, job[w].gen>>,
                                       !.ask = job[w].v]
                 ELSE script
    /\ Goto(w, Idle)
    /\ UNCHANGED <<cloudVars, fileVars, api, diskVars, events, histVars>>

\* The script cannot be written: the answer is already out.
InstallFails(w) ==
    /\ At(w, "launch")
    /\ Event
    /\ cache' = NoCache
    /\ Goto(w, Idle)
    /\ UNCHANGED <<cloudVars, fileVars, script, api, diskVars, histVars>>

-----------------------------------------------------------------------------
\* The API stops: its requests are gone, a download may be left unchecked, and
\* tar may have unpacked some of the parts only.
LeftUnchecked ==
    {<<job[w].v, file[job[w].v]>> : w \in {u \in Worker : job[u].pc = "verify"}}
Kill ==
    /\ job' = [w \in Worker |-> Idle]
    /\ cache' = NoCache
    /\ unchecked' = unchecked \cup LeftUnchecked
    /\ \E extra \in SUBSET UNION {Unpacked(job[w].v, PartSet) :
                        w \in {u \in Worker : job[u].pc = "extract" /\ file[job[u].v] > 0}} :
         staging' = staging \cup extra

\* ------------------------------ do-update.sh ------------------------------

\* Mutant: the tarballs are removed before the copies.
ScriptStopRemoves ==
    /\ script.pc = "sleep"
    /\ script' = [script EXCEPT !.pc = "api"]
    /\ api' = FALSE
    /\ file' = Removed(Version)
    /\ Kill
    /\ UNCHANGED <<cloudVars, diskVars, events, verified, cut, deleted>>

\* Mutant: the API is not stopped.
ScriptStopLeaves ==
    /\ script.pc = "sleep"
    /\ script' = [script EXCEPT !.pc = "api"]
    /\ UNCHANGED <<cloudVars, cache, fileVars, job, api, diskVars, events, histVars>>

\* systemctl stop, two seconds after the answer.
ScriptStop ==
    /\ script.pc = "sleep"
    /\ script' = [script EXCEPT !.pc = "api"]
    /\ api' = FALSE
    /\ Kill
    /\ UNCHANGED <<cloudVars, file, diskVars, events, verified, cut, deleted>>

NextPart(p) == CASE p = "api" -> "html" [] p = "html" -> "scripts" [] OTHER -> "start"

\* cp of one part, if the release has it; after the scripts the listener is restarted.
ScriptCopy(p) ==
    /\ script.pc = p
    /\ installed' = IF <<script.dir[1], script.dir[2], p>> \in staging
                    THEN [installed EXCEPT ![p] = script.dir] ELSE installed
    /\ loaded' = IF p = "scripts" THEN [loaded EXCEPT ![p] = installed'[p]] ELSE loaded
    /\ script' = [script EXCEPT !.pc = NextPart(p)]
    /\ UNCHANGED <<cloudVars, cache, fileVars, job, api, events, histVars>>

\* Mutant: the API is left to systemd, which does not restart what was stopped.
ScriptStartSkipped ==
    /\ script.pc = "start"
    /\ script' = [script EXCEPT !.pc = "clean"]
    /\ UNCHANGED <<cloudVars, cache, fileVars, job, api, diskVars, events, histVars>>

\* main() loads the binary and restarts the coin listener.
StartApi ==
    /\ api' = (installed["api"] # Broken)
    /\ loaded' = [p \in Daemon |-> installed[p]]

\* systemctl start, tried three times; nothing happens to an API that runs.
ScriptStart ==
    /\ script.pc = "start"
    /\ script' = [script EXCEPT !.pc = "clean"]
    /\ IF api THEN UNCHANGED <<api, loaded>> ELSE StartApi
    /\ UNCHANGED <<cloudVars, cache, fileVars, job, installed, events, histVars>>

ScriptStartFails ==
    /\ script.pc = "start"
    /\ script.tries < 2
    /\ Event
    /\ script' = [script EXCEPT !.tries = @ + 1]
    /\ UNCHANGED <<cloudVars, cache, fileVars, job, api, diskVars, histVars>>

\* The other services are restarted, then tarballs and staging directory removed.
ScriptClean ==
    /\ script.pc = "clean"
    /\ script' = NoScript
    /\ file' = Removed(Version)
    /\ staging' = {}
    /\ job' = Unlinked(Version)
    /\ UNCHANGED <<cloudVars, cache, api, diskVars, events, histVars>>

-----------------------------------------------------------------------------
\* Faults

\* The API dies and systemd starts it again.
ApiCrash ==
    /\ Event
    /\ api /\ script.pc \in {"none", "sleep", "clean"}
    /\ Kill
    /\ StartApi
    /\ UNCHANGED <<cloudVars, file, script, installed, verified, cut, deleted>>

\* The power is cut, and the device boots: a part that was being copied may be broken.
PowerCut ==
    /\ Event
    /\ \E now \in {installed} \cup {[installed EXCEPT ![p] = Broken] : p \in PartSet \cap {script.pc}} :
         /\ installed' = now
         /\ loaded' = [p \in Daemon |-> now[p]]
         /\ api' = (now["api"] # Broken)
    /\ script' = NoScript
    /\ Kill
    /\ cut' = TRUE
    /\ UNCHANGED <<cloudVars, file, verified, deleted>>

-----------------------------------------------------------------------------
Init ==
    /\ blob = [v \in Version |-> 1]
    /\ manifest = [latest |-> Cardinality(Version), sha |-> Hashes(blob)]
    /\ cache = NoCache
    /\ file = [v \in Version |-> None] /\ staging = {}
    /\ job = [w \in Worker |-> Idle] /\ script = NoScript /\ api = TRUE
    /\ installed = [p \in PartSet |-> <<1, 1>>]
    /\ loaded = [p \in Daemon |-> <<1, 1>>]
    /\ events = 0
    /\ verified = {} /\ unchecked = {} /\ cut = FALSE /\ deleted = FALSE

ScriptStep == ScriptStop \/ (\E p \in PartSet : ScriptCopy(p)) \/ ScriptStart \/ ScriptClean

Next ==
    \/ PublishManifest \/ \E v \in Version : PublishTarball(v)
    \/ \E w \in Worker :
         \/ CheckForUpdate(w) \/ DownloadCopied(w) \/ DownloadBreaks(w) \/ DownloadVerify(w)
         \/ DeleteDownload(w) \/ InstallExtract(w) \/ InstallLaunch(w) \/ InstallFails(w)
         \/ \E v \in Version : DownloadOpen(w, v)
         \/ \E ask \in Version \cup {None} : InstallChoose(w, ask)
    \/ CacheExpires \/ ScriptStep \/ ScriptStartFails \/ ApiCrash \/ PowerCut

\* The script is a process of its own, which runs until it ends.
Spec == Init /\ [][Next]_vars /\ WF_vars(ScriptStep)

-----------------------------------------------------------------------------
Manifest == [latest: Version \cup {None}, sha: [Version -> Nat]]
Job == [pc: {"idle", "copy", "verify", "extract", "launch"}, v: Version \cup {None},
        sha: Nat, gen: Nat, link: {"last", "older", "unlinked"}]
Script == [pc: {"none", "sleep", "start", "clean"} \cup PartSet,
           dir: Release, ask: Version \cup {None}, tries: 0 .. 2]
TypeOK ==
    /\ blob \in [Version -> Gen]
    /\ manifest \in Manifest /\ cache \in [manifest: Manifest, fresh: BOOLEAN]
    /\ file \in [Version -> {Torn} \cup Nat]
    /\ staging \subseteq Version \X Gen \X PartSet
    /\ job \in [Worker -> Job]
    /\ \A w \in Worker : job[w].pc # "idle" => job[w].v \in Version
    /\ script \in Script
    /\ api \in BOOLEAN /\ cut \in BOOLEAN /\ deleted \in BOOLEAN
    /\ installed \in [PartSet -> Release] /\ loaded \in [Daemon -> Release]
    /\ events \in 0 .. MaxEvents
    /\ verified \subseteq Version \X (Gen \cup {Torn})
    /\ unchecked \subseteq Version \X (Nat \cup {Torn})

\* Every part on disk comes from a tarball whose hash was compared with the
\* manifest when it was downloaded (PerformUpdate does not compare it again), or
\* from one the API left behind when it died between the copy and the check.
InstalledWasVerified ==
    \A p \in PartSet :
        installed[p] \in verified \cup unchecked \cup {Broken, <<1, 1>>}

\* When the script has copied, every part is of the version that was asked for:
\* never a mix of two releases, nor what an earlier attempt left in staging.
ReleaseIsWhole ==
    script.pc \in {"start", "clean"} =>
        \A p \in PartSet : installed[p] = script.dir /\ installed[p][1] = script.ask

\* A power cut in the middle leaves a mix, but also the tarballs: the install can
\* be asked for again, unless the admin deleted the downloads.
MixCanBeRepaired ==
    (\E p, q \in PartSet : installed[p] # installed[q]) /\ ~deleted
        => \E v \in Version : file[v] # None

\* When no script runs, the API and the coin listener execute what is on disk.
LoadedIsInstalled ==
    script.pc \in {"none", "sleep"} => \A p \in Daemon : loaded[p] = installed[p]

\* The API that an update stops comes back, unless the power is cut meanwhile.
ApiComesBack == (script.pc = "api") ~> (api \/ cut)
=============================================================================
