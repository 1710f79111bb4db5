------------------------------- MODULE Roaming -------------------------------
(***************************************************************************)
(* A phone that changes its MAC address between the networks of one box:   *)
(* its session is found by the token its portal page stores, moved to the  *)
(* new address, and the rules of both addresses are written again, while   *)
(* sessions end and are paid for, DNS refreshes rebuild the rules, and the *)
(* API crashes (handlers/session.go).  Pauses are left to Session.         *)
(*                                                                         *)
(* Rows are named by the token they carry: the page keeps the token of its *)
(* row, and the code gives a row a token once.                             *)
(***************************************************************************)
EXTENDS CaptiveRules, Functions

CONSTANTS Phone, NoMac,
          PhoneOf,          \* the phone of each address
          Sid, NoSid,       \* sessions rows, and their tokens
          Worker,           \* request goroutines of the API
          Enforcer,         \* the goroutine that ends sessions and recovers rules
          Mutex, NoMutex,   \* mutexes of sessionMutexes
          Careful,          \* one worker or script at a device at a time?
          MaxRequests, MaxRoams, MaxCrashes   \* bounds

ASSUME RoamingAssumption ==
    /\ Process = Worker \cup {Enforcer, Watcher}
    /\ Enforcer # Watcher /\ {Enforcer, Watcher} \cap Worker = {}
    /\ NoMac \notin Mac /\ NoSid \notin Sid /\ NoMutex \notin Mutex
    /\ IsFiniteSet(Mutex) /\ IsFiniteSet(Worker) /\ Cardinality(Mutex) > Cardinality(Worker)
    /\ PhoneOf \in [Mac -> Phone] /\ \A p \in Phone : \E m \in Mac : PhoneOf[m] = p
    /\ Careful \in BOOLEAN /\ {MaxRequests, MaxRoams, MaxCrashes} \subseteq Nat

VARIABLES row,       \* row[i]: MAC and status of session i; NoMac: no such row yet
          at,        \* at[p]: the MAC phone p shows
          token,     \* token[p]: the token its page stores
          job,       \* job[w]: the migration worker w is in
          registry,  \* registry[i]: the mutex of session i in sessionMutexes
          held,      \* the mutexes that are locked
          api,       \* "up", or recovering after a restart
          refused,   \* history: sessions whose token made a payment fail, with status
          hurt,      \* history: MACs whose commands a crash cut off
          requests, roams, crashes

rows == <<row, token, refused>>
locks == <<registry, held>>
bounds == <<requests, roams, crashes>>
vars == <<captiveVars, rows, at, job, locks, api, hurt, bounds>>

NoJob == [pc |-> "idle", id |-> NoSid, old |-> NoMac, new |-> NoMac, mu |-> NoMutex]
Job == [pc: {"idle", "load", "lock", "read", "move", "unlock", "forget"},
        id: Sid \cup {NoSid}, old: Mac \cup {NoMac}, new: Mac \cup {NoMac}, mu: Mutex \cup {NoMutex}]

Lasting(i) == i # NoSid /\ row[i].status = "running"
Active(i) == row[i].status \in {"running", "due"}
OwnerOf(m) == {i \in Sid : row[i].mac = m}
Idle(w) == job[w] = NoJob /\ Quiet(w)
\* Workers are interchangeable: a request takes a fixed one of those that are idle.
Free(w) == Idle(w) /\ w = CHOOSE v \in Worker : Idle(v)

\* The discipline: no other script is at these clients, and no migration; and no
\* phone shows the address of another.
NoScript(M) == Careful => \A q \in Process : Worked(q) \cap M = {}
Alone(M) == NoScript(M) /\ (Careful => \A w \in Worker : {job[w].old, job[w].new} \cap M = {})

Ask == requests < MaxRequests /\ requests' = requests + 1

-----------------------------------------------------------------------------
\* Sessions

\* Start: extend the session of this MAC, reset the row it owns, or insert one with
\* the page's token, which no other row may carry. The rules follow.
PayFor(w, p) ==
    /\ api = "up" /\ Free(w) /\ Ask
    /\ Alone({at[p]})
Paid(w, p, i) ==
    /\ row' = [row EXCEPT ![i] = [mac |-> at[p], status |-> "running"]]
    /\ token' = [token EXCEPT ![p] = i]
    /\ todo' = [todo EXCEPT ![w] = cmd_auth({at[p]})]
    /\ UNCHANGED refused
PayOwnRow(w, p) ==
    /\ PayFor(w, p)
    /\ \E i \in OwnerOf(at[p]) : Paid(w, p, i)
    /\ UNCHANGED <<chains, isp, watch, changes, at, job, locks, api, hurt, roams, crashes>>
PayNewRow(w, p) ==
    /\ PayFor(w, p)
    /\ OwnerOf(at[p]) = {} /\ token[p] = NoSid
    /\ \E i \in OwnerOf(NoMac) : Paid(w, p, i)
    /\ UNCHANGED <<chains, isp, watch, changes, at, job, locks, api, hurt, roams, crashes>>
PayRefused(w, p) ==
    /\ PayFor(w, p)
    /\ OwnerOf(at[p]) = {} /\ token[p] # NoSid
    /\ refused' = refused \cup {row[token[p]].status}
    /\ UNCHANGED <<captiveVars, row, token, at, job, locks, api, hurt, roams, crashes>>

TimeUp(i) ==
    /\ row[i].status = "running"
    /\ row' = [row EXCEPT ![i].status = "due"]
    /\ UNCHANGED <<captiveVars, token, refused, at, job, locks, api, hurt, bounds>>

\* ExpireOverdueSessions, by the enforcer or by a poll.
Due == {i \in Sid : row[i].status = "due"}
ExpiredRows == [i \in Sid |-> IF i \in Due THEN [row[i] EXCEPT !.status = "ended"] ELSE row[i]]
CloseDue == cmd_unauth({row[i].mac : i \in Due})
ExpireOverdueSessions(q) ==
    /\ api = "up" /\ Quiet(q) /\ (q \in Worker => Free(q))
    /\ Due # {} /\ Alone({row[i].mac : i \in Due})
    /\ row' = ExpiredRows
    /\ todo' = [todo EXCEPT ![q] = CloseDue]
    /\ UNCHANGED <<chains, isp, watch, changes, token, refused, at, job, locks, api, hurt, bounds>>

\* RefreshDNSHandler; the watcher's refresh is PassRefreshes.
Refresh(w) ==
    /\ api = "up" /\ Free(w) /\ Ask
    /\ tracked # {} /\ NoScript(tracked)
    /\ todo' = [todo EXCEPT ![w] = cmd_refresh]
    /\ UNCHANGED <<chains, isp, watch, changes, rows, at, job, locks, api, hurt, roams, crashes>>

-----------------------------------------------------------------------------
\* Migration

\* The phone joins another network; its page may lose the token (another browser).
Roam(p) ==
    /\ roams < MaxRoams /\ roams' = roams + 1
    /\ Careful => \A w \in Worker : job[w] = NoJob \/ job[w].new # at[p]
    /\ \E m \in Mac \ {at[q] : q \in Phone} :
         /\ Careful => PhoneOf[m] = p
         /\ at' = [at EXCEPT ![p] = m]
    /\ token' \in {token, [token EXCEPT ![p] = NoSid]}
    /\ UNCHANGED <<captiveVars, row, refused, job, locks, api, hurt, requests, crashes>>

NotElsewhere(i, p) == row[i].mac = at[p]
Elsewhere(i, p) == row[i].mac # at[p]
\* Status: the token finds an active session on another MAC.
Poll(w, p) ==
    /\ api = "up" /\ Free(w)
    /\ LET i == token[p]
       IN /\ Lasting(i) /\ Elsewhere(i, p)
          /\ NoScript({row[i].mac, at[p]})
          /\ job' = [job EXCEPT ![w] = [NoJob EXCEPT !.pc = "load", !.id = i,
                                                     !.old = row[i].mac, !.new = at[p]]]
    /\ UNCHANGED <<captiveVars, rows, at, locks, api, hurt, bounds>>

\* The token finds nothing and the address does: the page stores the token of that row.
PollByMac(p) ==
    /\ api = "up"
    /\ ~Lasting(token[p])
    /\ \E i \in OwnerOf(at[p]) : Lasting(i) /\ token' = [token EXCEPT ![p] = i]
    /\ UNCHANGED <<captiveVars, row, refused, at, job, locks, api, hurt, bounds>>

Going(w, pc) == job' = [job EXCEPT ![w].pc = pc]

\* The mutex of the session, or one nobody refers to.
LoadOrStore(w) ==
    /\ job[w].pc = "load"
    /\ LET i == job[w].id
           fresh == Mutex \ (Range(registry) \cup {job[v].mu : v \in Worker})
           u == IF registry[i] # NoMutex THEN registry[i] ELSE CHOOSE v \in fresh : TRUE
       IN /\ registry' = [registry EXCEPT ![i] = u]
          /\ job' = [job EXCEPT ![w].pc = "lock", ![w].mu = u]
    /\ UNCHANGED <<captiveVars, rows, at, held, api, hurt, bounds>>
LockNobody(w) ==   \* every poll with a mutex of its own
    /\ job[w].pc = "lock"
    /\ Going(w, "read")
    /\ UNCHANGED <<captiveVars, rows, at, locks, api, hurt, bounds>>
Lock(w) ==
    /\ job[w].pc = "lock" /\ job[w].mu \notin held
    /\ held' = held \cup {job[w].mu}
    /\ Going(w, "read")
    /\ UNCHANGED <<captiveVars, rows, at, registry, api, hurt, bounds>>
\* The row is read again: another poll may have moved it.
ReadRow(w) ==
    /\ job[w].pc = "read"
    /\ Going(w, IF Active(job[w].id) /\ row[job[w].id].mac # job[w].new THEN "move" ELSE "unlock")
    /\ UNCHANGED <<captiveVars, rows, at, locks, api, hurt, bounds>>

\* The transaction: end another active session of the new MAC and take the MAC. The
\* index on client_mac counts ended rows too, and a conflict rolls everything back.
MayAlwaysMove(m, i) == TRUE
MayMoveTo(m, i) == OwnerOf(m) \ {i} = {}
Migrate(w) ==
    /\ job[w].pc = "move"
    /\ LET i == job[w].id
           new == job[w].new
       IN /\ MayMoveTo(new, i)
          /\ Careful => \A q \in Process : \/ Worked(q) \cap {job[w].old, new} = {}
                                           \/ q \in Worker /\ job[q].id = i
          /\ row' = [j \in Sid |-> IF j = i THEN [row[i] EXCEPT !.mac = new]
                                   ELSE IF row[j].mac = new THEN [mac |-> NoMac, status |-> "ended"]
                                   ELSE row[j]]
          /\ todo' = [todo EXCEPT ![w] = cmd_unauth({job[w].old}) \o cmd_auth({new})]
    /\ Going(w, "unlock")
    /\ UNCHANGED <<chains, isp, watch, changes, token, refused, at, locks, api, hurt, bounds>>
MigrateFails(w) ==
    /\ job[w].pc = "move" /\ ~MayMoveTo(job[w].new, job[w].id)
    /\ Going(w, "unlock")
    /\ UNCHANGED <<captiveVars, rows, at, locks, api, hurt, bounds>>
\* The deferred unlock, once the rules are written.
Unlock(w) ==
    /\ job[w].pc = "unlock" /\ Quiet(w)
    /\ held' = held \ {job[w].mu}
    /\ job' = [job EXCEPT ![w].pc = "forget", ![w].mu = NoMutex]
    /\ UNCHANGED <<captiveVars, rows, at, registry, api, hurt, bounds>>
Forget(w) ==
    /\ job[w].pc = "forget"
    /\ registry' = [registry EXCEPT ![job[w].id] = NoMutex]
    /\ job' = [job EXCEPT ![w] = NoJob]
    /\ UNCHANGED <<captiveVars, rows, at, held, api, hurt, bounds>>

-----------------------------------------------------------------------------
\* Restarts

\* The process and the script it runs are stopped; a power cut empties the chains.
Cut ==
    /\ crashes < MaxCrashes /\ crashes' = crashes + 1
    /\ api' = "boot"
    /\ todo' = [q \in Process |-> <<>>] /\ job' = [w \in Worker |-> NoJob]
    /\ registry' = [i \in Sid |-> NoMutex] /\ held' = {}
    /\ pending' = NoDns /\ streak' = 0 /\ news' = NoDns
    /\ hurt' = hurt \cup UNION {Worked(q) : q \in Process}
    /\ UNCHANGED <<tracked, rebuilt, isp, last, changes, rows, at, requests, roams>>
Crash == Cut /\ UNCHANGED <<nat, fwd>>
PowerCut == Cut /\ nat' = [m \in Mac |-> <<>>] /\ fwd' = {}

\* StartExpiryEnforcer: end what is overdue, then write the rules of what runs.
Running == {row[i].mac : i \in {j \in Sid : row[j].status = "running"}}
OpenNobody == <<>>
OpenRunning == cmd_auth(Running)
Recovery == CloseDue \o OpenRunning
Recover ==
    /\ api = "boot"
    /\ row' = ExpiredRows
    /\ todo' = [todo EXCEPT ![Enforcer] = Recovery]
    /\ api' = "recovering"
    /\ UNCHANGED <<chains, isp, watch, changes, token, refused, at, job, locks, hurt, bounds>>
Serve ==
    /\ api = "recovering" /\ Quiet(Enforcer)
    /\ api' = "up"
    /\ UNCHANGED <<captiveVars, rows, at, job, locks, hurt, bounds>>

-----------------------------------------------------------------------------
\* A box in use since before an update that changed the format of the rules: phones
\* with a session or without, and rows of addresses nobody shows now. Addresses are
\* interchangeable, and so are rows.
RowsOf(status) ==
    LET owned == {m \in Mac : status[m] # "none"}
        id == CHOOSE f \in [owned -> Sid] : IsInjective(f)
    IN [i \in Sid |-> IF \E m \in owned : id[m] = i
                     THEN LET m == CHOOSE n \in owned : id[n] = i IN [mac |-> m, status |-> status[m]]
                     ELSE [mac |-> NoMac, status |-> "none"]]
Init ==
    /\ at = [p \in Phone |-> CHOOSE m \in Mac : PhoneOf[m] = p]
    /\ \E status \in [Mac -> {"none", "running", "ended"}] :
         /\ Cardinality({m \in Mac : status[m] # "none"}) <= Cardinality(Sid)
         /\ row = RowsOf(status)
    /\ token = [p \in Phone |-> IF at[p] \in Running THEN CHOOSE i \in Sid : row[i].mac = at[p] ELSE NoSid]
    /\ fwd = Running /\ tracked = fwd /\ rebuilt = {}
    /\ nat = [m \in Mac |-> IF m \in fwd THEN <<"old", "return">> ELSE <<>>]
    /\ todo = [q \in Process |-> <<>>]
    /\ isp = OldDns /\ last = OldDns /\ pending = NoDns /\ streak = 0 /\ news = NoDns /\ changes = 0
    /\ job = [w \in Worker |-> NoJob]
    /\ registry = [i \in Sid |-> NoMutex] /\ held = {}
    /\ api = "up" /\ refused = {} /\ hurt = {}
    /\ requests = 0 /\ roams = 0 /\ crashes = 0

Migration(w) ==
    \/ LoadOrStore(w) \/ Lock(w) \/ ReadRow(w) \/ Migrate(w) \/ MigrateFails(w)
    \/ Unlock(w) \/ Forget(w)
Expiry == \E q \in Worker \cup {Enforcer} : ExpireOverdueSessions(q)
ScriptStep(q) == Run(q) /\ UNCHANGED <<rows, at, job, locks, api, hurt, bounds>>
WatchPass ==
    /\ api = "up"
    /\ PassResets \/ PassCounts \/ (PassRefreshes /\ NoScript(tracked)) \/ PassRecords
    /\ UNCHANGED <<rows, at, job, locks, api, hurt, bounds>>

Next ==
    \/ \E w \in Worker, p \in Phone :
         PayOwnRow(w, p) \/ PayNewRow(w, p) \/ PayRefused(w, p) \/ Poll(w, p)
    \/ \E w \in Worker : Refresh(w) \/ Migration(w)
    \/ \E p \in Phone : Roam(p) \/ PollByMac(p)
    \/ \E i \in Sid : TimeUp(i)
    \/ Expiry
    \/ \E q \in Process : ScriptStep(q)
    \/ WatchPass
    \/ IspChange /\ UNCHANGED <<rows, at, job, locks, api, hurt, bounds>>
    \/ Crash \/ PowerCut \/ Recover \/ Serve

Spec == Init /\ [][Next]_vars

\* The portal page of a phone polls for as long as it is open, the watcher has a
\* ticker, and what was started goes on.
Fairness ==
    /\ \A p \in Phone : WF_vars(\E w \in Worker : Poll(w, p))
    /\ \A w \in Worker : WF_vars(Migration(w))
    /\ \A q \in Process : WF_vars(ScriptStep(q))
    /\ WF_vars(WatchPass) /\ WF_vars(Recover \/ Serve)
FairSpec == Spec /\ Fairness

-----------------------------------------------------------------------------
TypeOK ==
    /\ CaptiveTypeOK
    /\ row \in [Sid -> [mac: Mac \cup {NoMac}, status: {"none", "running", "due", "ended"}]]
    /\ at \in [Phone -> Mac] /\ token \in [Phone -> Sid \cup {NoSid}]
    /\ job \in [Worker -> Job]
    /\ registry \in [Sid -> Mutex \cup {NoMutex}]
    /\ held \subseteq {job[w].mu : w \in Worker} \ {NoMutex}   \* nobody left one locked
    /\ api \in {"up", "boot", "recovering"} /\ hurt \subseteq Mac
    /\ requests \in 0 .. MaxRequests /\ roams \in 0 .. MaxRoams /\ crashes \in 0 .. MaxCrashes

\* When nothing is under way, a device is let through, by complete rules in the right
\* order, and tracked exactly if a session of its address runs; one whose commands a
\* crash cut off is exempt only where nothing runs.
AtRest == api = "up" /\ (\A q \in Process : Quiet(q)) /\ (\A w \in Worker : job[w] = NoJob)
AccessFollows ==
    AtRest => \A m \in Mac :
        IF \E i \in OwnerOf(m) : row[i].status \in {"running", "due"}
        THEN Open(m) /\ m \in tracked
        ELSE m \in hurt \/ (Closed(m) /\ m \notin tracked)

\* Roaming ends nobody's session: a session that runs is not ended before its time
\* is up, whoever moves to its address.
NobodyPushedOut ==
    [][\A i \in Sid : Lasting(i) =>
           row'[i].status # "ended" /\ row'[i].mac # NoMac]_vars

\* A phone that shows a new address which no other row owns has its session there in
\* the end, unless it loses the token or its time is up before.
Left(p) ==
    /\ token[p] # NoSid /\ row[token[p]].status = "running"
    /\ row[token[p]].mac # at[p] /\ OwnerOf(at[p]) = {}
FollowsRoamer == \A p \in Phone : []<>~Left(p)

\* The file last_dns names a new upstream only once no client has a rule that points
\* at the old one, also when a crash cuts a refresh short.
RecordedMeansRebuilt ==
    last \in Dns \ {OldDns} => \A m \in Mac : "old" \notin ToSet(nat[m])

\* When the upstream stays another one than the old rules point at, no client keeps
\* a rule that points there.
StaleDnsRepaired ==
    <>[](isp \in Dns \ {OldDns}) => <>[](\A m \in Mac : "old" \notin ToSet(nat[m]))

\* schema.sql: a token is "unique per active session": only the token of an active
\* session is in the way of a payment.
TokenFreeAfterSession == "ended" \notin refused
=============================================================================
