---------------------------- MODULE RoamingProofs ----------------------------
(***************************************************************************)
(* Proofs about Roaming, and about the scripts of CaptiveRules, for any    *)
(* number of addresses, phones, rows, workers, requests and crashes, and   *)
(* for careful operation or not.                                           *)
(***************************************************************************)
EXTENDS Roaming, FiniteSetTheorems, SequenceTheorems, TLAPS

\* A script that takes an address off the list has closed it before.
ClosesFirst(s) ==
    \A k \in DOMAIN s : s[k].do = "untrack" =>
        \E j \in 1 .. (k - 1) : s[j] = [do |-> "clear", mac |-> s[k].mac]
Proper(s) == s \in Seq(Command) /\ ClosesFirst(s)

NoOld(m) == "old" \notin ToSet(nat[m])

\* Rows and jobs.
Rows == [Sid -> [mac: Mac \cup {NoMac}, status: {"none", "running", "due", "ended"}]]
RowOK(i) == row[i].status \in {"running", "due"} => row[i].mac \in Mac
Jobs == [Worker -> Job]
JobOK(w) ==
    /\ job[w].pc # "idle" => job[w].id \in Sid /\ job[w].new \in Mac /\ job[w].old \in Mac
    /\ job[w].pc \in {"lock", "read", "move", "unlock"} => job[w].mu \in Mutex
    /\ job[w].pc \in {"idle", "load", "forget"} => job[w].mu = NoMutex
\* A mutex in the registry is the one of a worker that has not removed it yet.
Referred(i) ==
    registry[i] # NoMutex => \E w \in Worker :
        job[w].id = i /\ (job[w].mu = registry[i] \/ job[w].pc = "forget")

RulesOK ==
    /\ nat \in [Mac -> Seq(Rule)] /\ fwd \subseteq Mac /\ tracked \subseteq Mac /\ rebuilt \subseteq Mac
    /\ todo \in [Process -> Seq(Command)]
WatchOK ==
    /\ isp \in Dns \cup {NoDns} /\ last \in Dns \cup {NoDns}
    /\ pending \in Dns \cup {NoDns} /\ news \in Dns \cup {NoDns}
    /\ streak \in 0 .. StableNeed /\ changes \in 0 .. MaxIsp
    /\ news = NoDns => streak < StableNeed
RowsOK ==
    /\ row \in Rows /\ \A i \in Sid : RowOK(i)
    /\ at \in [Phone -> Mac] /\ token \in [Phone -> Sid \cup {NoSid}]
MigrationOK ==
    /\ job \in Jobs /\ \A w \in Worker : JobOK(w)
    /\ registry \in [Sid -> Mutex \cup {NoMutex}] /\ \A i \in Sid : Referred(i)
    /\ held \subseteq {job[w].mu : w \in Worker} \ {NoMutex}
RestOK ==
    /\ api \in {"up", "boot", "recovering"} /\ hurt \subseteq Mac
    /\ requests \in 0 .. MaxRequests /\ roams \in 0 .. MaxRoams /\ crashes \in 0 .. MaxCrashes
TypeInv == RulesOK /\ WatchOK /\ RowsOK /\ MigrationOK /\ RestOK

\* A command that closes client m, or writes its rules again.
Wipes(c, m) == c.mac = m /\ c.do \in {"clear", "rebuild"}
\* A script that takes a client off the list leaves no rule at the old server behind.
ClosedBefore(q) ==
    \A k \in DOMAIN todo[q] : todo[q][k].do = "untrack" =>
        \/ NoOld(todo[q][k].mac)
        \/ \E j \in 1 .. (k - 1) : todo[q][j] = [do |-> "clear", mac |-> todo[q][k].mac]
\* Rules at the old server are those of clients on the list, and while the watcher has
\* a reading to record, of clients its refresh has still to write.
OldInv ==
    /\ \A m \in Mac : NoOld(m) \/ m \in tracked
    /\ \A q \in Process : ClosedBefore(q)
    /\ news # NoDns => \A m \in Mac :
           NoOld(m) \/ \E k \in DOMAIN todo[Watcher] : Wipes(todo[Watcher][k], m)
    /\ last \in Dns \ {OldDns} => \A m \in Mac : NoOld(m)

-----------------------------------------------------------------------------
\* Scripts

Dos == {"clear", "rebuild", "return", "redirect", "accept", "track", "untrack"}

\* What the index arithmetic of ForEach does, for the lengths of the scripts.
LEMMA Index ==
    ASSUME NEW n \in {2, 3, 5}, NEW c \in Nat
    PROVE  /\ n * c \in Nat
           /\ \A k \in 1 .. n * c : /\ ((k - 1) % n) + 1 \in 1 .. n
                                    /\ ((k - 1) \div n) + 1 \in 1 .. c
           /\ \A i \in 1 .. n, j \in 1 .. c :
                  /\ (j - 1) * n + i \in 1 .. n * c
                  /\ ((((j - 1) * n + i) - 1) % n) + 1 = i
                  /\ ((((j - 1) * n + i) - 1) \div n) + 1 = j
<1>1. CASE n = 2
    BY <1>1, SMT
<1>2. CASE n = 3
    BY <1>2, SMT
<1>3. CASE n = 5
    BY <1>3, SMT
<1>4. QED
    BY <1>1, <1>2, <1>3

\* SetToSeq lists every member of a finite set once.
LEMMA Listed ==
    ASSUME NEW M, IsFiniteSet(M)
    PROVE  /\ Cardinality(M) \in Nat
           /\ SetToSeq(M) \in [1 .. Cardinality(M) -> M] /\ IsInjective(SetToSeq(M))
           /\ \A m \in M : \E j \in 1 .. Cardinality(M) : SetToSeq(M)[j] = m
<1> DEFINE n == Cardinality(M)
<1>1. n \in Nat /\ ExistsBijection(1 .. n, M)
    BY FS_CardinalityType
<1>2. PICK f : f \in [1 .. n -> M] /\ IsInjective(f)
    BY <1>1 DEF ExistsBijection, Bijection, Injection
<1> DEFINE s == SetToSeq(M)
<1>3. s \in [1 .. n -> M] /\ IsInjective(s)
    BY <1>2 DEF SetToSeq
<1>4. s \in Injection(1 .. n, M)
    BY <1>3 DEF Injection
<1>5. Cardinality(1 .. n) = Cardinality(M)
    <2>1. n = 0 => Cardinality(1 .. n) = 0
        BY FS_Interval, 0 \in Int, 1 \in Int
    <2>2. n # 0 => Cardinality(1 .. n) = n
        <3> HIDE DEF n
        <3>1. SUFFICES ASSUME n # 0 PROVE Cardinality(1 .. n) = n
            OBVIOUS
        <3>2. 1 \in Int /\ n \in Int
            BY <1>1
        <3>3. Cardinality(1 .. n) = IF 1 > n THEN 0 ELSE n - 1 + 1
            BY <3>2, FS_Interval
        <3>4. QED
            BY <3>1, <3>3, <1>1
    <2>3. QED
        BY <2>1, <2>2
<1>6. s \in Surjection(1 .. n, M)
    BY <1>4, <1>5, FS_Injection
<1>7. QED
    BY <1>1, <1>3, <1>6 DEF Surjection

\* The commands of a script are those of its template, client by client.
LEMMA Each ==
    ASSUME NEW M \in SUBSET Mac, NEW cs \in Seq(Dos), Len(cs) \in {2, 3, 5}
    PROVE  /\ Cardinality(M) \in Nat
           /\ ForEach(M, cs) \in Seq(Command)
           /\ DOMAIN ForEach(M, cs) = 1 .. Len(cs) * Cardinality(M)
           /\ \A k \in DOMAIN ForEach(M, cs) :
                  ForEach(M, cs)[k] = [do |-> cs[((k - 1) % Len(cs)) + 1],
                                       mac |-> SetToSeq(M)[((k - 1) \div Len(cs)) + 1]]
           /\ \A i \in 1 .. Len(cs), m \in M :
                  \E k \in DOMAIN ForEach(M, cs) : ForEach(M, cs)[k] = [do |-> cs[i], mac |-> m]
<1> DEFINE n == Len(cs)
           c == Cardinality(M)
           S == SetToSeq(M)
           command(k) == [do |-> cs[((k - 1) % n) + 1], mac |-> S[((k - 1) \div n) + 1]]
           f == [k \in 1 .. n * c |-> command(k)]
<1>1. IsFiniteSet(M)
    BY FS_Subset, CaptiveAssumption
<1>2. c \in Nat /\ S \in [1 .. c -> M] /\ \A m \in M : \E j \in 1 .. c : S[j] = m
    BY <1>1, Listed
<1>3. ForEach(M, cs) = f
    BY DEF ForEach
<1>4. n \in {2, 3, 5} /\ cs \in [1 .. n -> Dos]
    OBVIOUS
<1> HIDE DEF n, c, S
<1>5. /\ n * c \in Nat
      /\ \A k \in 1 .. n * c : /\ ((k - 1) % n) + 1 \in 1 .. n
                               /\ ((k - 1) \div n) + 1 \in 1 .. c
    BY <1>2, <1>4, Index
<1>6. \A k \in 1 .. n * c : command(k) \in Command
    <2> TAKE k \in 1 .. n * c
    <2>1. cs[((k - 1) % n) + 1] \in Dos
        BY <1>4, <1>5
    <2>2. S[((k - 1) \div n) + 1] \in Mac
        BY <1>2, <1>5
    <2>3. QED
        BY <2>1, <2>2 DEF Command, Dos
<1>7. f \in [1 .. n * c -> Command]
    BY <1>6
<1>8. f \in Seq(Command)
    <2> HIDE DEF f
    <2>1. QED
        BY <1>5, <1>7, IsASeq
<1>9. \A i \in 1 .. n, m \in M : \E k \in DOMAIN f : f[k] = [do |-> cs[i], mac |-> m]
    <2> SUFFICES ASSUME NEW i \in 1 .. n, NEW m \in M
                 PROVE  \E k \in DOMAIN f : f[k] = [do |-> cs[i], mac |-> m]
        OBVIOUS
    <2>1. PICK j \in 1 .. c : S[j] = m
        BY <1>2
    <2> DEFINE k == (j - 1) * n + i
    <2>2. k \in 1 .. n * c /\ ((k - 1) % n) + 1 = i /\ ((k - 1) \div n) + 1 = j
        BY <1>2, <1>4, Index
    <2>3. f[k] = [do |-> cs[i], mac |-> m]
        <3> HIDE DEF k
        <3>1. QED
            BY <2>1, <2>2
    <2>4. QED
        BY <2>2, <2>3
<1>10. DOMAIN f = 1 .. n * c /\ \A k \in DOMAIN f : f[k] = command(k)
    OBVIOUS
<1> HIDE DEF f
<1>11. QED
    BY <1>2, <1>3, <1>8, <1>9, <1>10 DEF n, c, S

\* The scripts of the clients that are let through, and of those that are not.
LEMMA AuthScript ==
    ASSUME NEW M \in SUBSET Mac
    PROVE  Proper(cmd_auth(M))
<1> DEFINE cs == <<"clear", "return", "redirect", "accept", "track">>
<1>1. cs \in Seq(Dos) /\ Len(cs) = 5
    BY DEF Dos
<1>2. \A i \in 1 .. 5 : cs[i] # "untrack"
    OBVIOUS
<1>3. cmd_auth(M) = ForEach(M, cs)
    BY DEF cmd_auth
<1> HIDE DEF cs
<1>4. /\ Cardinality(M) \in Nat
      /\ ForEach(M, cs) \in Seq(Command)
      /\ DOMAIN ForEach(M, cs) = 1 .. 5 * Cardinality(M)
      /\ \A k \in DOMAIN ForEach(M, cs) : ForEach(M, cs)[k].do = cs[((k - 1) % 5) + 1]
    <2>1. Len(cs) \in {2, 3, 5}
        BY <1>1
    <2>2. /\ Cardinality(M) \in Nat
          /\ ForEach(M, cs) \in Seq(Command)
          /\ DOMAIN ForEach(M, cs) = 1 .. Len(cs) * Cardinality(M)
          /\ \A k \in DOMAIN ForEach(M, cs) :
                 ForEach(M, cs)[k] = [do |-> cs[((k - 1) % Len(cs)) + 1],
                                      mac |-> SetToSeq(M)[((k - 1) \div Len(cs)) + 1]]
        BY <1>1, <2>1, Each
    <2>3. QED
        BY <1>1, <2>2
<1>5. \A k \in 1 .. 5 * Cardinality(M) : ((k - 1) % 5) + 1 \in 1 .. 5
    BY <1>4, Index
<1>6. \A k \in DOMAIN ForEach(M, cs) : ForEach(M, cs)[k].do # "untrack"
    BY <1>2, <1>4, <1>5
<1>7. QED
    BY <1>3, <1>4, <1>6 DEF Proper, ClosesFirst

\* The commands that put devices out are proper.
LEMMA UnauthScript ==
    ASSUME NEW M \in SUBSET Mac
    PROVE  Proper(cmd_unauth(M))
<1> DEFINE cs == <<"clear", "untrack">>
<1>1. cs \in Seq(Dos) /\ Len(cs) = 2
    BY DEF Dos
<1>2. cs[1] = "clear" /\ cs[2] = "untrack"
    OBVIOUS
<1>3. cmd_unauth(M) = ForEach(M, cs)
    BY DEF cmd_unauth
<1> HIDE DEF cs
<1> DEFINE s == ForEach(M, cs)
<1>4. /\ Cardinality(M) \in Nat
      /\ s \in Seq(Command)
      /\ DOMAIN s = 1 .. 2 * Cardinality(M)
      /\ \A k \in DOMAIN s : s[k] = [do |-> cs[((k - 1) % 2) + 1],
                                     mac |-> SetToSeq(M)[((k - 1) \div 2) + 1]]
    <2>1. Len(cs) \in {2, 3, 5}
        BY <1>1
    <2>2. /\ Cardinality(M) \in Nat
          /\ s \in Seq(Command)
          /\ DOMAIN s = 1 .. Len(cs) * Cardinality(M)
          /\ \A k \in DOMAIN s :
                 s[k] = [do |-> cs[((k - 1) % Len(cs)) + 1],
                         mac |-> SetToSeq(M)[((k - 1) \div Len(cs)) + 1]]
        BY <1>1, <2>1, Each
    <2>3. QED
        BY <1>1, <2>2
<1>5. ASSUME NEW k \in DOMAIN s, s[k].do = "untrack"
      PROVE  \E j \in 1 .. (k - 1) : s[j] = [do |-> "clear", mac |-> s[k].mac]
    <2>1. k \in Nat /\ k >= 1 /\ k <= 2 * Cardinality(M)
        BY <1>4
    <2>2. ((k - 1) % 2) + 1 = 2
        <3>1. ((k - 1) % 2) + 1 \in {1, 2}
            BY <2>1
        <3>2. s[k].do = cs[((k - 1) % 2) + 1]
            BY <1>4
        <3>3. QED
            BY <1>2, <1>5, <3>1, <3>2
    <2>3. k - 1 \in 1 .. 2 * Cardinality(M)
        <3>1. k - 1 >= 1
            BY <2>1, <2>2
        <3>2. QED
            BY <1>4, <2>1, <3>1
    <2>4. (((k - 1) - 1) % 2) + 1 = 1 /\ ((k - 1) - 1) \div 2 = (k - 1) \div 2
        BY <2>1, <2>2
    <2>5. s[k - 1] = [do |-> cs[1], mac |-> SetToSeq(M)[((k - 1) \div 2) + 1]]
        BY <1>4, <2>3, <2>4
    <2>6. s[k].mac = SetToSeq(M)[((k - 1) \div 2) + 1]
        BY <1>4
    <2>7. k - 1 \in 1 .. (k - 1)
        BY <2>1, <2>3
    <2>8. QED
        BY <1>2, <2>5, <2>6, <2>7
<1>6. QED
    BY <1>3, <1>4, <1>5 DEF Proper, ClosesFirst

\* A refresh writes the rules of every client on the list, and takes none off it.
LEMMA RefreshScript ==
    ASSUME tracked \subseteq Mac
    PROVE  /\ cmd_refresh \in Seq(Command)
           /\ \A k \in DOMAIN cmd_refresh : cmd_refresh[k].do # "untrack"
           /\ \A m \in tracked : \E k \in DOMAIN cmd_refresh :
                  cmd_refresh[k].mac = m /\ cmd_refresh[k].do \in {"clear", "rebuild"}
<1> DEFINE cs == <<"rebuild", "redirect", "accept">>
<1>1. cs \in Seq(Dos) /\ Len(cs) = 3
    BY DEF Dos
<1>2. cs[1] = "rebuild" /\ \A i \in 1 .. 3 : cs[i] # "untrack"
    OBVIOUS
<1>3. cmd_refresh = ForEach(tracked, cs)
    BY DEF cmd_refresh
<1> HIDE DEF cs
<1> DEFINE s == ForEach(tracked, cs)
<1>4. /\ Cardinality(tracked) \in Nat
      /\ s \in Seq(Command)
      /\ DOMAIN s = 1 .. 3 * Cardinality(tracked)
      /\ \A k \in DOMAIN s : s[k].do = cs[((k - 1) % 3) + 1]
      /\ \A i \in 1 .. 3, m \in tracked : \E k \in DOMAIN s : s[k] = [do |-> cs[i], mac |-> m]
    <2>1. Len(cs) \in {2, 3, 5} /\ tracked \in SUBSET Mac
        BY <1>1
    <2>2. /\ Cardinality(tracked) \in Nat
          /\ s \in Seq(Command)
          /\ DOMAIN s = 1 .. Len(cs) * Cardinality(tracked)
          /\ \A k \in DOMAIN s :
                 s[k] = [do |-> cs[((k - 1) % Len(cs)) + 1],
                         mac |-> SetToSeq(tracked)[((k - 1) \div Len(cs)) + 1]]
          /\ \A i \in 1 .. Len(cs), m \in tracked :
                 \E k \in DOMAIN s : s[k] = [do |-> cs[i], mac |-> m]
        BY <1>1, <2>1, Each
    <2>3. QED
        BY <1>1, <2>2
<1>5. \A k \in 1 .. 3 * Cardinality(tracked) : ((k - 1) % 3) + 1 \in 1 .. 3
    BY <1>4, Index
<1>6. \A k \in DOMAIN s : s[k].do # "untrack"
    BY <1>2, <1>4, <1>5
<1>7. \A m \in tracked : \E k \in DOMAIN s : s[k] = [do |-> "rebuild", mac |-> m]
    BY <1>2, <1>4
<1> HIDE DEF s
<1>8. \A m \in tracked : \E k \in DOMAIN s : s[k].mac = m /\ s[k].do \in {"clear", "rebuild"}
    BY <1>7
<1>9. cmd_refresh = s
    BY <1>3 DEF s
<1>10. QED
    BY <1>4, <1>6, <1>8, <1>9

\* One script after another.
LEMMA Joined ==
    ASSUME NEW s, NEW t, Proper(s), Proper(t)
    PROVE  Proper(s \o t)
<1> DEFINE u == s \o t
<1>1. s \in Seq(Command) /\ t \in Seq(Command)
    BY DEF Proper
<1>2. u \in Seq(Command)
    BY <1>1
<1>3. /\ Len(s) \in Nat /\ Len(t) \in Nat
      /\ DOMAIN s = 1 .. Len(s) /\ DOMAIN t = 1 .. Len(t) /\ DOMAIN u = 1 .. (Len(s) + Len(t))
      /\ \A k \in 1 .. Len(s) : u[k] = s[k]
      /\ \A k \in 1 .. Len(t) : u[Len(s) + k] = t[k]
    BY <1>1
<1> HIDE DEF u
<1>4. ASSUME NEW k \in DOMAIN u, u[k].do = "untrack"
      PROVE  \E j \in 1 .. (k - 1) : u[j] = [do |-> "clear", mac |-> u[k].mac]
    <2>1. CASE k \in 1 .. Len(s)
        <3>1. PICK j \in 1 .. (k - 1) : s[j] = [do |-> "clear", mac |-> s[k].mac]
            BY <1>3, <1>4, <2>1 DEF Proper, ClosesFirst
        <3>2. j \in 1 .. Len(s)
            BY <2>1, <1>3
        <3>3. QED
            BY <1>3, <2>1, <3>1, <3>2
    <2>2. CASE k \notin 1 .. Len(s)
        <3> DEFINE l == k - Len(s)
        <3>1. l \in 1 .. Len(t) /\ k = Len(s) + l
            BY <1>3, <2>2
        <3>2. u[k] = t[l]
            BY <1>3, <3>1
        <3> HIDE DEF l
        <3>3. PICK j \in 1 .. (l - 1) : t[j] = [do |-> "clear", mac |-> t[l].mac]
            BY <1>3, <1>4, <3>1, <3>2 DEF Proper, ClosesFirst
        <3>4. j \in 1 .. Len(t) /\ Len(s) + j \in 1 .. (k - 1)
            BY <1>3, <3>1
        <3>5. QED
            BY <1>3, <3>2, <3>3, <3>4
    <2>3. QED
        BY <2>1, <2>2
<1>5. QED
    BY <1>2, <1>4 DEF Proper, ClosesFirst, u

\* A script without a command is proper.
LEMMA EmptyScript == Proper(<<>>)
    BY DEF Proper, ClosesFirst

-----------------------------------------------------------------------------
\* Types: the rules

\* Workers, enforcer and watcher are processes.
LEMMA Processes == Worker \subseteq Process /\ Enforcer \in Process /\ Watcher \in Process
    BY RoamingAssumption

\* The addresses of active sessions are addresses of clients.
LEMMA ActiveMacs ==
    ASSUME RowsOK
    PROVE  {row[i].mac : i \in Due} \subseteq Mac /\ Running \subseteq Mac
    BY DEF RowsOK, RowOK, Due, Running

\* What the handlers hand to the script, and what migration and recovery write.
LEMMA Handed ==
    ASSUME RowsOK
    PROVE  /\ \A m \in Mac : Proper(cmd_auth({m}))
           /\ \A m, n \in Mac : Proper(cmd_unauth({m}) \o cmd_auth({n}))
           /\ Proper(CloseDue) /\ Proper(Recovery)
<1>1. \A m \in Mac : Proper(cmd_auth({m}))
    BY AuthScript
<1>2. \A m \in Mac : Proper(cmd_unauth({m}))
    BY UnauthScript
<1>3. \A m, n \in Mac : Proper(cmd_unauth({m}) \o cmd_auth({n}))
    BY <1>1, <1>2, Joined
<1>4. Proper(CloseDue)
    BY ActiveMacs, UnauthScript DEF CloseDue
<1>5. Proper(OpenRunning)
    BY ActiveMacs, AuthScript DEF OpenRunning
<1>6. Proper(Recovery)
    BY <1>4, <1>5, Joined DEF Recovery
<1>7. QED
    BY <1>1, <1>3, <1>4, <1>6

\* A process that sets out to run proper commands keeps the rules well formed.
LEMMA NewScript ==
    ASSUME RulesOK, NEW q \in Process, NEW s \in Seq(Command),
           todo' = [todo EXCEPT ![q] = s], UNCHANGED chains
    PROVE  RulesOK'
    BY DEF RulesOK, chains

\* The next command of a script and the ones after it.
LEMMA HeadOf ==
    ASSUME NEW s \in Seq(Command), s # <<>>
    PROVE  /\ Head(s) \in Command /\ Head(s) = s[1] /\ 1 \in DOMAIN s
           /\ Tail(s) \in Seq(Command)
           /\ \A k \in DOMAIN Tail(s) : k + 1 \in DOMAIN s /\ Tail(s)[k] = s[k + 1]
           /\ \A k \in DOMAIN s : k # 1 => k - 1 \in DOMAIN Tail(s) /\ Tail(s)[k - 1] = s[k]
    OBVIOUS

\* So does one that runs its next command.
LEMMA RunRules ==
    ASSUME RulesOK, NEW q \in Process, Run(q)
    PROVE  RulesOK'
<1> DEFINE s == Head(todo[q])
<1>1. todo[q] \in Seq(Command) /\ todo[q] # <<>>
    BY DEF RulesOK, Run
<1>2. s \in Command /\ Tail(todo[q]) \in Seq(Command)
    BY <1>1, HeadOf
<1>3. todo' \in [Process -> Seq(Command)]
    BY <1>2 DEF RulesOK, Run
<1> HIDE DEF s
<1>4. s.mac \in Mac
    BY <1>2 DEF Command
<1>5. CASE remove_auth_rules(s)
    BY <1>3, <1>4, <1>5 DEF RulesOK, remove_auth_rules
<1>6. CASE insert_rule(s)
    <2>1. CASE s.do \in Rule /\ UNCHANGED <<fwd, tracked, rebuilt>>
                /\ nat' = [nat EXCEPT ![s.mac] = IF s.do \in ToSet(@) THEN @ ELSE <<s.do>> \o @]
        <3>1. nat[s.mac] \in Seq(Rule) /\ <<s.do>> \o nat[s.mac] \in Seq(Rule)
            BY <1>4, <2>1 DEF RulesOK
        <3>2. QED
            BY <1>3, <2>1, <3>1 DEF RulesOK
    <2>2. CASE s.do = "accept" /\ fwd' = fwd \cup {s.mac} /\ UNCHANGED <<nat, tracked, rebuilt>>
        BY <1>3, <1>4, <2>2 DEF RulesOK
    <2>3. QED
        BY <1>6, <2>1, <2>2 DEF insert_rule
<1>7. CASE save_auth_mac(s)
    BY <1>3, <1>4, <1>7 DEF RulesOK, save_auth_mac
<1>8. CASE remove_auth_mac(s)
    BY <1>3, <1>4, <1>8 DEF RulesOK, remove_auth_mac
<1>9. QED
    BY <1>5, <1>6, <1>7, <1>8 DEF Run, s

\* Every step keeps the rules well formed.
LEMMA RulesKept ==
    ASSUME TypeInv, [Next]_vars
    PROVE  RulesOK'
<1> USE DEF TypeInv
<1>1. CASE UNCHANGED vars
    BY <1>1 DEF RulesOK, vars, captiveVars, chains
<1>2. ASSUME NEW w \in Worker, NEW p \in Phone, PayOwnRow(w, p) \/ PayNewRow(w, p)
      PROVE  RulesOK'
    <2>1. UNCHANGED chains /\ todo' = [todo EXCEPT ![w] = cmd_auth({at[p]})]
        BY <1>2 DEF PayOwnRow, PayNewRow, Paid
    <2>2. cmd_auth({at[p]}) \in Seq(Command)
        BY Handed DEF RowsOK, Proper
    <2>3. QED
        BY <2>1, <2>2, NewScript, Processes
<1>3. ASSUME NEW w \in Worker, NEW p \in Phone, PayRefused(w, p) \/ Poll(w, p)
      PROVE  RulesOK'
    BY <1>3 DEF RulesOK, PayRefused, Poll, captiveVars, chains
<1>4. ASSUME NEW w \in Worker, Refresh(w)
      PROVE  RulesOK'
    <2>1. UNCHANGED chains /\ todo' = [todo EXCEPT ![w] = cmd_refresh] /\ tracked \subseteq Mac
        BY <1>4 DEF Refresh, RulesOK
    <2>2. QED
        BY <2>1, RefreshScript, NewScript, Processes
<1>5. ASSUME NEW w \in Worker, Migrate(w)
      PROVE  RulesOK'
    <2>1. /\ UNCHANGED chains
          /\ todo' = [todo EXCEPT ![w] = cmd_unauth({job[w].old}) \o cmd_auth({job[w].new})]
        BY <1>5 DEF Migrate
    <2>2. job[w].old \in Mac /\ job[w].new \in Mac
        BY <1>5 DEF Migrate, MigrationOK, JobOK
    <2>3. cmd_unauth({job[w].old}) \o cmd_auth({job[w].new}) \in Seq(Command)
        BY <2>2, Handed DEF Proper
    <2>4. QED
        BY <2>1, <2>3, NewScript, Processes
<1>6. ASSUME NEW w \in Worker, \/ LoadOrStore(w) \/ Lock(w) \/ ReadRow(w) \/ MigrateFails(w)
                               \/ Unlock(w) \/ Forget(w)
      PROVE  RulesOK'
    BY <1>6 DEF RulesOK, LoadOrStore, Lock, ReadRow, MigrateFails, Unlock, Forget, captiveVars, chains
<1>7. ASSUME NEW p \in Phone, Roam(p) \/ PollByMac(p)
      PROVE  RulesOK'
    BY <1>7 DEF RulesOK, Roam, PollByMac, captiveVars, chains
<1>8. ASSUME NEW i \in Sid, TimeUp(i)
      PROVE  RulesOK'
    BY <1>8 DEF RulesOK, TimeUp, captiveVars, chains
<1>9. ASSUME NEW q \in Worker \cup {Enforcer}, ExpireOverdueSessions(q)
      PROVE  RulesOK'
    <2>1. UNCHANGED chains /\ todo' = [todo EXCEPT ![q] = CloseDue]
        BY <1>9 DEF ExpireOverdueSessions
    <2>2. CloseDue \in Seq(Command)
        BY Handed DEF Proper
    <2>3. QED
        BY <2>1, <2>2, NewScript, Processes
<1>10. ASSUME NEW q \in Process, ScriptStep(q)
       PROVE  RulesOK'
    BY <1>10, RunRules DEF ScriptStep
<1>11. CASE WatchPass
    <2>1. CASE PassRefreshes
        <3>1. UNCHANGED chains /\ todo' = [todo EXCEPT ![Watcher] = cmd_refresh] /\ tracked \subseteq Mac
            BY <2>1 DEF PassRefreshes, RulesOK
        <3>2. QED
            BY <3>1, RefreshScript, NewScript, Processes
    <2>2. CASE PassResets \/ PassCounts \/ PassRecords
        BY <2>2 DEF RulesOK, PassResets, PassCounts, PassRecords, chains
    <2>3. QED
        BY <1>11, <2>1, <2>2 DEF WatchPass
<1>12. CASE IspChange
    BY <1>12 DEF RulesOK, IspChange, chains
<1>13. CASE Crash \/ PowerCut
    <2>1. \/ UNCHANGED <<nat, fwd>>
          \/ nat' = [m \in Mac |-> <<>>] /\ fwd' = {}
        BY <1>13 DEF Crash, PowerCut
    <2>2. nat' \in [Mac -> Seq(Rule)] /\ fwd' \subseteq Mac
        <3>1. <<>> \in Seq(Rule)
            OBVIOUS
        <3>2. CASE UNCHANGED <<nat, fwd>>
            BY <3>2 DEF RulesOK
        <3>3. CASE nat' = [m \in Mac |-> <<>>] /\ fwd' = {}
            BY <3>1, <3>3
        <3>4. QED
            BY <2>1, <3>2, <3>3
    <2>3. UNCHANGED <<tracked, rebuilt>> /\ todo' = [q \in Process |-> <<>>]
        BY <1>13 DEF Crash, PowerCut, Cut
    <2>4. QED
        BY <2>2, <2>3 DEF RulesOK
<1>14. CASE Recover
    <2>1. UNCHANGED chains /\ todo' = [todo EXCEPT ![Enforcer] = Recovery]
        BY <1>14 DEF Recover
    <2>2. Recovery \in Seq(Command)
        BY Handed DEF Proper
    <2>3. QED
        BY <2>1, <2>2, NewScript, Processes
<1>15. CASE Serve
    BY <1>15 DEF RulesOK, Serve, captiveVars, chains
<1>16. QED
    BY <1>1, <1>2, <1>3, <1>4, <1>5, <1>6, <1>7, <1>8, <1>9, <1>10, <1>11, <1>12, <1>13, <1>14, <1>15
    DEF Next, Migration, Expiry

-----------------------------------------------------------------------------
\* Types: the watcher, the bounds

\* Every step keeps what the watcher remembers well formed.
LEMMA WatchKept ==
    ASSUME TypeInv, [Next]_vars
    PROVE  WatchOK'
<1> USE DEF TypeInv, WatchOK, watch
<1> USE CaptiveAssumption
<1>1. CASE UNCHANGED vars
    BY <1>1 DEF vars, captiveVars
<1>2. ASSUME NEW w \in Worker, NEW p \in Phone,
             PayOwnRow(w, p) \/ PayNewRow(w, p) \/ PayRefused(w, p) \/ Poll(w, p)
      PROVE  WatchOK'
    BY <1>2 DEF PayOwnRow, PayNewRow, PayRefused, Poll, captiveVars
<1>3. ASSUME NEW w \in Worker, Refresh(w) \/ Migration(w)
      PROVE  WatchOK'
    BY <1>3 DEF Refresh, Migration, LoadOrStore, Lock, ReadRow, Migrate, MigrateFails, Unlock, Forget,
                captiveVars
<1>4. ASSUME NEW p \in Phone, Roam(p) \/ PollByMac(p)
      PROVE  WatchOK'
    BY <1>4 DEF Roam, PollByMac, captiveVars
<1>5. ASSUME NEW i \in Sid, TimeUp(i)
      PROVE  WatchOK'
    BY <1>5 DEF TimeUp, captiveVars
<1>6. CASE Expiry
    BY <1>6 DEF Expiry, ExpireOverdueSessions
<1>7. ASSUME NEW q \in Process, ScriptStep(q)
      PROVE  WatchOK'
    BY <1>7 DEF ScriptStep, Run
<1>8. CASE PassResets
    BY <1>8 DEF PassResets
<1>9. CASE PassCounts
    BY <1>9 DEF PassCounts, Counted
<1>10. CASE PassRefreshes
    <2>1. streak \in Nat /\ streak < StableNeed
        BY <1>10 DEF PassRefreshes
    <2>2. Counted \in 0 .. StableNeed
        BY <2>1 DEF Counted
    <2>3. news' = isp /\ isp # NoDns /\ pending' = isp /\ streak' = Counted
          /\ UNCHANGED <<isp, last, changes>>
        BY <1>10 DEF PassRefreshes
    <2>4. QED
        BY <2>2, <2>3
<1>11. CASE PassRecords
    BY <1>11 DEF PassRecords, Records
<1>12. CASE IspChange
    <2>1. isp' \in Dns \cup {NoDns} /\ changes' \in 0 .. MaxIsp /\ UNCHANGED watch
        BY <1>12 DEF IspChange
    <2>2. QED
        BY <2>1
<1>13. CASE Crash \/ PowerCut
    BY <1>13 DEF Crash, PowerCut, Cut
<1>14. CASE Recover
    BY <1>14 DEF Recover
<1>15. CASE Serve
    BY <1>15 DEF Serve, captiveVars
<1>16. QED
    BY <1>1, <1>2, <1>3, <1>4, <1>5, <1>6, <1>7, <1>8, <1>9, <1>10, <1>11, <1>12, <1>13, <1>14, <1>15
    DEF Next, WatchPass

\* The clients a script is working on are addresses of clients.
LEMMA WorkedOn ==
    ASSUME RulesOK, NEW q \in Process
    PROVE  Worked(q) \subseteq Mac
<1>1. todo[q] \in Seq(Command)
    BY DEF RulesOK
<1>2. \A c \in ToSet(todo[q]) : c \in Command
    BY <1>1 DEF ToSet
<1>3. QED
    BY <1>2 DEF Worked, Command

\* Every step keeps the types of clients, counters and history.
LEMMA RestKept ==
    ASSUME TypeInv, [Next]_vars
    PROVE  RestOK'
<1> USE DEF TypeInv, RestOK, bounds
<1>0. MaxRequests \in Nat /\ MaxRoams \in Nat /\ MaxCrashes \in Nat
    BY RoamingAssumption
<1>1. CASE UNCHANGED vars
    BY <1>1 DEF vars
<1>2. ASSUME NEW w \in Worker, NEW p \in Phone,
             PayOwnRow(w, p) \/ PayNewRow(w, p) \/ PayRefused(w, p)
      PROVE  RestOK'
    <2>1. Ask /\ UNCHANGED <<api, hurt, roams, crashes>>
        BY <1>2 DEF PayOwnRow, PayNewRow, PayRefused, PayFor
    <2>2. QED
        BY <1>0, <2>1 DEF Ask
<1>3. ASSUME NEW w \in Worker, NEW p \in Phone, Poll(w, p)
      PROVE  RestOK'
    BY <1>3 DEF Poll
<1>4. ASSUME NEW w \in Worker, Refresh(w)
      PROVE  RestOK'
    BY <1>0, <1>4 DEF Refresh, Ask
<1>5. ASSUME NEW w \in Worker, Migration(w)
      PROVE  RestOK'
    BY <1>5 DEF Migration, LoadOrStore, Lock, ReadRow, Migrate, MigrateFails, Unlock, Forget
<1>6. ASSUME NEW p \in Phone, Roam(p)
      PROVE  RestOK'
    BY <1>0, <1>6 DEF Roam
<1>7. ASSUME NEW p \in Phone, PollByMac(p)
      PROVE  RestOK'
    BY <1>7 DEF PollByMac
<1>8. ASSUME NEW i \in Sid, TimeUp(i)
      PROVE  RestOK'
    BY <1>8 DEF TimeUp
<1>9. CASE Expiry
    BY <1>9 DEF Expiry, ExpireOverdueSessions
<1>10. ASSUME NEW q \in Process, ScriptStep(q)
       PROVE  RestOK'
    BY <1>10 DEF ScriptStep
<1>11. CASE WatchPass
    BY <1>11 DEF WatchPass
<1>12. CASE IspChange /\ UNCHANGED <<rows, at, job, locks, api, hurt, bounds>>
    BY <1>12
<1>13. CASE Crash \/ PowerCut
    <2>1. hurt' \subseteq Mac
        BY <1>13, WorkedOn DEF Crash, PowerCut, Cut
    <2>2. crashes' \in 0 .. MaxCrashes /\ api' = "boot" /\ UNCHANGED <<requests, roams>>
        BY <1>0, <1>13 DEF Crash, PowerCut, Cut
    <2>3. QED
        BY <2>1, <2>2
<1>14. CASE Recover
    BY <1>14 DEF Recover
<1>15. CASE Serve
    BY <1>15 DEF Serve
<1>16. QED
    BY <1>1, <1>2, <1>3, <1>4, <1>5, <1>6, <1>7, <1>8, <1>9, <1>10, <1>11, <1>12, <1>13, <1>14, <1>15
    DEF Next

-----------------------------------------------------------------------------
\* Types: rows

Statuses == {"none", "running", "due", "ended"}
RowType == [mac: Mac \cup {NoMac}, status: Statuses]

\* Rows stay rows when each row does.
LEMMA EachRow ==
    ASSUME NEW f, f = [i \in Sid |-> f[i]], row' = f,
           \A i \in Sid : f[i] \in RowType /\ (f[i].status \in {"running", "due"} => f[i].mac \in Mac)
    PROVE  row' \in Rows /\ \A i \in Sid : RowOK(i)'
    BY DEF Rows, RowType, Statuses, RowOK

\* Rows stay well formed when the due ones expire.
LEMMA ExpireRows ==
    ASSUME RowsOK, row' = ExpiredRows
    PROVE  row' \in Rows /\ \A i \in Sid : RowOK(i)'
<1>1. \A i \in Sid : ExpiredRows[i] = IF i \in Due THEN [row[i] EXCEPT !.status = "ended"] ELSE row[i]
    BY DEF ExpiredRows
<1>2. \A i \in Sid : row[i] \in RowType /\ RowOK(i)
    BY DEF RowsOK, Rows, RowType, Statuses
<1>3. ASSUME NEW i \in Sid
      PROVE  ExpiredRows[i] \in RowType
             /\ (ExpiredRows[i].status \in {"running", "due"} => ExpiredRows[i].mac \in Mac)
    <2>1. CASE i \in Due
        BY <1>1, <1>2, <2>1 DEF RowType, Statuses
    <2>2. CASE i \notin Due
        BY <1>1, <1>2, <2>2 DEF RowOK
    <2>3. QED
        BY <2>1, <2>2
<1>4. ExpiredRows = [i \in Sid |-> ExpiredRows[i]]
    BY DEF ExpiredRows
<1>5. QED
    BY <1>3, <1>4, EachRow

\* Every step keeps the rows well formed.
LEMMA RowsKept ==
    ASSUME TypeInv, [Next]_vars
    PROVE  RowsOK'
<1> USE DEF TypeInv, rows
<1>1. CASE UNCHANGED vars
    BY <1>1 DEF vars, RowsOK, RowOK
<1>2. ASSUME NEW w \in Worker, NEW p \in Phone, PayOwnRow(w, p) \/ PayNewRow(w, p)
      PROVE  RowsOK'
    <2>1. PICK i \in Sid : Paid(w, p, i)
        BY <1>2 DEF PayOwnRow, PayNewRow, OwnerOf
    <2>2. row' = [row EXCEPT ![i] = [mac |-> at[p], status |-> "running"]]
          /\ token' = [token EXCEPT ![p] = i] /\ at' = at
        BY <1>2, <2>1 DEF PayOwnRow, PayNewRow, Paid
    <2>3. at[p] \in Mac
        BY DEF RowsOK
    <2>4. row' \in Rows /\ \A j \in Sid : RowOK(j)'
        BY <2>2, <2>3 DEF RowsOK, Rows, RowOK
    <2>5. QED
        BY <2>2, <2>4 DEF RowsOK
<1>3. ASSUME NEW w \in Worker, NEW p \in Phone, PayRefused(w, p) \/ Poll(w, p)
      PROVE  RowsOK'
    BY <1>3 DEF RowsOK, RowOK, PayRefused, Poll
<1>4. ASSUME NEW w \in Worker, Refresh(w)
      PROVE  RowsOK'
    BY <1>4 DEF RowsOK, RowOK, Refresh
<1>5. ASSUME NEW w \in Worker, Migrate(w)
      PROVE  RowsOK'
    <2> DEFINE i == job[w].id
               new == job[w].new
               f == [j \in Sid |-> IF j = i THEN [row[i] EXCEPT !.mac = new]
                                   ELSE IF row[j].mac = new THEN [mac |-> NoMac, status |-> "ended"]
                                   ELSE row[j]]
    <2>1. row' = f /\ UNCHANGED <<token, at>>
        BY <1>5 DEF Migrate
    <2>2. i \in Sid /\ new \in Mac
        BY <1>5 DEF Migrate, MigrationOK, JobOK
    <2>3. \A j \in Sid : row[j] \in RowType /\ RowOK(j)
        BY DEF RowsOK, Rows, RowType, Statuses
    <2> HIDE DEF i, new
    <2>4. ASSUME NEW j \in Sid
          PROVE  f[j] \in RowType /\ (f[j].status \in {"running", "due"} => f[j].mac \in Mac)
        <3>1. CASE j = i
            BY <2>2, <2>3, <3>1 DEF RowType, Statuses
        <3>2. CASE j # i /\ row[j].mac = new
            BY <3>2 DEF RowType, Statuses
        <3>3. CASE j # i /\ row[j].mac # new
            BY <2>3, <3>3 DEF RowOK
        <3>4. QED
            BY <3>1, <3>2, <3>3
    <2>5. f = [j \in Sid |-> f[j]]
        OBVIOUS
    <2> HIDE DEF f
    <2>6. row' \in Rows /\ \A j \in Sid : RowOK(j)'
        BY <2>1, <2>4, <2>5, EachRow
    <2>7. QED
        BY <2>1, <2>6 DEF RowsOK
<1>6. ASSUME NEW w \in Worker, \/ LoadOrStore(w) \/ Lock(w) \/ ReadRow(w) \/ MigrateFails(w)
                               \/ Unlock(w) \/ Forget(w)
      PROVE  RowsOK'
    BY <1>6 DEF RowsOK, RowOK, LoadOrStore, Lock, ReadRow, MigrateFails, Unlock, Forget
<1>7. ASSUME NEW p \in Phone, Roam(p)
      PROVE  RowsOK'
    <2>1. at' \in [Phone -> Mac]
        BY <1>7 DEF Roam, RowsOK
    <2>2. token' \in [Phone -> Sid \cup {NoSid}]
        BY <1>7 DEF Roam, RowsOK
    <2>3. row' = row
        BY <1>7 DEF Roam
    <2>4. QED
        BY <2>1, <2>2, <2>3 DEF RowsOK, RowOK
<1>8. ASSUME NEW p \in Phone, PollByMac(p)
      PROVE  RowsOK'
    BY <1>8 DEF PollByMac, RowsOK, RowOK, OwnerOf
<1>9. ASSUME NEW i \in Sid, TimeUp(i)
      PROVE  RowsOK'
    <2>1. row' = [row EXCEPT ![i].status = "due"] /\ UNCHANGED <<token, at>> /\ row[i].status = "running"
        BY <1>9 DEF TimeUp
    <2>2. row' \in Rows /\ \A j \in Sid : RowOK(j)'
        BY <2>1 DEF RowsOK, Rows, RowOK
    <2>3. QED
        BY <2>1, <2>2 DEF RowsOK
<1>10. ASSUME NEW q \in Worker \cup {Enforcer}, ExpireOverdueSessions(q)
       PROVE  RowsOK'
    <2>1. row' = ExpiredRows /\ UNCHANGED <<token, at>>
        BY <1>10 DEF ExpireOverdueSessions
    <2>2. QED
        BY <2>1, ExpireRows DEF RowsOK
<1>11. ASSUME NEW q \in Process, ScriptStep(q)
       PROVE  RowsOK'
    BY <1>11 DEF RowsOK, RowOK, ScriptStep
<1>12. CASE WatchPass
    BY <1>12 DEF RowsOK, RowOK, WatchPass
<1>13. CASE IspChange /\ UNCHANGED <<rows, at, job, locks, api, hurt, bounds>>
    BY <1>13 DEF RowsOK, RowOK
<1>14. CASE Crash \/ PowerCut
    BY <1>14 DEF RowsOK, RowOK, Crash, PowerCut, Cut
<1>15. CASE Recover
    <2>1. row' = ExpiredRows /\ UNCHANGED <<token, at>>
        BY <1>15 DEF Recover
    <2>2. QED
        BY <2>1, ExpireRows DEF RowsOK
<1>16. CASE Serve
    BY <1>16 DEF RowsOK, RowOK, Serve
<1>17. QED
    BY <1>1, <1>2, <1>3, <1>4, <1>5, <1>6, <1>7, <1>8, <1>9, <1>10, <1>11, <1>12, <1>13, <1>14, <1>15,
       <1>16
    DEF Next, Migration, Expiry

-----------------------------------------------------------------------------
\* Types: migrations and their mutexes

\* The mutex worker v is to blame for.
MutexOf(v) == IF job[v].pc = "forget" THEN registry[job[v].id] ELSE job[v].mu

\* Every mutex in use is some worker's, so one is left for a session without one.
LEMMA FreshMutex ==
    ASSUME MigrationOK
    PROVE  Mutex \ (Range(registry) \cup {job[v].mu : v \in Worker}) # {}
<1> DEFINE used == {MutexOf(v) : v \in Worker}
           f == [v \in Worker |-> MutexOf(v)]
<1>1. IsFiniteSet(Worker) /\ Cardinality(Worker) \in Nat
    BY RoamingAssumption, FS_CardinalityType
<1>2. f \in Surjection(Worker, used)
    BY DEF Surjection
<1> HIDE DEF f
<1>3. IsFiniteSet(used) /\ Cardinality(used) <= Cardinality(Worker)
    BY <1>1, <1>2, FS_Surjection
<1>4. \A u \in Mutex : u \in Range(registry) \cup {job[v].mu : v \in Worker} => u \in used
    <2> SUFFICES ASSUME NEW u \in Mutex, u \in Range(registry) \cup {job[v].mu : v \in Worker}
                 PROVE  \E v \in Worker : u = MutexOf(v)
        OBVIOUS
    <2>1. u # NoMutex
        BY RoamingAssumption
    <2>2. CASE u \in Range(registry)
        <3>1. PICK i \in Sid : registry[i] = u
            BY <2>2 DEF Range, MigrationOK
        <3>2. PICK v \in Worker : job[v].id = i /\ (job[v].mu = u \/ job[v].pc = "forget")
            BY <2>1, <3>1 DEF MigrationOK, Referred
        <3>3. u = MutexOf(v)
            BY <3>1, <3>2 DEF MutexOf
        <3>4. QED
            BY <3>3
    <2>3. CASE u \in {job[v].mu : v \in Worker}
        <3>1. PICK v \in Worker : job[v].mu = u
            BY <2>3
        <3>2. job[v].pc # "forget"
            BY <2>1, <3>1 DEF MigrationOK, JobOK
        <3>3. u = MutexOf(v)
            BY <3>1, <3>2 DEF MutexOf
        <3>4. QED
            BY <3>3
    <2>4. QED
        BY <2>2, <2>3
<1>5. ~(Mutex \subseteq used)
    <2>1. SUFFICES ASSUME Mutex \in SUBSET used PROVE FALSE
        OBVIOUS
    <2>2. Cardinality(Mutex) <= Cardinality(used)
        BY <1>3, <2>1, FS_Subset
    <2>3. Cardinality(Mutex) \in Nat /\ Cardinality(used) \in Nat
        BY <1>3, RoamingAssumption, FS_CardinalityType
    <2>4. QED
        BY <1>1, <1>3, <2>2, <2>3, RoamingAssumption
<1>6. PICK u \in Mutex : u \notin used
    BY <1>5
<1>7. u \notin Range(registry) \cup {job[v].mu : v \in Worker}
    BY <1>4, <1>6
<1>8. QED
    BY <1>7

\* A step of one worker's migration, with what it may do to the registry and the locks.
LEMMA StepOf ==
    ASSUME MigrationOK, NEW w \in Worker, NEW r, job' = [job EXCEPT ![w] = r],
           r \in Job,
           r.pc # "idle" => r.id \in Sid /\ r.new \in Mac /\ r.old \in Mac,
           r.pc \in {"lock", "read", "move", "unlock"} => r.mu \in Mutex,
           r.pc \in {"idle", "load", "forget"} => r.mu = NoMutex
    PROVE  /\ job' \in Jobs /\ \A v \in Worker : JobOK(v)'
           /\ job'[w] = r /\ \A v \in Worker \ {w} : job'[v] = job[v]
    BY DEF MigrationOK, Jobs, JobOK

\* A worker that keeps its session and its mutex, or gives it up to forget it, leaves
\* the registry accounted for.
LEMMA KeepsReferred ==
    ASSUME MigrationOK, NEW w \in Worker, registry' = registry,
           \A v \in Worker \ {w} : job'[v] = job[v],
           \/ job[w].id \notin Sid
           \/ /\ job'[w].id = job[w].id
              /\ job'[w].pc = "forget" \/ (job'[w].mu = job[w].mu /\ job[w].pc # "forget")
    PROVE  \A i \in Sid : Referred(i)'
<1> SUFFICES ASSUME NEW i \in Sid, registry[i] # NoMutex
             PROVE  \E v \in Worker : job'[v].id = i /\ (job'[v].mu = registry[i] \/ job'[v].pc = "forget")
    BY DEF Referred
<1>1. PICK v \in Worker : job[v].id = i /\ (job[v].mu = registry[i] \/ job[v].pc = "forget")
    BY DEF MigrationOK, Referred
<1>2. CASE v = w
    BY <1>1, <1>2
<1>3. CASE v # w
    BY <1>1, <1>3
<1>4. QED
    BY <1>2, <1>3

\* A step beside requests and their locks keeps the migrations well formed.
LEMMA SameLocks ==
    ASSUME MigrationOK, UNCHANGED <<job, registry, held>>
    PROVE  MigrationOK'
    BY DEF MigrationOK, JobOK, Referred

\* The next stage of a migration, with the mutex it has.
LEMMA Goes ==
    ASSUME MigrationOK, NEW w \in Worker,
           NEW pc \in {"read", "move", "unlock"}, Going(w, pc),
           job[w].pc \in {"lock", "read", "move"},
           registry' = registry,
           held' = held \/ held' = held \cup {job[w].mu}
    PROVE  MigrationOK'
<1> DEFINE r == [job[w] EXCEPT !.pc = pc]
<1>1. job' = [job EXCEPT ![w] = r]
    BY DEF Going
<1>2. job[w] \in Job /\ JobOK(w)
    BY DEF MigrationOK, Jobs
<1>3. r \in Job /\ r.pc = pc /\ r.id = job[w].id /\ r.new = job[w].new /\ r.old = job[w].old
      /\ r.mu = job[w].mu
    BY <1>2 DEF Job
<1>4. r.id \in Sid /\ r.new \in Mac /\ r.old \in Mac /\ r.mu \in Mutex
    BY <1>2, <1>3 DEF JobOK
<1> HIDE DEF r
<1>5. /\ job' \in Jobs /\ \A v \in Worker : JobOK(v)'
      /\ job'[w] = r /\ \A v \in Worker \ {w} : job'[v] = job[v]
    BY <1>1, <1>3, <1>4, StepOf
<1>6. \A i \in Sid : Referred(i)'
    BY <1>3, <1>5, KeepsReferred
<1>7. \A v \in Worker : job'[v].mu = job[v].mu
    BY <1>3, <1>5
<1>8. held' \subseteq {job'[v].mu : v \in Worker} \ {NoMutex}
    <2>1. {job'[v].mu : v \in Worker} = {job[v].mu : v \in Worker}
        BY <1>7
    <2>2. job[w].mu # NoMutex
        BY <1>3, <1>4, RoamingAssumption
    <2>3. QED
        BY <2>1, <2>2 DEF MigrationOK
<1>9. QED
    BY <1>5, <1>6, <1>8 DEF MigrationOK

\* Every step keeps the migrations well formed.
LEMMA MigrationKept ==
    ASSUME TypeInv, [Next]_vars
    PROVE  MigrationOK'
<1> USE DEF TypeInv, locks
<1>1. CASE UNCHANGED vars
    BY <1>1, SameLocks DEF vars
<1>2. ASSUME NEW w \in Worker, NEW p \in Phone, PayOwnRow(w, p) \/ PayNewRow(w, p) \/ PayRefused(w, p)
      PROVE  MigrationOK'
    BY <1>2, SameLocks DEF PayOwnRow, PayNewRow, PayRefused
<1>3. ASSUME NEW w \in Worker, NEW p \in Phone, Poll(w, p)
      PROVE  MigrationOK'
    <2> DEFINE i == token[p]
               r == [NoJob EXCEPT !.pc = "load", !.id = i, !.old = row[i].mac, !.new = at[p]]
    <2>1. /\ job[w] = NoJob /\ job' = [job EXCEPT ![w] = r] /\ UNCHANGED <<registry, held>>
          /\ i # NoSid /\ row[i].status = "running"
        BY <1>3 DEF Poll, Free, Idle, Lasting
    <2>2. i \in Sid /\ row[i].mac \in Mac /\ at[p] \in Mac
        BY <2>1 DEF RowsOK, RowOK
    <2>3. r \in Job /\ r.pc = "load" /\ r.id \in Sid /\ r.old \in Mac /\ r.new \in Mac /\ r.mu = NoMutex
        BY <2>2 DEF NoJob, Job
    <2> HIDE DEF r, i
    <2>4. /\ job' \in Jobs /\ \A v \in Worker : JobOK(v)'
          /\ job'[w] = r /\ \A v \in Worker \ {w} : job'[v] = job[v]
        BY <2>1, <2>3, StepOf
    <2>5. job[w].id \notin Sid /\ job[w].mu = NoMutex
        BY <2>1, RoamingAssumption DEF NoJob
    <2>6. \A j \in Sid : Referred(j)'
        BY <2>1, <2>4, <2>5, KeepsReferred
    <2>7. \A v \in Worker : job'[v].mu = job[v].mu
        BY <2>3, <2>4, <2>5
    <2>8. held' \subseteq {job'[v].mu : v \in Worker} \ {NoMutex}
        <3>1. {job'[v].mu : v \in Worker} = {job[v].mu : v \in Worker}
            BY <2>7
        <3>2. QED
            BY <2>1, <3>1 DEF MigrationOK
    <2>9. QED
        BY <2>1, <2>4, <2>6, <2>8 DEF MigrationOK
<1>4. ASSUME NEW w \in Worker, Refresh(w)
      PROVE  MigrationOK'
    BY <1>4, SameLocks DEF Refresh
<1>5. ASSUME NEW w \in Worker, LoadOrStore(w)
      PROVE  MigrationOK'
    <2> DEFINE i == job[w].id
               fresh == Mutex \ (Range(registry) \cup {job[v].mu : v \in Worker})
               u == IF registry[i] # NoMutex THEN registry[i] ELSE CHOOSE v \in fresh : TRUE
               r == [job[w] EXCEPT !.pc = "lock", !.mu = u]
    <2>1. /\ job[w].pc = "load" /\ held' = held
          /\ registry' = [registry EXCEPT ![i] = u]
          /\ job' = [job EXCEPT ![w].pc = "lock", ![w].mu = u]
        BY <1>5 DEF LoadOrStore
    <2>2. job[w] \in Job /\ JobOK(w) /\ registry \in [Sid -> Mutex \cup {NoMutex}]
        BY DEF MigrationOK, Jobs
    <2>3. i \in Sid /\ job[w].new \in Mac /\ job[w].old \in Mac /\ job[w].mu = NoMutex
        BY <2>1, <2>2 DEF JobOK
    <2>4. fresh # {}
        BY FreshMutex
    <2>5. u \in Mutex
        <3>1. (CHOOSE v \in fresh : TRUE) \in Mutex
            BY <2>4
        <3> HIDE DEF fresh
        <3>2. QED
            BY <2>2, <2>3, <3>1
    <2> HIDE DEF u
    <2>6. job' = [job EXCEPT ![w] = r]
        BY <2>1, <2>2 DEF MigrationOK, Jobs
    <2>7. r \in Job /\ r.pc = "lock" /\ r.id = i /\ r.mu = u /\ r.new = job[w].new /\ r.old = job[w].old
        BY <2>2, <2>5 DEF Job
    <2> HIDE DEF r, i
    <2>8. /\ job' \in Jobs /\ \A v \in Worker : JobOK(v)'
          /\ job'[w] = r /\ \A v \in Worker \ {w} : job'[v] = job[v]
        BY <2>3, <2>5, <2>6, <2>7, StepOf
    <2>9. registry' \in [Sid -> Mutex \cup {NoMutex}]
        BY <2>1, <2>2, <2>5
    <2>10. ASSUME NEW j \in Sid, registry'[j] # NoMutex
           PROVE  \E v \in Worker : job'[v].id = j /\ (job'[v].mu = registry'[j] \/ job'[v].pc = "forget")
        <3>1. CASE j = i
            <4>1. registry'[j] = u
                BY <2>1, <2>2, <3>1
            <4>2. QED
                BY <2>7, <2>8, <3>1, <4>1
        <3>2. CASE j # i
            <4>1. registry'[j] = registry[j]
                BY <2>1, <2>2, <3>2
            <4>2. PICK v \in Worker : job[v].id = j /\ (job[v].mu = registry[j] \/ job[v].pc = "forget")
                BY <2>10, <4>1 DEF MigrationOK, Referred
            <4>3. v # w
                BY <3>2, <4>2 DEF i
            <4>4. QED
                BY <2>8, <4>1, <4>2, <4>3
        <3>3. QED
            BY <3>1, <3>2
    <2>11. \A j \in Sid : Referred(j)'
        BY <2>10 DEF Referred
    <2>12. held' \subseteq {job'[v].mu : v \in Worker} \ {NoMutex}
        <3> SUFFICES ASSUME NEW h \in held
                     PROVE  h # NoMutex /\ \E v \in Worker : h = job'[v].mu
            BY <2>1
        <3>1. PICK v \in Worker : h = job[v].mu /\ h # NoMutex
            BY DEF MigrationOK
        <3>2. v # w
            BY <2>3, <3>1
        <3>3. QED
            BY <2>8, <3>1, <3>2
    <2>13. QED
        BY <2>8, <2>9, <2>11, <2>12 DEF MigrationOK
<1>6. ASSUME NEW w \in Worker, Lock(w)
      PROVE  MigrationOK'
    BY <1>6, Goes DEF Lock
<1>7. ASSUME NEW w \in Worker, ReadRow(w)
      PROVE  MigrationOK'
    <2>1. PICK pc \in {"move", "unlock"} : Going(w, pc)
        BY <1>7 DEF ReadRow
    <2>2. QED
        BY <1>7, <2>1, Goes DEF ReadRow
<1>8. ASSUME NEW w \in Worker, Migrate(w) \/ MigrateFails(w)
      PROVE  MigrationOK'
    BY <1>8, Goes DEF Migrate, MigrateFails
<1>9. ASSUME NEW w \in Worker, Unlock(w)
      PROVE  MigrationOK'
    <2> DEFINE r == [job[w] EXCEPT !.pc = "forget", !.mu = NoMutex]
    <2>1. /\ job[w].pc = "unlock" /\ held' = held \ {job[w].mu} /\ registry' = registry
          /\ job' = [job EXCEPT ![w].pc = "forget", ![w].mu = NoMutex]
        BY <1>9 DEF Unlock
    <2>2. job[w] \in Job /\ JobOK(w)
        BY DEF MigrationOK, Jobs
    <2>3. job' = [job EXCEPT ![w] = r]
        BY <2>1, <2>2 DEF MigrationOK, Jobs
    <2>4. r \in Job /\ r.pc = "forget" /\ r.id = job[w].id /\ r.new = job[w].new /\ r.old = job[w].old
          /\ r.mu = NoMutex
        BY <2>2 DEF Job
    <2>5. job[w].id \in Sid /\ job[w].new \in Mac /\ job[w].old \in Mac
        BY <2>1, <2>2 DEF JobOK
    <2> HIDE DEF r
    <2>6. /\ job' \in Jobs /\ \A v \in Worker : JobOK(v)'
          /\ job'[w] = r /\ \A v \in Worker \ {w} : job'[v] = job[v]
        BY <2>3, <2>4, <2>5, StepOf
    <2>7. \A j \in Sid : Referred(j)'
        BY <2>1, <2>4, <2>6, KeepsReferred
    <2>8. held' \subseteq {job'[v].mu : v \in Worker} \ {NoMutex}
        <3> SUFFICES ASSUME NEW h \in held, h # job[w].mu
                     PROVE  h # NoMutex /\ \E v \in Worker : h = job'[v].mu
            BY <2>1
        <3>1. PICK v \in Worker : h = job[v].mu /\ h # NoMutex
            BY DEF MigrationOK
        <3>2. v # w
            BY <3>1
        <3>3. QED
            BY <2>6, <3>1, <3>2
    <2>9. QED
        BY <2>1, <2>6, <2>7, <2>8 DEF MigrationOK
<1>10. ASSUME NEW w \in Worker, Forget(w)
       PROVE  MigrationOK'
    <2> DEFINE i == job[w].id
    <2>1. /\ job[w].pc = "forget" /\ held' = held
          /\ registry' = [registry EXCEPT ![i] = NoMutex]
          /\ job' = [job EXCEPT ![w] = NoJob]
        BY <1>10 DEF Forget
    <2>2. JobOK(w) /\ registry \in [Sid -> Mutex \cup {NoMutex}]
        BY DEF MigrationOK
    <2>3. NoJob \in Job /\ NoJob.pc = "idle" /\ NoJob.mu = NoMutex
        BY DEF NoJob, Job
    <2>4. i \in Sid /\ job[w].mu = NoMutex
        BY <2>1, <2>2 DEF JobOK
    <2>5. /\ job' \in Jobs /\ \A v \in Worker : JobOK(v)'
          /\ job'[w] = NoJob /\ \A v \in Worker \ {w} : job'[v] = job[v]
        BY <2>1, <2>3, StepOf
    <2>6. registry' \in [Sid -> Mutex \cup {NoMutex}]
        BY <2>1, <2>2
    <2>7. ASSUME NEW j \in Sid, registry'[j] # NoMutex
          PROVE  \E v \in Worker : job'[v].id = j /\ (job'[v].mu = registry'[j] \/ job'[v].pc = "forget")
        <3>1. j # i /\ registry'[j] = registry[j]
            BY <2>1, <2>2, <2>7
        <3>2. PICK v \in Worker : job[v].id = j /\ (job[v].mu = registry[j] \/ job[v].pc = "forget")
            BY <2>7, <3>1 DEF MigrationOK, Referred
        <3>3. v # w
            BY <3>1, <3>2
        <3>4. QED
            BY <2>5, <3>1, <3>2, <3>3
    <2>8. \A j \in Sid : Referred(j)'
        BY <2>7 DEF Referred
    <2>9. held' \subseteq {job'[v].mu : v \in Worker} \ {NoMutex}
        <3>1. \A v \in Worker : job'[v].mu = job[v].mu
            BY <2>3, <2>4, <2>5
        <3>2. {job'[v].mu : v \in Worker} = {job[v].mu : v \in Worker}
            BY <3>1
        <3>3. QED
            BY <2>1, <3>2 DEF MigrationOK
    <2>10. QED
        BY <2>5, <2>6, <2>8, <2>9 DEF MigrationOK
<1>11. ASSUME NEW p \in Phone, Roam(p) \/ PollByMac(p)
       PROVE  MigrationOK'
    BY <1>11, SameLocks DEF Roam, PollByMac
<1>12. ASSUME NEW i \in Sid, TimeUp(i)
       PROVE  MigrationOK'
    BY <1>12, SameLocks DEF TimeUp
<1>13. CASE Expiry
    BY <1>13, SameLocks DEF Expiry, ExpireOverdueSessions
<1>14. ASSUME NEW q \in Process, ScriptStep(q)
       PROVE  MigrationOK'
    BY <1>14, SameLocks DEF ScriptStep
<1>15. CASE WatchPass
    BY <1>15, SameLocks DEF WatchPass
<1>16. CASE IspChange /\ UNCHANGED <<rows, at, job, locks, api, hurt, bounds>>
    BY <1>16, SameLocks
<1>17. CASE Crash \/ PowerCut
    <2>1. job' = [w \in Worker |-> NoJob] /\ registry' = [i \in Sid |-> NoMutex] /\ held' = {}
        BY <1>17 DEF Crash, PowerCut, Cut
    <2>2. NoJob \in Job /\ NoJob.pc = "idle" /\ NoJob.mu = NoMutex
        BY DEF NoJob, Job
    <2>3. job' \in Jobs /\ \A v \in Worker : JobOK(v)'
        BY <2>1, <2>2 DEF Jobs, JobOK
    <2>4. QED
        BY <2>1, <2>3 DEF MigrationOK, Referred
<1>18. CASE Recover
    BY <1>18, SameLocks DEF Recover
<1>19. CASE Serve
    BY <1>19, SameLocks DEF Serve
<1>20. QED
    BY <1>1, <1>2, <1>3, <1>4, <1>5, <1>6, <1>7, <1>8, <1>9, <1>10, <1>11, <1>12, <1>13, <1>14, <1>15,
       <1>16, <1>17, <1>18, <1>19
    DEF Next, Migration

-----------------------------------------------------------------------------
\* Types: the box in use, and the theorem

\* The rows are well formed at first.
LEMMA InitRows ==
    ASSUME Init
    PROVE  RowsOK
<1>1. at \in [Phone -> Mac]
    BY RoamingAssumption DEF Init
<1>2. PICK status \in [Mac -> {"none", "running", "ended"}] : row = RowsOf(status)
    BY DEF Init
<1> DEFINE owned == {m \in Mac : status[m] # "none"}
           id == CHOOSE f \in [owned -> Sid] : IsInjective(f)
           r(i) == IF \E m \in owned : id[m] = i
                   THEN LET m == CHOOSE n \in owned : id[n] = i IN [mac |-> m, status |-> status[m]]
                   ELSE [mac |-> NoMac, status |-> "none"]
<1>3. row = [i \in Sid |-> r(i)]
    BY <1>2 DEF RowsOf
<1> HIDE DEF id
<1>4. ASSUME NEW i \in Sid
      PROVE  r(i) \in RowType /\ (r(i).status \in {"running", "due"} => r(i).mac \in Mac)
    <2>1. CASE \E m \in owned : id[m] = i
        <3> DEFINE m == CHOOSE n \in owned : id[n] = i
        <3>1. m \in owned
            BY <2>1
        <3>2. r(i) = [mac |-> m, status |-> status[m]]
            BY <2>1
        <3> HIDE DEF m
        <3>3. QED
            BY <3>1, <3>2 DEF RowType, Statuses
    <2>2. CASE ~\E m \in owned : id[m] = i
        BY <2>2 DEF RowType, Statuses
    <2>3. QED
        BY <2>1, <2>2
<1> HIDE DEF r
<1>5. row \in Rows /\ \A i \in Sid : RowOK(i)
    BY <1>3, <1>4 DEF Rows, RowType, Statuses, RowOK
<1>6. ASSUME NEW p \in Phone
      PROVE  token[p] \in Sid \cup {NoSid}
    <2>1. token[p] = IF at[p] \in Running THEN CHOOSE i \in Sid : row[i].mac = at[p] ELSE NoSid
        BY DEF Init
    <2>2. at[p] \in Running => \E i \in Sid : row[i].mac = at[p]
        BY DEF Running
    <2>3. QED
        BY <2>1, <2>2
<1>7. token \in [Phone -> Sid \cup {NoSid}]
    BY <1>6 DEF Init
<1>8. QED
    BY <1>1, <1>5, <1>7 DEF RowsOK

\* The types hold at first.
LEMMA InitTypes ==
    ASSUME Init
    PROVE  TypeInv
<1>1. RowsOK
    BY InitRows
<1>2. Running \subseteq Mac
    BY <1>1, ActiveMacs
<1>3. RulesOK
    <2>1. fwd \subseteq Mac /\ tracked \subseteq Mac /\ rebuilt \subseteq Mac
        BY <1>2 DEF Init
    <2>2. <<>> \in Seq(Rule) /\ <<"old", "return">> \in Seq(Rule)
        BY DEF Rule
    <2>3. nat \in [Mac -> Seq(Rule)]
        BY <2>2 DEF Init
    <2>4. todo \in [Process -> Seq(Command)]
        BY DEF Init
    <2>5. QED
        BY <2>1, <2>3, <2>4 DEF RulesOK
<1>4. WatchOK
    BY CaptiveAssumption DEF Init, WatchOK
<1>5. MigrationOK
    <2>1. NoJob \in Job /\ NoJob.pc = "idle" /\ NoJob.mu = NoMutex
        BY DEF NoJob, Job
    <2>2. job = [w \in Worker |-> NoJob] /\ registry = [i \in Sid |-> NoMutex] /\ held = {}
        BY DEF Init
    <2>3. QED
        BY <2>1, <2>2 DEF MigrationOK, Jobs, JobOK, Referred
<1>6. RestOK
    BY RoamingAssumption DEF Init, RestOK
<1>7. QED
    BY <1>1, <1>3, <1>4, <1>5, <1>6 DEF TypeInv

\* Every step keeps the types.
LEMMA TypesKept ==
    ASSUME TypeInv, [Next]_vars
    PROVE  TypeInv'
<1>1. RulesOK' /\ WatchOK' /\ RowsOK' /\ MigrationOK' /\ RestOK'
    BY RulesKept, WatchKept, RowsKept, MigrationKept, RestKept
<1>2. QED
    BY <1>1 DEF TypeInv

\* The types hold in every reachable state.
LEMMA TypesHold == Spec => []TypeInv
<1>1. Init => TypeInv
    BY InitTypes
<1>2. TypeInv /\ [Next]_vars => TypeInv'
    BY TypesKept
<1>3. QED
    BY <1>1, <1>2, PTL DEF Spec

\* The variables keep their types, and no session mutex is left locked by a migration
\* that is over (session.go, migrateSessionMAC and its deferred unlock).
THEOREM TypeCorrect == Spec => []TypeOK
<1>1. TypeInv => TypeOK
    BY DEF TypeInv, RulesOK, WatchOK, RowsOK, MigrationOK, RestOK, TypeOK, CaptiveTypeOK, Rows, Jobs
<1>2. QED
    BY <1>1, TypesHold, PTL

-----------------------------------------------------------------------------
\* Whose session ends

NobodyOut == \A i \in Sid : Lasting(i) => row'[i].status # "ended" /\ row'[i].mac # NoMac

\* A row that stays what it is belongs to an address, if its session runs.
LEMMA StaysIn ==
    ASSUME RowsOK, NEW i \in Sid, Lasting(i), row'[i] = row[i]
    PROVE  row'[i].status # "ended" /\ row'[i].mac # NoMac
    BY RoamingAssumption DEF RowsOK, RowOK, Lasting

\* A step that leaves the rows alone ends nobody.
LEMMA SameRows ==
    ASSUME RowsOK, row' = row
    PROVE  NobodyOut
    BY StaysIn DEF NobodyOut

\* An expiry ends only what is due.
LEMMA ExpiryEndsDue ==
    ASSUME RowsOK, row' = ExpiredRows
    PROVE  NobodyOut
<1> SUFFICES ASSUME NEW i \in Sid, Lasting(i)
             PROVE  row'[i] = row[i]
    BY StaysIn DEF NobodyOut
<1>1. i \notin Due
    BY DEF Lasting, Due
<1>2. QED
    BY <1>1 DEF ExpiredRows

\* No step ends a session that runs, or takes its address away.
LEMMA NobodyOutByStep ==
    ASSUME TypeInv, [Next]_vars
    PROVE  NobodyOut
<1> USE DEF TypeInv, rows
<1>1. CASE UNCHANGED vars
    BY <1>1, SameRows DEF vars
<1>2. ASSUME NEW w \in Worker, NEW p \in Phone, PayOwnRow(w, p) \/ PayNewRow(w, p)
      PROVE  NobodyOut
    <2>1. PICK i \in Sid : row' = [row EXCEPT ![i] = [mac |-> at[p], status |-> "running"]]
        BY <1>2 DEF PayOwnRow, PayNewRow, OwnerOf, Paid
    <2>2. at[p] \in Mac /\ row \in Rows
        BY DEF RowsOK
    <2>3. row'[i].status # "ended" /\ row'[i].mac # NoMac
        BY <2>1, <2>2, RoamingAssumption DEF Rows
    <2>4. \A j \in Sid \ {i} : row'[j] = row[j]
        BY <2>1, <2>2 DEF Rows
    <2>5. QED
        BY <2>3, <2>4, StaysIn DEF NobodyOut
<1>3. ASSUME NEW w \in Worker, NEW p \in Phone, PayRefused(w, p) \/ Poll(w, p)
      PROVE  NobodyOut
    BY <1>3, SameRows DEF PayRefused, Poll
<1>4. ASSUME NEW w \in Worker, Refresh(w)
      PROVE  NobodyOut
    BY <1>4, SameRows DEF Refresh
<1>5. ASSUME NEW w \in Worker, Migrate(w)
      PROVE  NobodyOut
    <2> DEFINE i == job[w].id
               new == job[w].new
    <2>1. /\ MayMoveTo(new, i)
          /\ row' = [j \in Sid |-> IF j = i THEN [row[i] EXCEPT !.mac = new]
                                   ELSE IF row[j].mac = new THEN [mac |-> NoMac, status |-> "ended"]
                                   ELSE row[j]]
        BY <1>5 DEF Migrate
    <2>2. i \in Sid /\ new \in Mac /\ new # NoMac
        BY <1>5, RoamingAssumption DEF Migrate, MigrationOK, JobOK
    <2> HIDE DEF i, new
    <2>3. \A j \in Sid \ {i} : row[j].mac # new
        BY <2>1 DEF MayMoveTo, OwnerOf
    <2>4. \A j \in Sid \ {i} : row'[j] = row[j]
        BY <2>1, <2>3
    <2>5. row'[i].mac = new /\ row'[i].status = row[i].status
        <3>1. row'[i] = [row[i] EXCEPT !.mac = new]
            BY <2>1, <2>2
        <3>2. row[i] \in [mac: Mac \cup {NoMac}, status: {"none", "running", "due", "ended"}]
            BY <2>2 DEF RowsOK, Rows
        <3>3. QED
            BY <3>1, <3>2
    <2>6. QED
        BY <2>2, <2>4, <2>5, StaysIn DEF NobodyOut, Lasting
<1>6. ASSUME NEW w \in Worker, \/ LoadOrStore(w) \/ Lock(w) \/ ReadRow(w) \/ MigrateFails(w)
                               \/ Unlock(w) \/ Forget(w)
      PROVE  NobodyOut
    BY <1>6, SameRows DEF LoadOrStore, Lock, ReadRow, MigrateFails, Unlock, Forget
<1>7. ASSUME NEW p \in Phone, Roam(p) \/ PollByMac(p)
      PROVE  NobodyOut
    BY <1>7, SameRows DEF Roam, PollByMac
<1>8. ASSUME NEW i \in Sid, TimeUp(i)
      PROVE  NobodyOut
    <2>1. row' = [row EXCEPT ![i].status = "due"] /\ row[i].status = "running" /\ row \in Rows /\ RowOK(i)
        BY <1>8 DEF TimeUp, RowsOK
    <2>2. row'[i].status = "due" /\ row'[i].mac = row[i].mac /\ row[i].mac # NoMac
        BY <2>1, RoamingAssumption DEF Rows, RowOK
    <2>3. \A j \in Sid \ {i} : row'[j] = row[j]
        BY <2>1 DEF Rows
    <2>4. QED
        BY <2>2, <2>3, StaysIn DEF NobodyOut
<1>9. CASE Expiry
    BY <1>9, ExpiryEndsDue DEF Expiry, ExpireOverdueSessions
<1>10. ASSUME NEW q \in Process, ScriptStep(q)
       PROVE  NobodyOut
    BY <1>10, SameRows DEF ScriptStep
<1>11. CASE WatchPass
    BY <1>11, SameRows DEF WatchPass
<1>12. CASE IspChange /\ UNCHANGED <<rows, at, job, locks, api, hurt, bounds>>
    BY <1>12, SameRows
<1>13. CASE Crash \/ PowerCut
    BY <1>13, SameRows DEF Crash, PowerCut, Cut
<1>14. CASE Recover
    BY <1>14, ExpiryEndsDue DEF Recover
<1>15. CASE Serve
    BY <1>15, SameRows DEF Serve
<1>16. QED
    BY <1>1, <1>2, <1>3, <1>4, <1>5, <1>6, <1>7, <1>8, <1>9, <1>10, <1>11, <1>12, <1>13, <1>14, <1>15
    DEF Next, Migration

\* Roaming ends nobody's session: a migration to an address that has a row of its own,
\* whatever its status, changes nothing, and a running session ends only after its
\* time is up (session.go, migrateSessionMAC and ExpireOverdueSessions).
THEOREM RoamingEndsNobody == Spec => NobodyPushedOut
<1>1. TypeInv /\ [Next]_vars => [NobodyOut]_vars
    BY NobodyOutByStep
<1>2. Spec => [][NobodyOut]_vars
    BY <1>1, TypesHold, PTL DEF Spec
<1>3. QED
    BY <1>2 DEF NobodyPushedOut, NobodyOut

-----------------------------------------------------------------------------
\* Rules that point at the old server

\* Steps that run no command and hand out no script.
LEMMA OldStays ==
    ASSUME OldInv, UNCHANGED <<nat, tracked, todo, last, news>>
    PROVE  OldInv'
    BY DEF OldInv, NoOld, ClosedBefore, Wipes

\* A handler or the enforcer hands out a script.
LEMMA OldScript ==
    ASSUME OldInv, RulesOK, NEW q \in Process \ {Watcher}, NEW s, ClosesFirst(s),
           todo' = [todo EXCEPT ![q] = s], UNCHANGED <<nat, tracked, last, news>>
    PROVE  OldInv'
<1>1. \A m \in Mac : NoOld(m)' = NoOld(m)
    BY DEF NoOld
<1>2. todo'[q] = s /\ \A p \in Process \ {q} : todo'[p] = todo[p]
    BY DEF RulesOK
<1>3. ASSUME NEW p \in Process
      PROVE  ClosedBefore(p)'
    <2>1. CASE p = q
        BY <1>2, <2>1 DEF ClosedBefore, ClosesFirst
    <2>2. CASE p # q
        <3>1. todo'[p] = todo[p] /\ nat' = nat /\ ClosedBefore(p)
            BY <1>2, <2>2 DEF OldInv
        <3>2. QED
            BY <3>1 DEF ClosedBefore, NoOld
    <2>3. QED
        BY <2>1, <2>2
<1>4. todo'[Watcher] = todo[Watcher]
    BY <1>2, Processes
<1>5. QED
    BY <1>1, <1>3, <1>4 DEF OldInv, Wipes

\* What one command does to rules at the old server, and to the list.
LEMMA OldByCommand ==
    ASSUME RulesOK, NEW q \in Process, Run(q)
    PROVE  /\ \A m \in Mac : NoOld(m) \/ Wipes(Head(todo[q]), m) => NoOld(m)'
           /\ \A m \in tracked : m \in tracked' \/ Head(todo[q]) = [do |-> "untrack", mac |-> m]
<1> DEFINE s == Head(todo[q])
<1>1. todo[q] \in Seq(Command) /\ todo[q] # <<>>
    BY DEF RulesOK, Run
<1>2. s \in Command
    BY <1>1, HeadOf
<1>3. remove_auth_rules(s) \/ insert_rule(s) \/ save_auth_mac(s) \/ remove_auth_mac(s)
    BY DEF Run
<1> HIDE DEF s
<1>4. s.mac \in Mac /\ s.do # "old" /\ s = [do |-> s.do, mac |-> s.mac]
    BY <1>2 DEF Command
<1>5. CASE remove_auth_rules(s)
    <2>1. nat' = [nat EXCEPT ![s.mac] = <<>>] /\ tracked' = tracked
        BY <1>5 DEF remove_auth_rules
    <2>2. ASSUME NEW m \in Mac, NoOld(m) \/ Wipes(s, m)
          PROVE  NoOld(m)'
        <3>1. CASE m = s.mac
            <4>1. nat'[m] = <<>>
                BY <2>1, <3>1 DEF RulesOK
            <4>2. QED
                BY <4>1 DEF NoOld, ToSet
        <3>2. CASE m # s.mac
            <4>1. nat'[m] = nat[m] /\ NoOld(m)
                BY <2>1, <2>2, <3>2 DEF RulesOK, Wipes
            <4>2. QED
                BY <4>1 DEF NoOld
        <3>3. QED
            BY <3>1, <3>2
    <2>3. QED
        BY <2>1, <2>2 DEF s
<1>6. CASE insert_rule(s)
    <2>1. tracked' = tracked /\ s.do \notin {"clear", "rebuild"}
        BY <1>6 DEF insert_rule, Rule
    <2>2. ASSUME NEW m \in Mac, NoOld(m)
          PROVE  NoOld(m)'
        <3>1. CASE nat'[m] = nat[m]
            BY <2>2, <3>1 DEF NoOld
        <3>2. CASE nat'[m] # nat[m]
            <4>1. nat' = [nat EXCEPT ![s.mac] = IF s.do \in ToSet(@) THEN @ ELSE <<s.do>> \o @]
                  /\ nat[m] \in Seq(Rule)
                BY <1>6, <3>2 DEF insert_rule, RulesOK
            <4>2. nat'[m] = <<s.do>> \o nat[m]
                BY <3>2, <4>1 DEF RulesOK
            <4>3. \A k \in DOMAIN nat[m] : nat[m][k] # "old"
                BY <2>2 DEF NoOld, ToSet
            <4>4. \A k \in DOMAIN (<<s.do>> \o nat[m]) : (<<s.do>> \o nat[m])[k] # "old"
                BY <1>4, <4>1, <4>3
            <4>5. QED
                BY <4>2, <4>4 DEF NoOld, ToSet
        <3>3. QED
            BY <3>1, <3>2
    <2>3. QED
        BY <2>1, <2>2 DEF s, Wipes
<1>7. CASE save_auth_mac(s)
    <2>1. nat' = nat /\ tracked' = tracked \cup {s.mac} /\ s.do = "track"
        BY <1>7 DEF save_auth_mac
    <2>2. QED
        BY <2>1 DEF NoOld, Wipes, s
<1>8. CASE remove_auth_mac(s)
    <2>1. nat' = nat /\ tracked' = tracked \ {s.mac} /\ s.do = "untrack"
        BY <1>8 DEF remove_auth_mac
    <2>2. \A m \in tracked : m \in tracked' \/ s = [do |-> "untrack", mac |-> m]
        BY <1>4, <2>1
    <2>3. QED
        BY <2>1, <2>2 DEF NoOld, Wipes, s
<1>9. QED
    BY <1>3, <1>5, <1>6, <1>7, <1>8

\* A command that runs keeps what is known of rules of old addresses.
LEMMA OldByRun ==
    ASSUME RulesOK, OldInv, NEW q \in Process, Run(q)
    PROVE  OldInv'
<1> DEFINE s == todo[q]
<1>1. s \in Seq(Command) /\ s # <<>>
    BY DEF RulesOK, Run
<1>2. /\ Head(s) = s[1] /\ 1 \in DOMAIN s /\ Head(s) \in Command
      /\ \A k \in DOMAIN Tail(s) : k + 1 \in DOMAIN s /\ Tail(s)[k] = s[k + 1]
      /\ \A k \in DOMAIN s : k # 1 => k - 1 \in DOMAIN Tail(s) /\ Tail(s)[k - 1] = s[k]
      /\ DOMAIN s \subseteq Nat \ {0} /\ DOMAIN Tail(s) \subseteq Nat \ {0}
    <2>1. Tail(s) \in Seq(Command)
        BY <1>1, HeadOf
    <2>2. DOMAIN s \subseteq Nat \ {0}
        BY <1>1
    <2>3. DOMAIN Tail(s) \subseteq Nat \ {0}
        BY <2>1
    <2>4. QED
        BY <1>1, <2>2, <2>3, HeadOf
<1>3. todo' = [todo EXCEPT ![q] = Tail(s)] /\ UNCHANGED <<isp, last, news>>
    BY DEF Run, watch
<1>4. todo'[q] = Tail(s) /\ \A p \in Process \ {q} : todo'[p] = todo[p]
    BY <1>3 DEF RulesOK
<1>5. /\ \A m \in Mac : NoOld(m) \/ Wipes(s[1], m) => NoOld(m)'
      /\ \A m \in tracked : m \in tracked' \/ s[1] = [do |-> "untrack", mac |-> m]
    BY <1>2, OldByCommand
<1>6. /\ ClosedBefore(q) /\ \A p \in Process : ClosedBefore(p)
      /\ \A m \in Mac : NoOld(m) \/ m \in tracked
    BY DEF OldInv
<1>7. \A p \in Process : \A k \in DOMAIN todo[p] : todo[p][k].mac \in Mac
    <2> TAKE p \in Process
    <2>1. todo[p] \in Seq(Command)
        BY DEF RulesOK
    <2>2. \A k \in DOMAIN todo[p] : todo[p][k] \in Command
        BY <2>1
    <2>3. QED
        BY <2>2 DEF Command
<1>8. ASSUME NEW m \in Mac
      PROVE  NoOld(m)' \/ m \in tracked'
    <2>1. CASE NoOld(m)
        BY <1>5, <2>1
    <2>2. CASE m \in tracked /\ s[1] = [do |-> "untrack", mac |-> m]
        <3>1. NoOld(m)
            <4>1. s[1].do = "untrack" /\ s[1].mac = m
                BY <2>2
            <4>2. NoOld(m) \/ \E j \in 1 .. (1 - 1) : s[j] = [do |-> "clear", mac |-> m]
                BY <1>2, <1>6, <4>1 DEF ClosedBefore
            <4>3. 1 .. (1 - 1) = {}
                OBVIOUS
            <4>4. QED
                BY <4>2, <4>3
        <3>2. QED
            BY <1>5, <3>1
    <2>3. QED
        BY <1>5, <1>6, <2>1, <2>2
<1>9. ASSUME NEW p \in Process
      PROVE  ClosedBefore(p)'
    <2>1. CASE p # q
        <3>1. todo'[p] = todo[p] /\ ClosedBefore(p)
            BY <1>4, <1>6, <2>1
        <3>2. \A k \in DOMAIN todo'[p] : NoOld(todo'[p][k].mac) => "old" \notin ToSet(nat'[todo'[p][k].mac])
            <4> TAKE k \in DOMAIN todo'[p]
            <4>1. todo'[p][k].mac \in Mac
                BY <1>7, <3>1
            <4>2. QED
                BY <1>5, <4>1 DEF NoOld
        <3>3. QED
            BY <3>1, <3>2 DEF ClosedBefore, NoOld
    <2>2. CASE p = q
        <3> DEFINE t == Tail(s)
        <3> SUFFICES ASSUME NEW k \in DOMAIN t, t[k].do = "untrack"
                     PROVE  \/ "old" \notin ToSet(nat'[t[k].mac])
                            \/ \E j \in 1 .. (k - 1) : t[j] = [do |-> "clear", mac |-> t[k].mac]
            BY <1>4, <2>2 DEF ClosedBefore, NoOld
        <3>1. t[k] = s[k + 1] /\ k + 1 \in DOMAIN s /\ k \in Nat
            BY <1>2
        <3>2. t[k].mac \in Mac
            BY <1>7, <3>1
        <3>3. CASE NoOld(t[k].mac)
            BY <1>5, <3>2, <3>3 DEF NoOld
        <3>4. CASE ~NoOld(t[k].mac)
            <4>1. PICK j \in 1 .. ((k + 1) - 1) : s[j] = [do |-> "clear", mac |-> t[k].mac]
                BY <1>6, <3>1, <3>4 DEF ClosedBefore
            <4>2. CASE j = 1
                <5>1. Wipes(s[1], t[k].mac)
                    BY <4>1, <4>2 DEF Wipes
                <5>2. QED
                    BY <1>5, <3>2, <5>1 DEF NoOld
            <4>3. CASE j # 1
                <5>1. j \in DOMAIN s
                    BY <1>1, <3>1, <4>1
                <5>2. t[j - 1] = s[j] /\ j - 1 \in 1 .. (k - 1)
                    BY <1>2, <3>1, <4>1, <4>3, <5>1
                <5>3. QED
                    BY <4>1, <5>2
            <4>4. QED
                BY <4>2, <4>3
        <3>5. QED
            BY <3>3, <3>4
    <2>3. QED
        BY <2>1, <2>2
<1>10. ASSUME news # NoDns, NEW m \in Mac
       PROVE  NoOld(m)' \/ \E k \in DOMAIN todo'[Watcher] : Wipes(todo'[Watcher][k], m)
    <2>1. NoOld(m) \/ \E k \in DOMAIN todo[Watcher] : Wipes(todo[Watcher][k], m)
        BY <1>10 DEF OldInv
    <2>2. CASE NoOld(m)
        BY <1>5, <2>2
    <2>3. CASE ~NoOld(m)
        <3>1. PICK k \in DOMAIN todo[Watcher] : Wipes(todo[Watcher][k], m)
            BY <2>1, <2>3
        <3>2. CASE q # Watcher
            <4>1. todo'[Watcher] = todo[Watcher]
                BY <1>4, <3>2, Processes
            <4>2. QED
                BY <3>1, <4>1
        <3>3. CASE q = Watcher
            <4>1. CASE k = 1
                BY <1>5, <3>1, <3>3, <4>1
            <4>2. CASE k # 1
                <5>1. k \in DOMAIN s /\ Wipes(s[k], m)
                    BY <3>1, <3>3
                <5>2. k - 1 \in DOMAIN Tail(s) /\ Tail(s)[k - 1] = s[k]
                    BY <1>2, <4>2, <5>1
                <5>3. Wipes(Tail(s)[k - 1], m)
                    BY <5>1, <5>2
                <5>4. todo'[Watcher] = Tail(s)
                    BY <1>4, <3>3
                <5> HIDE DEF s
                <5>5. QED
                    BY <5>2, <5>3, <5>4
            <4>3. QED
                BY <4>1, <4>2
        <3>4. QED
            BY <3>2, <3>3
    <2>4. QED
        BY <2>2, <2>3
<1>11. last \in Dns \ {OldDns} => \A m \in Mac : NoOld(m)'
    BY <1>5 DEF OldInv
<1>12. QED
    BY <1>3, <1>8, <1>9, <1>10, <1>11 DEF OldInv, Wipes

\* Every step keeps what is known of rules of old addresses.
LEMMA OldKept ==
    ASSUME TypeInv, OldInv, [Next]_vars
    PROVE  OldInv'
<1> USE DEF TypeInv, captiveVars, chains, watch
<1>1. CASE UNCHANGED vars
    BY <1>1, OldStays DEF vars
<1>2. ASSUME NEW w \in Worker, NEW p \in Phone, PayOwnRow(w, p) \/ PayNewRow(w, p)
      PROVE  OldInv'
    <2>1. todo' = [todo EXCEPT ![w] = cmd_auth({at[p]})] /\ UNCHANGED <<nat, tracked, last, news>>
        BY <1>2 DEF PayOwnRow, PayNewRow, Paid
    <2>2. ClosesFirst(cmd_auth({at[p]})) /\ w \in Process \ {Watcher}
        BY Handed, RoamingAssumption DEF RowsOK, Proper
    <2>3. QED
        BY <2>1, <2>2, OldScript
<1>3. ASSUME NEW w \in Worker, NEW p \in Phone, PayRefused(w, p) \/ Poll(w, p)
      PROVE  OldInv'
    BY <1>3, OldStays DEF PayRefused, Poll
<1>4. ASSUME NEW w \in Worker, Refresh(w)
      PROVE  OldInv'
    <2>1. todo' = [todo EXCEPT ![w] = cmd_refresh] /\ UNCHANGED <<nat, tracked, last, news>>
        BY <1>4 DEF Refresh
    <2>2. ClosesFirst(cmd_refresh) /\ w \in Process \ {Watcher}
        BY RefreshScript, RoamingAssumption DEF RulesOK, ClosesFirst
    <2>3. QED
        BY <2>1, <2>2, OldScript
<1>5. ASSUME NEW w \in Worker, Migrate(w)
      PROVE  OldInv'
    <2>1. /\ todo' = [todo EXCEPT ![w] = cmd_unauth({job[w].old}) \o cmd_auth({job[w].new})]
          /\ UNCHANGED <<nat, tracked, last, news>>
        BY <1>5 DEF Migrate
    <2>2. job[w].old \in Mac /\ job[w].new \in Mac
        BY <1>5 DEF Migrate, MigrationOK, JobOK
    <2>3. ClosesFirst(cmd_unauth({job[w].old}) \o cmd_auth({job[w].new})) /\ w \in Process \ {Watcher}
        BY <2>2, Handed, RoamingAssumption DEF Proper
    <2>4. QED
        BY <2>1, <2>3, OldScript
<1>6. ASSUME NEW w \in Worker, \/ LoadOrStore(w) \/ Lock(w) \/ ReadRow(w) \/ MigrateFails(w)
                               \/ Unlock(w) \/ Forget(w)
      PROVE  OldInv'
    BY <1>6, OldStays DEF LoadOrStore, Lock, ReadRow, MigrateFails, Unlock, Forget
<1>7. ASSUME NEW p \in Phone, Roam(p) \/ PollByMac(p)
      PROVE  OldInv'
    BY <1>7, OldStays DEF Roam, PollByMac
<1>8. ASSUME NEW i \in Sid, TimeUp(i)
      PROVE  OldInv'
    BY <1>8, OldStays DEF TimeUp
<1>9. ASSUME NEW q \in Worker \cup {Enforcer}, ExpireOverdueSessions(q)
      PROVE  OldInv'
    <2>1. todo' = [todo EXCEPT ![q] = CloseDue] /\ UNCHANGED <<nat, tracked, last, news>>
        BY <1>9 DEF ExpireOverdueSessions
    <2>2. ClosesFirst(CloseDue) /\ q \in Process \ {Watcher}
        BY Handed, RoamingAssumption DEF Proper
    <2>3. QED
        BY <2>1, <2>2, OldScript
<1>10. ASSUME NEW q \in Process, ScriptStep(q)
       PROVE  OldInv'
    BY <1>10, OldByRun DEF ScriptStep
<1>11. CASE PassResets \/ PassCounts
    BY <1>11, OldStays DEF PassResets, PassCounts
<1>12. CASE PassRefreshes
    <2>1. /\ todo' = [todo EXCEPT ![Watcher] = cmd_refresh]
          /\ UNCHANGED <<nat, tracked, last>>
        BY <1>12 DEF PassRefreshes
    <2>2. /\ \A k \in DOMAIN cmd_refresh : cmd_refresh[k].do # "untrack"
          /\ \A m \in tracked : \E k \in DOMAIN cmd_refresh : Wipes(cmd_refresh[k], m)
        BY RefreshScript DEF RulesOK, Wipes
    <2>3. todo'[Watcher] = cmd_refresh /\ \A p \in Process \ {Watcher} : todo'[p] = todo[p]
        BY <2>1, Processes DEF RulesOK
    <2>4. \A m \in Mac : NoOld(m)' = NoOld(m)
        BY <2>1 DEF NoOld
    <2>5. ASSUME NEW p \in Process
          PROVE  ClosedBefore(p)'
        <3>1. CASE p = Watcher
            BY <2>2, <2>3, <3>1 DEF ClosedBefore
        <3>2. CASE p # Watcher
            <4>1. todo'[p] = todo[p] /\ nat' = nat /\ ClosedBefore(p)
                BY <2>1, <2>3, <3>2 DEF OldInv
            <4>2. QED
                BY <4>1 DEF ClosedBefore, NoOld
        <3>3. QED
            BY <3>1, <3>2
    <2>6. \A m \in Mac : NoOld(m)' \/ \E k \in DOMAIN todo'[Watcher] : Wipes(todo'[Watcher][k], m)
        BY <2>2, <2>3, <2>4 DEF OldInv
    <2>7. QED
        BY <2>1, <2>4, <2>5, <2>6 DEF OldInv, Wipes
<1>13. CASE PassRecords
    <2>1. /\ UNCHANGED <<nat, tracked, todo>> /\ todo[Watcher] = <<>> /\ news # NoDns
          /\ news' = NoDns /\ last' = news
        BY <1>13 DEF PassRecords, Records, Quiet
    <2>2. \A m \in Mac : NoOld(m)
        BY <2>1 DEF OldInv
    <2>3. (\A m \in Mac : NoOld(m)') /\ \A p \in Process : ClosedBefore(p)'
        BY <2>1, <2>2 DEF OldInv, NoOld, ClosedBefore
    <2>4. QED
        BY <2>1, <2>3 DEF OldInv
<1>14. CASE IspChange
    BY <1>14, OldStays DEF IspChange
<1>15. CASE Crash \/ PowerCut
    <2>1. /\ nat' = nat \/ nat' = [m \in Mac |-> <<>>]
          /\ UNCHANGED <<tracked, last>> /\ todo' = [q \in Process |-> <<>>] /\ news' = NoDns
        BY <1>15 DEF Crash, PowerCut, Cut
    <2>2. ASSUME NEW m \in Mac, NoOld(m)
          PROVE  NoOld(m)'
        <3>1. nat'[m] = nat[m] \/ nat'[m] = <<>>
            BY <2>1
        <3>2. "old" \notin ToSet(<<>>)
            BY DEF ToSet
        <3>3. QED
            BY <2>2, <3>1, <3>2 DEF NoOld
    <2>3. \A p \in Process : ClosedBefore(p)'
        BY <2>1 DEF ClosedBefore
    <2>4. QED
        BY <2>1, <2>2, <2>3 DEF OldInv
<1>16. CASE Recover
    <2>1. todo' = [todo EXCEPT ![Enforcer] = Recovery] /\ UNCHANGED <<nat, tracked, last, news>>
        BY <1>16 DEF Recover
    <2>2. ClosesFirst(Recovery) /\ Enforcer \in Process \ {Watcher}
        BY Handed, RoamingAssumption DEF Proper
    <2>3. QED
        BY <2>1, <2>2, OldScript
<1>17. CASE Serve
    BY <1>17, OldStays DEF Serve
<1>18. QED
    BY <1>1, <1>2, <1>3, <1>4, <1>5, <1>6, <1>7, <1>8, <1>9, <1>10, <1>11, <1>12, <1>13, <1>14, <1>15,
       <1>16, <1>17
    DEF Next, Migration, Expiry, WatchPass

\* There are no old addresses at first.
LEMMA InitOld ==
    ASSUME Init
    PROVE  OldInv
<1>1. ASSUME NEW m \in Mac, m \notin tracked
      PROVE  NoOld(m)
    <2>1. nat[m] = <<>>
        BY <1>1 DEF Init
    <2>2. QED
        BY <2>1 DEF NoOld, ToSet
<1>2. \A q \in Process : ClosedBefore(q)
    BY DEF Init, ClosedBefore
<1>3. news = NoDns /\ last = OldDns
    BY DEF Init
<1>4. QED
    BY <1>1, <1>2, <1>3 DEF OldInv

\* When last_dns names a new upstream, no client has a rule that points at the server
\* of earlier releases, whatever is written and wherever a crash cuts a script: the
\* watcher records its reading only when its refresh has been through the list, and
\* the script closes a client before it takes it off the list
\* (dnswatch.go, dnsWatchPass, and cmd_unauth of aircoins-captive-rules).
THEOREM NothingStaleOnceRecorded == Spec => []RecordedMeansRebuilt
<1>1. Init => OldInv
    BY InitOld
<1>2. TypeInv /\ OldInv /\ [Next]_vars => OldInv'
    BY OldKept
<1>3. OldInv => RecordedMeansRebuilt
    BY DEF OldInv, RecordedMeansRebuilt, NoOld
<1>4. QED
    BY <1>1, <1>2, <1>3, TypesHold, PTL DEF Spec

-----------------------------------------------------------------------------
\* Who is let through

\* What a script has still to do to the client of its k-th command after that, and what it
\* has still to do to client m.
After(s, k) == {s[j].do : j \in {l \in DOMAIN s : l > k /\ s[l].mac = s[k].mac}}
Ahead(s, m) == {s[j].do : j \in {l \in DOMAIN s : s[l].mac = m}}

\* The commands that open a client, close it and refresh it, from each stage on.
Open1 == {"track"}
Open2 == {"accept", "track"}
Open3 == {"redirect", "accept", "track"}
Open4 == {"return", "redirect", "accept", "track"}
Open5 == {"clear", "return", "redirect", "accept", "track"}
Close1 == {"untrack"}
Close2 == {"clear", "untrack"}
Fresh1 == {"accept"}
Fresh2 == {"redirect", "accept"}
Fresh3 == {"rebuild", "redirect", "accept"}
Followed == {<<"clear", Open4>>, <<"return", Open3>>, <<"redirect", Open2>>, <<"accept", Open1>>,
             <<"track", {}>>, <<"clear", Close1>>, <<"untrack", {}>>,
             <<"rebuild", Fresh2>>, <<"redirect", Fresh1>>, <<"accept", {}>>}
\* Each command of a script is followed by the rest of its kind for the same client.
Ordered(s) == \A k \in DOMAIN s : <<s[k].do, After(s, k)>> \in Followed

\* What a script still does once it has run its next command.
LEMMA AheadTail ==
    ASSUME NEW s \in Seq(Command), s # <<>>, Ordered(s)
    PROVE  /\ Ordered(Tail(s))
           /\ <<Head(s).do, Ahead(Tail(s), Head(s).mac)>> \in Followed
           /\ Ahead(s, Head(s).mac) = {Head(s).do} \cup Ahead(Tail(s), Head(s).mac)
           /\ \A m \in Mac \ {Head(s).mac} : Ahead(Tail(s), m) = Ahead(s, m)
<1> DEFINE t == Tail(s)
<1>0. /\ Head(s) = s[1] /\ 1 \in DOMAIN s
      /\ \A k \in DOMAIN t : k + 1 \in DOMAIN s /\ t[k] = s[k + 1]
      /\ \A k \in DOMAIN s : k # 1 => k - 1 \in DOMAIN t /\ t[k - 1] = s[k]
    BY HeadOf
<1>d. /\ \A k \in DOMAIN s : k \in Nat /\ k >= 1
      /\ \A k \in DOMAIN t : k \in Nat /\ k >= 1
    OBVIOUS
<1> HIDE DEF t
<1>1. ASSUME NEW k \in DOMAIN t
      PROVE  After(t, k) = After(s, k + 1)
    <2>1. ASSUME NEW d, d \in After(t, k) PROVE d \in After(s, k + 1)
        <3>1. PICK j \in DOMAIN t : j > k /\ t[j].mac = t[k].mac /\ d = t[j].do
            BY <2>1 DEF After
        <3>2. j + 1 \in DOMAIN s /\ j + 1 > k + 1 /\ s[j + 1].mac = s[k + 1].mac /\ d = s[j + 1].do
            BY <1>0, <1>d, <3>1
        <3>3. QED
            BY <3>2 DEF After
    <2>2. ASSUME NEW d, d \in After(s, k + 1) PROVE d \in After(t, k)
        <3>1. PICK j \in DOMAIN s : j > k + 1 /\ s[j].mac = s[k + 1].mac /\ d = s[j].do
            BY <2>2 DEF After
        <3>2. j - 1 \in DOMAIN t /\ j - 1 > k /\ t[j - 1].mac = t[k].mac /\ d = t[j - 1].do
            BY <1>0, <1>d, <3>1
        <3>3. QED
            BY <3>2 DEF After
    <2>3. QED
        BY <2>1, <2>2
<1>2. Ordered(t)
    <2>1. ASSUME NEW k \in DOMAIN t PROVE <<t[k].do, After(t, k)>> \in Followed
        <3>1. k + 1 \in DOMAIN s /\ t[k] = s[k + 1] /\ After(t, k) = After(s, k + 1)
            BY <1>0, <1>1
        <3>2. <<s[k + 1].do, After(s, k + 1)>> \in Followed
            BY <3>1 DEF Ordered
        <3>3. QED
            BY <3>1, <3>2
    <2>2. QED
        BY <2>1 DEF Ordered
<1>3. ASSUME NEW m
      PROVE  Ahead(s, m) = Ahead(t, m) \cup IF m = s[1].mac THEN {s[1].do} ELSE {}
    <2>1. ASSUME NEW d, d \in Ahead(s, m)
          PROVE  d \in Ahead(t, m) \cup IF m = s[1].mac THEN {s[1].do} ELSE {}
        <3>1. PICK j \in DOMAIN s : s[j].mac = m /\ d = s[j].do
            BY <2>1 DEF Ahead
        <3>2. CASE j = 1
            BY <3>1, <3>2
        <3>3. CASE j # 1
            <4>1. j - 1 \in DOMAIN t /\ t[j - 1].mac = m /\ d = t[j - 1].do
                BY <1>0, <3>1, <3>3
            <4>2. QED
                BY <4>1 DEF Ahead
        <3>4. QED
            BY <3>2, <3>3
    <2>2. ASSUME NEW d, d \in Ahead(t, m) PROVE d \in Ahead(s, m)
        <3>1. PICK j \in DOMAIN t : t[j].mac = m /\ d = t[j].do
            BY <2>2 DEF Ahead
        <3>2. j + 1 \in DOMAIN s /\ s[j + 1].mac = m /\ d = s[j + 1].do
            BY <1>0, <3>1
        <3>3. QED
            BY <3>2 DEF Ahead
    <2>3. m = s[1].mac => s[1].do \in Ahead(s, m)
        BY <1>0 DEF Ahead
    <2>4. QED
        BY <2>1, <2>2, <2>3
<1>4. After(s, 1) = Ahead(t, s[1].mac)
    <2>1. ASSUME NEW d, d \in After(s, 1) PROVE d \in Ahead(t, s[1].mac)
        <3>1. PICK j \in DOMAIN s : j > 1 /\ s[j].mac = s[1].mac /\ d = s[j].do
            BY <2>1 DEF After
        <3>2. j - 1 \in DOMAIN t /\ t[j - 1].mac = s[1].mac /\ d = t[j - 1].do
            BY <1>0, <1>d, <3>1
        <3>3. QED
            BY <3>2 DEF Ahead
    <2>2. ASSUME NEW d, d \in Ahead(t, s[1].mac) PROVE d \in After(s, 1)
        <3>1. PICK j \in DOMAIN t : t[j].mac = s[1].mac /\ d = t[j].do
            BY <2>2 DEF Ahead
        <3>2. j + 1 \in DOMAIN s /\ j + 1 > 1 /\ s[j + 1].mac = s[1].mac /\ d = s[j + 1].do
            BY <1>0, <1>d, <3>1
        <3>3. QED
            BY <3>2 DEF After
    <2>3. QED
        BY <2>1, <2>2
<1>5. <<s[1].do, After(s, 1)>> \in Followed
    BY <1>0 DEF Ordered
<1>6. QED
    BY <1>0, <1>2, <1>3, <1>4, <1>5 DEF t

\* One script after another, for other clients.
LEMMA AheadJoined ==
    ASSUME NEW s \in Seq(Command), NEW t \in Seq(Command), Ordered(s), Ordered(t),
           \A m \in Mac : Ahead(s, m) = {} \/ Ahead(t, m) = {}
    PROVE  /\ Ordered(s \o t)
           /\ \A m \in Mac : Ahead(s \o t, m) = Ahead(s, m) \cup Ahead(t, m)
<1> DEFINE u == s \o t
           a == Len(s)
           b == Len(t)
<1>0. /\ a \in Nat /\ b \in Nat /\ DOMAIN s = 1 .. a /\ DOMAIN t = 1 .. b /\ DOMAIN u = 1 .. (a + b)
      /\ \A k \in 1 .. a : u[k] = s[k] /\ s[k].mac \in Mac
      /\ \A k \in 1 .. b : u[a + k] = t[k] /\ t[k].mac \in Mac
    <2>1. /\ a \in Nat /\ b \in Nat /\ DOMAIN s = 1 .. a /\ DOMAIN t = 1 .. b /\ DOMAIN u = 1 .. (a + b)
          /\ \A k \in 1 .. a : u[k] = s[k]
          /\ \A k \in 1 .. b : u[a + k] = t[k]
        OBVIOUS
    <2>2. (\A k \in 1 .. a : s[k] \in Command) /\ \A k \in 1 .. b : t[k] \in Command
        OBVIOUS
    <2>3. \A c \in Command : c.mac \in Mac
        BY DEF Command
    <2>4. QED
        BY <2>1, <2>2, <2>3
<1> HIDE DEF u, a, b
<1>1. \A k \in DOMAIN u : k \in 1 .. a \/ (k - a \in 1 .. b /\ u[k] = t[k - a])
    BY <1>0
<1>2. ASSUME NEW m PROVE Ahead(u, m) = Ahead(s, m) \cup Ahead(t, m)
    <2>1. ASSUME NEW d, d \in Ahead(u, m) PROVE d \in Ahead(s, m) \cup Ahead(t, m)
        <3>1. PICK j \in DOMAIN u : u[j].mac = m /\ d = u[j].do
            BY <2>1 DEF Ahead
        <3>2. QED
            BY <1>0, <1>1, <3>1 DEF Ahead
    <2>2. ASSUME NEW d, d \in Ahead(s, m) PROVE d \in Ahead(u, m)
        <3>1. PICK j \in DOMAIN s : s[j].mac = m /\ d = s[j].do
            BY <2>2 DEF Ahead
        <3>2. j \in DOMAIN u /\ u[j] = s[j]
            BY <1>0, <3>1
        <3>3. QED
            BY <3>1, <3>2 DEF Ahead
    <2>3. ASSUME NEW d, d \in Ahead(t, m) PROVE d \in Ahead(u, m)
        <3>1. PICK j \in DOMAIN t : t[j].mac = m /\ d = t[j].do
            BY <2>3 DEF Ahead
        <3>2. a + j \in DOMAIN u /\ u[a + j] = t[j]
            BY <1>0, <3>1
        <3>3. QED
            BY <3>1, <3>2 DEF Ahead
    <2>4. QED
        BY <2>1, <2>2, <2>3
<1>3. ASSUME NEW k \in 1 .. a PROVE After(u, k) = After(s, k)
    <2>0. Ahead(t, s[k].mac) = {}
        <3>1. s[k].do \in Ahead(s, s[k].mac) /\ s[k].mac \in Mac
            BY <1>0 DEF Ahead
        <3>2. QED
            BY <3>1
    <2>1. ASSUME NEW d, d \in After(u, k) PROVE d \in After(s, k)
        <3>1. PICK j \in DOMAIN u : j > k /\ u[j].mac = u[k].mac /\ d = u[j].do
            BY <2>1 DEF After
        <3>2. j \in 1 .. a
            <4>1. SUFFICES ASSUME j - a \in 1 .. b, u[j] = t[j - a] PROVE FALSE
                BY <1>1
            <4>2. t[j - a].do \in Ahead(t, s[k].mac)
                BY <1>0, <3>1, <4>1 DEF Ahead
            <4>3. QED
                BY <2>0, <4>2
        <3>3. QED
            BY <1>0, <3>1, <3>2 DEF After
    <2>2. ASSUME NEW d, d \in After(s, k) PROVE d \in After(u, k)
        <3>1. PICK j \in DOMAIN s : j > k /\ s[j].mac = s[k].mac /\ d = s[j].do
            BY <2>2 DEF After
        <3>2. j \in DOMAIN u /\ u[j] = s[j] /\ u[k] = s[k]
            BY <1>0, <3>1
        <3>3. QED
            BY <3>1, <3>2 DEF After
    <2>3. QED
        BY <2>1, <2>2
<1>4. ASSUME NEW k \in 1 .. b PROVE After(u, a + k) = After(t, k)
    <2>1. ASSUME NEW d, d \in After(u, a + k) PROVE d \in After(t, k)
        <3>1. PICK j \in DOMAIN u : j > a + k /\ u[j].mac = u[a + k].mac /\ d = u[j].do
            BY <2>1 DEF After
        <3>2. j - a \in 1 .. b /\ u[j] = t[j - a] /\ j - a > k
            BY <1>0, <1>1, <3>1
        <3>3. QED
            BY <1>0, <3>1, <3>2 DEF After
    <2>2. ASSUME NEW d, d \in After(t, k) PROVE d \in After(u, a + k)
        <3>1. PICK j \in DOMAIN t : j > k /\ t[j].mac = t[k].mac /\ d = t[j].do
            BY <2>2 DEF After
        <3>2. a + j \in DOMAIN u /\ u[a + j] = t[j] /\ u[a + k] = t[k] /\ a + j > a + k
            BY <1>0, <3>1
        <3>3. QED
            BY <3>1, <3>2 DEF After
    <2>3. QED
        BY <2>1, <2>2
<1>5. Ordered(u)
    <2>1. ASSUME NEW k \in DOMAIN u PROVE <<u[k].do, After(u, k)>> \in Followed
        <3>1. CASE k \in 1 .. a
            <4>1. u[k] = s[k] /\ After(u, k) = After(s, k) /\ k \in DOMAIN s
                BY <1>0, <1>3, <3>1
            <4>2. QED
                BY <4>1 DEF Ordered
        <3>2. CASE k \notin 1 .. a
            <4> DEFINE j == k - a
            <4>1. j \in 1 .. b /\ k = a + j
                BY <1>0, <1>1, <3>2
            <4> HIDE DEF j
            <4>2. u[k] = t[j] /\ After(u, k) = After(t, j) /\ j \in DOMAIN t
                BY <1>0, <1>4, <4>1
            <4>3. QED
                BY <4>2 DEF Ordered
        <3>3. QED
            BY <3>1, <3>2
    <2>2. QED
        BY <2>1 DEF Ordered
<1>6. QED
    BY <1>2, <1>5 DEF u

\* The commands of one client follow each other.
LEMMA Following ==
    ASSUME NEW n \in {2, 3, 5}, NEW c \in Nat, NEW k \in 1 .. n * c
    PROVE  /\ \A l \in 1 .. n * c :
                  l > k /\ ((l - 1) \div n) + 1 = ((k - 1) \div n) + 1
                      => ((l - 1) % n) + 1 > ((k - 1) % n) + 1
           /\ \A i \in 1 .. n : i > ((k - 1) % n) + 1 =>
                  \E l \in 1 .. n * c : /\ l > k /\ ((l - 1) % n) + 1 = i
                                        /\ ((l - 1) \div n) + 1 = ((k - 1) \div n) + 1
<1>1. /\ n * c \in Nat /\ k \in Nat /\ k >= 1 /\ n \in Nat
      /\ ((k - 1) % n) + 1 \in 1 .. n /\ ((k - 1) \div n) + 1 \in 1 .. c
    BY Index
<1>2. ASSUME NEW l \in 1 .. n * c, l > k, ((l - 1) \div n) + 1 = ((k - 1) \div n) + 1
      PROVE  ((l - 1) % n) + 1 > ((k - 1) % n) + 1
    <2>1. CASE n = 2
        BY <1>1, <1>2, <2>1, SMT
    <2>2. CASE n = 3
        BY <1>1, <1>2, <2>2, SMT
    <2>3. CASE n = 5
        BY <1>1, <1>2, <2>3, SMT
    <2>4. QED
        BY <2>1, <2>2, <2>3
<1>3. ASSUME NEW i \in 1 .. n, i > ((k - 1) % n) + 1
      PROVE  \E l \in 1 .. n * c : /\ l > k /\ ((l - 1) % n) + 1 = i
                                   /\ ((l - 1) \div n) + 1 = ((k - 1) \div n) + 1
    <2> DEFINE j == ((k - 1) \div n) + 1
               l == (j - 1) * n + i
    <2>1. l \in 1 .. n * c /\ ((l - 1) % n) + 1 = i /\ ((l - 1) \div n) + 1 = j
        BY <1>1, Index
    <2>2. l > k
        <3>1. CASE n = 2
            BY <1>1, <1>3, <3>1, SMT
        <3>2. CASE n = 3
            BY <1>1, <1>3, <3>2, SMT
        <3>3. CASE n = 5
            BY <1>1, <1>3, <3>3, SMT
        <3>4. QED
            BY <3>1, <3>2, <3>3
    <2>3. QED
        BY <2>1, <2>2
<1>4. QED
    BY <1>2, <1>3

\* What the script of a template does to a client: the whole template, one command
\* after the other.
LEMMA AheadEach ==
    ASSUME NEW M \in SUBSET Mac, NEW cs \in Seq(Dos), Len(cs) \in {2, 3, 5},
           \A i \in 1 .. Len(cs) :
               <<cs[i], {cs[j] : j \in {l \in 1 .. Len(cs) : l > i}}>> \in Followed
    PROVE  /\ Ordered(ForEach(M, cs))
           /\ \A m \in Mac : Ahead(ForEach(M, cs), m) =
                  IF m \in M THEN {cs[j] : j \in 1 .. Len(cs)} ELSE {}
<1> DEFINE n == Len(cs)
           c == Cardinality(M)
           S == SetToSeq(M)
           f == ForEach(M, cs)
           at0(k) == ((k - 1) % n) + 1
           of(k) == ((k - 1) \div n) + 1
<1>1. IsFiniteSet(M)
    BY FS_Subset, CaptiveAssumption
<1>2. c \in Nat /\ S \in [1 .. c -> M] /\ IsInjective(S)
    BY <1>1, Listed
<1>3. /\ DOMAIN f = 1 .. n * c
      /\ \A k \in DOMAIN f : f[k] = [do |-> cs[at0(k)], mac |-> S[of(k)]]
      /\ \A i \in 1 .. n, m \in M : \E k \in DOMAIN f : f[k] = [do |-> cs[i], mac |-> m]
    <2>1. \A k \in DOMAIN ForEach(M, cs) :
              ForEach(M, cs)[k] = [do |-> cs[((k - 1) % Len(cs)) + 1],
                                   mac |-> SetToSeq(M)[((k - 1) \div Len(cs)) + 1]]
        BY Each
    <2>2. DOMAIN ForEach(M, cs) = 1 .. Len(cs) * Cardinality(M)
        BY Each
    <2>3. \A i \in 1 .. Len(cs), m \in M :
              \E k \in DOMAIN ForEach(M, cs) : ForEach(M, cs)[k] = [do |-> cs[i], mac |-> m]
        BY Each
    <2>4. QED
        BY <2>1, <2>2, <2>3
<1>4. n \in {2, 3, 5}
    OBVIOUS
<1> HIDE DEF f, S, c, n
<1>5. \A k \in 1 .. n * c : at0(k) \in 1 .. n /\ of(k) \in 1 .. c
    BY <1>2, <1>4, Index
<1>6. \A k \in DOMAIN f : f[k].do = cs[at0(k)] /\ f[k].mac = S[of(k)] /\ f[k].mac \in M
    BY <1>2, <1>3, <1>5
<1>7. \A k, l \in DOMAIN f : f[k].mac = f[l].mac => of(k) = of(l)
    BY <1>2, <1>3, <1>5, <1>6 DEF IsInjective
<1>8. ASSUME NEW k \in DOMAIN f
      PROVE  After(f, k) = {cs[j] : j \in {l \in 1 .. n : l > at0(k)}}
    <2>1. ASSUME NEW d, d \in After(f, k) PROVE d \in {cs[j] : j \in {l \in 1 .. n : l > at0(k)}}
        <3>1. PICK l \in DOMAIN f : l > k /\ f[l].mac = f[k].mac /\ d = f[l].do
            BY <2>1 DEF After
        <3>2. of(l) = of(k)
            BY <1>7, <3>1
        <3>3. at0(l) > at0(k)
            BY <1>2, <1>3, <1>4, <3>1, <3>2, Following
        <3>4. d = cs[at0(l)] /\ at0(l) \in 1 .. n
            BY <1>3, <1>5, <1>6, <3>1
        <3> HIDE DEF at0
        <3>5. QED
            BY <3>3, <3>4
    <2>2. ASSUME NEW i \in 1 .. n, i > at0(k) PROVE cs[i] \in After(f, k)
        <3>0. \A x \in 1 .. n : x > at0(k) =>
                  \E l \in 1 .. n * c : l > k /\ at0(l) = x /\ of(l) = of(k)
            <4>1. k \in 1 .. n * c
                BY <1>3
            <4>2. QED
                BY <1>2, <1>4, <4>1, Following
        <3> HIDE DEF at0, of
        <3>1. PICK l \in 1 .. n * c : l > k /\ at0(l) = i /\ of(l) = of(k)
            BY <2>2, <3>0
        <3>2. l \in DOMAIN f /\ f[l].mac = f[k].mac /\ f[l].do = cs[i]
            BY <1>3, <1>6, <3>1
        <3>3. QED
            BY <3>1, <3>2 DEF After
    <2>3. QED
        BY <2>1, <2>2
<1>9. Ordered(f)
    <2>1. ASSUME NEW k \in DOMAIN f PROVE <<f[k].do, After(f, k)>> \in Followed
        <3>1. at0(k) \in 1 .. n /\ f[k].do = cs[at0(k)]
            BY <1>3, <1>5, <1>6
        <3>2. <<cs[at0(k)], {cs[j] : j \in {l \in 1 .. n : l > at0(k)}}>> \in Followed
            BY <3>1 DEF n
        <3>3. QED
            BY <1>8, <3>1, <3>2
    <2>2. QED
        BY <2>1 DEF Ordered
<1>10. ASSUME NEW m \in M PROVE Ahead(f, m) = {cs[j] : j \in 1 .. n}
    <2>1. ASSUME NEW d, d \in Ahead(f, m) PROVE d \in {cs[j] : j \in 1 .. n}
        <3>1. PICK l \in DOMAIN f : d = f[l].do
            BY <2>1 DEF Ahead
        <3>2. d = cs[at0(l)] /\ at0(l) \in 1 .. n
            BY <1>3, <1>5, <1>6, <3>1
        <3>3. QED
            BY <3>2
    <2>2. ASSUME NEW i \in 1 .. n PROVE cs[i] \in Ahead(f, m)
        <3>1. PICK k \in DOMAIN f : f[k] = [do |-> cs[i], mac |-> m]
            BY <1>3
        <3>2. f[k].mac = m /\ f[k].do = cs[i]
            BY <3>1
        <3>3. QED
            BY <3>2 DEF Ahead
    <2>3. QED
        BY <2>1, <2>2
<1>11. ASSUME NEW m, m \notin M PROVE Ahead(f, m) = {}
    BY <1>6, <1>11 DEF Ahead
<1>12. QED
    BY <1>9, <1>10, <1>11 DEF f, n

\* The commands a client is opened, closed and refreshed by.
LEMMA AheadOfAuth ==
    ASSUME NEW M \in SUBSET Mac
    PROVE  /\ Ordered(cmd_auth(M))
           /\ \A m \in Mac : Ahead(cmd_auth(M), m) = IF m \in M THEN Open5 ELSE {}
<1> DEFINE cs == <<"clear", "return", "redirect", "accept", "track">>
           rest(i) == {cs[j] : j \in {l \in 1 .. Len(cs) : l > i}}
<1>1. cs \in Seq(Dos) /\ Len(cs) = 5
    BY DEF Dos
<1>2. /\ cs[1] = "clear" /\ cs[2] = "return" /\ cs[3] = "redirect" /\ cs[4] = "accept"
      /\ cs[5] = "track" /\ cmd_auth(M) = ForEach(M, cs)
    BY DEF cmd_auth
<1> HIDE DEF cs
<1>3. /\ rest(1) = Open4 /\ rest(2) = Open3 /\ rest(3) = Open2 /\ rest(4) = Open1 /\ rest(5) = {}
      /\ {cs[j] : j \in 1 .. Len(cs)} = Open5
    <2>1. /\ {l \in 1 .. 5 : l > 1} = {2, 3, 4, 5} /\ {l \in 1 .. 5 : l > 2} = {3, 4, 5}
          /\ {l \in 1 .. 5 : l > 3} = {4, 5} /\ {l \in 1 .. 5 : l > 4} = {5}
          /\ {l \in 1 .. 5 : l > 5} = {} /\ 1 .. 5 = {1, 2, 3, 4, 5}
        OBVIOUS
    <2>2. QED
        BY <1>1, <1>2, <2>1 DEF Open1, Open2, Open3, Open4, Open5
<1>4. \A i \in 1 .. Len(cs) : <<cs[i], rest(i)>> \in Followed
    <2> HIDE DEF rest
    <2>1. \A i \in 1 .. Len(cs) : i \in {1, 2, 3, 4, 5}
        BY <1>1
    <2>2. QED
        BY <1>2, <1>3, <2>1 DEF Followed
<1>5. QED
    <2>1. Len(cs) \in {2, 3, 5}
        BY <1>1
    <2>2. /\ Ordered(ForEach(M, cs))
          /\ \A m \in Mac : Ahead(ForEach(M, cs), m) =
                 IF m \in M THEN {cs[j] : j \in 1 .. Len(cs)} ELSE {}
        BY <1>1, <1>4, <2>1, AheadEach
    <2>3. QED
        BY <1>2, <1>3, <2>2

\* So are those it is closed by.
LEMMA AheadOfUnauth ==
    ASSUME NEW M \in SUBSET Mac
    PROVE  /\ Ordered(cmd_unauth(M))
           /\ \A m \in Mac : Ahead(cmd_unauth(M), m) = IF m \in M THEN Close2 ELSE {}
<1> DEFINE cs == <<"clear", "untrack">>
           rest(i) == {cs[j] : j \in {l \in 1 .. Len(cs) : l > i}}
<1>1. cs \in Seq(Dos) /\ Len(cs) = 2
    BY DEF Dos
<1>2. cs[1] = "clear" /\ cs[2] = "untrack" /\ cmd_unauth(M) = ForEach(M, cs)
    BY DEF cmd_unauth
<1> HIDE DEF cs
<1>3. rest(1) = Close1 /\ rest(2) = {} /\ {cs[j] : j \in 1 .. Len(cs)} = Close2
    <2>1. {l \in 1 .. 2 : l > 1} = {2} /\ {l \in 1 .. 2 : l > 2} = {} /\ 1 .. 2 = {1, 2}
        OBVIOUS
    <2>2. QED
        BY <1>1, <1>2, <2>1 DEF Close1, Close2
<1>4. \A i \in 1 .. Len(cs) : <<cs[i], rest(i)>> \in Followed
    <2> HIDE DEF rest
    <2>1. \A i \in 1 .. Len(cs) : i \in {1, 2}
        BY <1>1
    <2>2. QED
        BY <1>2, <1>3, <2>1 DEF Followed
<1>5. QED
    <2>1. Len(cs) \in {2, 3, 5}
        BY <1>1
    <2>2. /\ Ordered(ForEach(M, cs))
          /\ \A m \in Mac : Ahead(ForEach(M, cs), m) =
                 IF m \in M THEN {cs[j] : j \in 1 .. Len(cs)} ELSE {}
        BY <1>1, <1>4, <2>1, AheadEach
    <2>3. QED
        BY <1>2, <1>3, <2>2

\* And those a refresh writes it by.
LEMMA AheadOfRefresh ==
    ASSUME tracked \subseteq Mac
    PROVE  /\ Ordered(cmd_refresh)
           /\ \A m \in Mac : Ahead(cmd_refresh, m) = IF m \in tracked THEN Fresh3 ELSE {}
<1> DEFINE cs == <<"rebuild", "redirect", "accept">>
           rest(i) == {cs[j] : j \in {l \in 1 .. Len(cs) : l > i}}
<1>1. cs \in Seq(Dos) /\ Len(cs) = 3
    BY DEF Dos
<1>2. /\ cs[1] = "rebuild" /\ cs[2] = "redirect" /\ cs[3] = "accept"
      /\ cmd_refresh = ForEach(tracked, cs)
    BY DEF cmd_refresh
<1> HIDE DEF cs
<1>3. /\ rest(1) = Fresh2 /\ rest(2) = Fresh1 /\ rest(3) = {}
      /\ {cs[j] : j \in 1 .. Len(cs)} = Fresh3
    <2>1. /\ {l \in 1 .. 3 : l > 1} = {2, 3} /\ {l \in 1 .. 3 : l > 2} = {3}
          /\ {l \in 1 .. 3 : l > 3} = {} /\ 1 .. 3 = {1, 2, 3}
        OBVIOUS
    <2>2. QED
        BY <1>1, <1>2, <2>1 DEF Fresh1, Fresh2, Fresh3
<1>4. \A i \in 1 .. Len(cs) : <<cs[i], rest(i)>> \in Followed
    <2> HIDE DEF rest
    <2>1. \A i \in 1 .. Len(cs) : i \in {1, 2, 3}
        BY <1>1
    <2>2. QED
        BY <1>2, <1>3, <2>1 DEF Followed
<1>5. QED
    <2>1. Len(cs) \in {2, 3, 5} /\ tracked \in SUBSET Mac
        BY <1>1
    <2>2. /\ Ordered(ForEach(tracked, cs))
          /\ \A m \in Mac : Ahead(ForEach(tracked, cs), m) =
                 IF m \in tracked THEN {cs[j] : j \in 1 .. Len(cs)} ELSE {}
        BY <1>1, <1>4, <2>1, AheadEach
    <2>3. QED
        BY <1>2, <1>3, <2>2

-----------------------------------------------------------------------------
\* What is known of a client while its commands run

Wanted(m) == \E i \in OwnerOf(m) : Active(i)
\* A client X is still ahead of.
Stage(m, X) ==
    /\ X \in {Open5, Open4, Open3, Open2, Open1} => Wanted(m)
    /\ X \in {Close2, Close1} => ~Wanted(m)
    /\ X \in {Fresh3, Fresh2, Fresh1} => m \in tracked /\ (Wanted(m) \/ m \in hurt)
    /\ X \in {Open4, Close1, Fresh2} => Closed(m)
    /\ X = Open3 => nat[m] = <<"return">>
    /\ X \in {Open2, Open1} => nat[m] = <<"redirect", "return">>
    /\ X = Open1 => m \in fwd
    /\ X = Fresh1 => nat[m] = <<"redirect">>
    /\ X \in {Fresh2, Fresh1} => m \in rebuilt
\* A client no script is at.
Done(m) ==
    /\ api # "boot" /\ Wanted(m) => Open(m) /\ m \in tracked
    /\ ~Wanted(m) => m \in hurt \/ (Closed(m) /\ m \notin tracked)
Nobody(m) == \A q \in Process : Ahead(todo[q], m) = {}
ScriptInv ==
    /\ \A q \in Process : Ordered(todo[q])
    /\ \A q, r \in Process, m \in Mac : q # r => Ahead(todo[q], m) = {} \/ Ahead(todo[r], m) = {}
DeviceInv ==
    \A m \in Mac : /\ \A q \in Process : Stage(m, Ahead(todo[q], m))
                   /\ Nobody(m) => Done(m)

\* The stages are told apart by what is still ahead.
LEMMA StageSets ==
    /\ Open5 \notin {{}, Open4, Open3, Open2, Open1, Close2, Close1, Fresh3, Fresh2, Fresh1}
    /\ Open4 \notin {{}, Open3, Open2, Open1, Close2, Close1, Fresh3, Fresh2, Fresh1}
    /\ Open3 \notin {{}, Open2, Open1, Close2, Close1, Fresh3, Fresh2, Fresh1}
    /\ Open2 \notin {{}, Open1, Close2, Close1, Fresh3, Fresh2, Fresh1}
    /\ Open1 \notin {{}, Close2, Close1, Fresh3, Fresh2, Fresh1}
    /\ Close2 \notin {{}, Close1, Fresh3, Fresh2, Fresh1}
    /\ Close1 \notin {{}, Fresh3, Fresh2, Fresh1}
    /\ Fresh3 \notin {{}, Fresh2, Fresh1}
    /\ Fresh2 \notin {{}, Fresh1}
    /\ Fresh1 # {}
    BY DEF Open1, Open2, Open3, Open4, Open5, Close1, Close2, Fresh1, Fresh2, Fresh3

\* A script that has nothing to do.
LEMMA NothingAhead == Ordered(<<>>) /\ \A m : Ahead(<<>>, m) = {}
    BY DEF Ordered, Ahead

\* The clients a script is working on are those it has something to do to.
LEMMA AheadWorked ==
    ASSUME RulesOK, NEW q \in Process, NEW m
    PROVE  m \in Worked(q) <=> Ahead(todo[q], m) # {}
<1>1. ASSUME m \in Worked(q) PROVE Ahead(todo[q], m) # {}
    <2>1. PICK k \in DOMAIN todo[q] : m = todo[q][k].mac
        BY <1>1 DEF Worked, ToSet
    <2>2. todo[q][k].do \in Ahead(todo[q], m)
        BY <2>1 DEF Ahead
    <2>3. QED
        BY <2>2
<1>2. ASSUME Ahead(todo[q], m) # {} PROVE m \in Worked(q)
    <2>1. PICK k \in DOMAIN todo[q] : todo[q][k].mac = m
        BY <1>2 DEF Ahead
    <2>2. QED
        BY <2>1 DEF Worked, ToSet
<1>3. QED
    BY <1>1, <1>2

\* Rules, scripts and who is to be let through stay.
LEMMA DevicesStay ==
    ASSUME ScriptInv, DeviceInv, UNCHANGED <<nat, fwd, tracked, rebuilt, todo, hurt>>,
           api = "boot" => api' = "boot" \/ ~\E m \in Mac : Wanted(m),
           \A m \in Mac : Wanted(m)' = Wanted(m)
    PROVE  ScriptInv' /\ DeviceInv'
<1>1. ScriptInv'
    BY DEF ScriptInv
<1>2. ASSUME NEW m \in Mac
      PROVE  (\A q \in Process : Stage(m, Ahead(todo[q], m)))' /\ (Nobody(m) => Done(m))'
    <2>1. Wanted(m)' = Wanted(m) /\ Open(m)' = Open(m) /\ Closed(m)' = Closed(m)
        BY DEF Open, Closed
    <2>2. \A q \in Process : Stage(m, Ahead(todo[q], m))'
        BY <2>1 DEF DeviceInv, Stage
    <2>3. (Nobody(m) => Done(m))'
        BY <2>1 DEF DeviceInv, Nobody, Done
    <2>4. QED
        BY <2>2, <2>3
<1>3. QED
    BY <1>1, <1>2 DEF DeviceInv

\* A process sets out to run a script: the clients it is for are nobody's, and their
\* first stage holds; the others are as wanted as before.
LEMMA DevicesStart ==
    ASSUME RulesOK, ScriptInv, DeviceInv, NEW q \in Process, NEW s \in Seq(Command), Ordered(s),
           Quiet(q), todo' = [todo EXCEPT ![q] = s],
           UNCHANGED <<nat, fwd, tracked, rebuilt, hurt>>,
           \A m \in Mac :
               IF Ahead(s, m) = {}
               THEN Wanted(m)' = Wanted(m) /\ (api = "boot" => api' = "boot" \/ ~Wanted(m))
               ELSE Nobody(m) /\ Stage(m, Ahead(s, m))'
    PROVE  ScriptInv' /\ DeviceInv'
<1>1. todo'[q] = s /\ \A r \in Process \ {q} : todo'[r] = todo[r]
    BY DEF RulesOK
<1>2. \A m \in Mac : Ahead(todo[q], m) = {}
    BY NothingAhead DEF Quiet
<1>3. ScriptInv'
    <2>1. \A r \in Process : Ordered(todo'[r])
        BY <1>1 DEF ScriptInv
    <2>2. ASSUME NEW p \in Process, NEW r \in Process, NEW m \in Mac, p # r
          PROVE  Ahead(todo'[p], m) = {} \/ Ahead(todo'[r], m) = {}
        <3>1. Ahead(s, m) = {} \/ (Ahead(todo[p], m) = {} /\ Ahead(todo[r], m) = {})
            BY DEF Nobody
        <3>2. Ahead(todo[p], m) = {} \/ Ahead(todo[r], m) = {}
            BY <2>2 DEF ScriptInv
        <3>3. QED
            BY <1>1, <2>2, <3>1, <3>2
    <2>3. QED
        BY <2>1, <2>2 DEF ScriptInv
<1>4. ASSUME NEW m \in Mac
      PROVE  (\A r \in Process : Stage(m, Ahead(todo[r], m)))' /\ (Nobody(m) => Done(m))'
    <2>1. Open(m)' = Open(m) /\ Closed(m)' = Closed(m)
        BY DEF Open, Closed
    <2>2. Stage(m, {})'
        BY StageSets DEF Stage
    <2>3. CASE Ahead(s, m) = {}
        <3>1. Wanted(m)' = Wanted(m) /\ (api = "boot" => api' = "boot" \/ ~Wanted(m))
            BY <2>3
        <3>2. ASSUME NEW r \in Process PROVE Stage(m, Ahead(todo[r], m))'
            <4>1. Stage(m, Ahead(todo[r], m)) /\ Ahead(todo'[r], m) = Ahead(todo[r], m)
                BY <1>1, <1>2, <2>3 DEF DeviceInv
            <4>2. QED
                BY <2>1, <3>1, <4>1 DEF Stage
        <3>3. (Nobody(m) => Done(m))'
            BY <1>1, <1>2, <2>1, <3>1 DEF DeviceInv, Nobody, Done
        <3>4. QED
            BY <3>2, <3>3
    <2>4. CASE Ahead(s, m) # {}
        <3>1. Nobody(m) /\ Stage(m, Ahead(s, m))'
            BY <2>4
        <3>2. \A r \in Process : Stage(m, Ahead(todo[r], m))'
            <4> TAKE r \in Process
            <4>1. CASE r = q
                BY <1>1, <3>1, <4>1 DEF Stage
            <4>2. CASE r # q
                <5>1. Ahead(todo'[r], m) = {}
                    BY <1>1, <3>1, <4>2 DEF Nobody
                <5>2. QED
                    BY <2>2, <5>1 DEF Stage
            <4>3. QED
                BY <4>1, <4>2
        <3>3. ~Nobody(m)'
            BY <1>1, <2>4 DEF Nobody
        <3>4. QED
            BY <3>2, <3>3
    <2>5. QED
        BY <2>3, <2>4
<1>5. QED
    BY <1>3, <1>4 DEF DeviceInv

\* What the next command of a script does to its client, and to the others.
LEMMA CommandDoes ==
    ASSUME RulesOK, NEW q \in Process, Run(q), NEW c, c = Head(todo[q])
    PROVE  /\ c.mac \in Mac
           /\ \A m \in Mac \ {c.mac} : /\ nat'[m] = nat[m] /\ (m \in fwd' <=> m \in fwd)
                                       /\ (m \in tracked' <=> m \in tracked)
                                       /\ (m \in rebuilt' <=> m \in rebuilt)
           /\ c.do \in {"clear", "rebuild"} =>
                  /\ nat'[c.mac] = <<>> /\ c.mac \notin fwd' /\ tracked' = tracked
                  /\ c.do = "rebuild" => c.mac \in rebuilt'
           /\ c.do \in Rule /\ c.do \notin ToSet(nat[c.mac]) =>
                  nat'[c.mac] = <<c.do>> \o nat[c.mac] /\ UNCHANGED <<fwd, tracked, rebuilt>>
           /\ c.do = "accept" => c.mac \in fwd' /\ UNCHANGED <<nat, tracked, rebuilt>>
           /\ c.do = "track" => c.mac \in tracked' /\ UNCHANGED <<nat, fwd, rebuilt>>
           /\ c.do = "untrack" => c.mac \notin tracked' /\ UNCHANGED <<nat, fwd, rebuilt>>
<1>1. todo[q] \in Seq(Command) /\ todo[q] # <<>>
    BY DEF RulesOK, Run
<1>2. c \in Command
    BY <1>1, HeadOf
<1>3. remove_auth_rules(c) \/ insert_rule(c) \/ save_auth_mac(c) \/ remove_auth_mac(c)
    BY DEF Run
<1>4. c.mac \in Mac /\ c.do \in Dos
    BY <1>2 DEF Command, Dos
<1>5. CASE remove_auth_rules(c)
    BY <1>4, <1>5 DEF remove_auth_rules, RulesOK, Rule
<1>6. CASE insert_rule(c)
    <2>1. CASE c.do \in Rule
        <3>1. /\ nat' = [nat EXCEPT ![c.mac] = IF c.do \in ToSet(@) THEN @ ELSE <<c.do>> \o @]
              /\ UNCHANGED <<fwd, tracked, rebuilt>>
            BY <1>6, <2>1 DEF insert_rule, Rule
        <3>2. \A m \in Mac \ {c.mac} : nat'[m] = nat[m]
            BY <3>1 DEF RulesOK
        <3>3. c.do \notin ToSet(nat[c.mac]) => nat'[c.mac] = <<c.do>> \o nat[c.mac]
            BY <1>4, <3>1 DEF RulesOK
        <3>4. c.do \notin {"clear", "rebuild", "accept", "track", "untrack"}
            BY <2>1 DEF Rule
        <3>5. QED
            BY <1>4, <3>1, <3>2, <3>3, <3>4
    <2>2. CASE c.do \notin Rule
        <3>1. c.do = "accept" /\ fwd' = fwd \cup {c.mac} /\ UNCHANGED <<nat, tracked, rebuilt>>
            BY <1>6, <2>2 DEF insert_rule
        <3>2. QED
            BY <1>4, <2>2, <3>1
    <2>3. QED
        BY <2>1, <2>2
<1>7. CASE save_auth_mac(c)
    BY <1>4, <1>7 DEF save_auth_mac, Rule
<1>8. CASE remove_auth_mac(c)
    BY <1>4, <1>8 DEF remove_auth_mac, Rule
<1>9. QED
    BY <1>3, <1>5, <1>6, <1>7, <1>8

\* A command brings its client to the next stage.
LEMMA NextStage ==
    ASSUME RulesOK, NEW q \in Process, Run(q), NEW m \in Mac, NEW d, NEW X,
           Head(todo[q]).mac = m, Head(todo[q]).do = d, <<d, X>> \in Followed,
           Stage(m, {d} \cup X), UNCHANGED <<row, hurt, api>>
    PROVE  Stage(m, X)' /\ (X = {} => Done(m)')
<1> DEFINE c == Head(todo[q])
<1>0. /\ c.mac = m /\ c.do = d
      /\ c.do \in {"clear", "rebuild"} =>
             /\ nat'[m] = <<>> /\ m \notin fwd' /\ tracked' = tracked
             /\ c.do = "rebuild" => m \in rebuilt'
      /\ c.do \in Rule /\ c.do \notin ToSet(nat[m]) =>
             nat'[m] = <<c.do>> \o nat[m] /\ UNCHANGED <<fwd, tracked, rebuilt>>
      /\ c.do = "accept" => m \in fwd' /\ UNCHANGED <<nat, tracked, rebuilt>>
      /\ c.do = "track" => m \in tracked' /\ UNCHANGED <<nat, fwd, rebuilt>>
      /\ c.do = "untrack" => m \notin tracked' /\ UNCHANGED <<nat, fwd, rebuilt>>
    BY CommandDoes
<1>w. Wanted(m)' = Wanted(m)
    BY DEF Wanted, OwnerOf, Active
<1>t. "return" \notin ToSet(<<>>) /\ "redirect" \notin ToSet(<<>>) /\ "redirect" \notin ToSet(<<"return">>)
    BY DEF ToSet
<1> HIDE DEF c
<1>1. CASE d = "clear" /\ X = Open4
    <2>1. {d} \cup X = Open5
        BY <1>1 DEF Open4, Open5
    <2>2. Wanted(m)' /\ Closed(m)'
        BY <1>0, <1>1, <1>w, <2>1 DEF Stage, Closed
    <2>3. QED
        BY <1>1, <2>2, StageSets DEF Stage
<1>2. CASE d = "return" /\ X = Open3
    <2>1. {d} \cup X = Open4
        BY <1>2 DEF Open3, Open4
    <2>2. Wanted(m)' /\ nat[m] = <<>>
        BY <1>w, <2>1 DEF Stage, Closed
    <2>3. nat'[m] = <<"return">> \o <<>>
        BY <1>0, <1>2, <1>t, <2>2 DEF Rule
    <2>4. nat'[m] = <<"return">>
        BY <2>3
    <2>5. QED
        BY <1>2, <2>2, <2>4, StageSets DEF Stage
<1>3. CASE d = "redirect" /\ X = Open2
    <2>1. {d} \cup X = Open3
        BY <1>3 DEF Open2, Open3
    <2>2. Wanted(m)' /\ nat[m] = <<"return">>
        BY <1>w, <2>1 DEF Stage
    <2>3. nat'[m] = <<"redirect">> \o <<"return">>
        BY <1>0, <1>3, <1>t, <2>2 DEF Rule
    <2>4. nat'[m] = <<"redirect", "return">>
        <3> DEFINE u == <<"redirect">> \o <<"return">>
        <3>0. u \in Seq(Rule) /\ Len(u) = 2 /\ u[1] = "redirect" /\ u[2] = "return"
            BY DEF Rule
        <3> HIDE DEF u
        <3>1. u = <<"redirect", "return">>
            BY <3>0
        <3>2. QED
            BY <2>3, <3>1 DEF u
    <2>5. QED
        BY <1>3, <2>2, <2>4, StageSets DEF Stage
<1>4. CASE d = "accept" /\ X = Open1
    <2>1. {d} \cup X = Open2
        BY <1>4 DEF Open1, Open2
    <2>2. Wanted(m)' /\ nat'[m] = <<"redirect", "return">> /\ m \in fwd'
        BY <1>0, <1>4, <1>w, <2>1 DEF Stage
    <2>3. QED
        BY <1>4, <2>2, StageSets DEF Stage
<1>5. CASE d = "track" /\ X = {}
    <2>1. {d} \cup X = Open1
        BY <1>5 DEF Open1
    <2>2. Wanted(m)' /\ nat'[m] = <<"redirect", "return">> /\ m \in fwd' /\ m \in tracked'
        BY <1>0, <1>5, <1>w, <2>1 DEF Stage
    <2>3. Open(m)'
        <3>1. "return" \in ToSet(<<"redirect", "return">>)
            BY DEF ToSet
        <3>2. <<"redirect", "return">> # <<>> /\ Head(<<"redirect", "return">>) = "redirect"
            OBVIOUS
        <3>3. QED
            BY <2>2, <3>1, <3>2 DEF Open
    <2>4. QED
        BY <1>5, <2>2, <2>3, StageSets DEF Stage, Done
<1>6. CASE d = "clear" /\ X = Close1
    <2>1. {d} \cup X = Close2
        BY <1>6 DEF Close1, Close2
    <2>2. ~Wanted(m)' /\ Closed(m)'
        BY <1>0, <1>6, <1>w, <2>1 DEF Stage, Closed
    <2>3. QED
        BY <1>6, <2>2, StageSets DEF Stage
<1>7. CASE d = "untrack" /\ X = {}
    <2>1. {d} \cup X = Close1
        BY <1>7 DEF Close1
    <2>2. ~Wanted(m)' /\ Closed(m)' /\ m \notin tracked'
        BY <1>0, <1>7, <1>w, <2>1 DEF Stage, Closed
    <2>3. QED
        BY <1>7, <2>2, StageSets DEF Stage, Done
<1>8. CASE d = "rebuild" /\ X = Fresh2
    <2>1. {d} \cup X = Fresh3
        BY <1>8 DEF Fresh2, Fresh3
    <2>2. m \in tracked' /\ (Wanted(m)' \/ m \in hurt') /\ Closed(m)' /\ m \in rebuilt'
        BY <1>0, <1>8, <1>w, <2>1 DEF Stage, Closed
    <2>3. QED
        BY <1>8, <2>2, StageSets DEF Stage
<1>9. CASE d = "redirect" /\ X = Fresh1
    <2>1. {d} \cup X = Fresh2
        BY <1>9 DEF Fresh1, Fresh2
    <2>2. m \in tracked /\ (Wanted(m)' \/ m \in hurt') /\ nat[m] = <<>> /\ m \in rebuilt
        BY <1>w, <2>1 DEF Stage, Closed
    <2>3. nat'[m] = <<"redirect">> \o <<>> /\ m \in tracked' /\ m \in rebuilt'
        BY <1>0, <1>9, <1>t, <2>2 DEF Rule
    <2>4. nat'[m] = <<"redirect">>
        BY <2>3
    <2>5. QED
        BY <1>9, <2>2, <2>3, <2>4, StageSets DEF Stage
<1>10. CASE d = "accept" /\ X = {}
    <2>1. {d} \cup X = Fresh1
        BY <1>10 DEF Fresh1
    <2>2. /\ m \in tracked' /\ (Wanted(m)' \/ m \in hurt') /\ nat'[m] = <<"redirect">>
          /\ m \in rebuilt' /\ m \in fwd'
        BY <1>0, <1>10, <1>w, <2>1 DEF Stage
    <2>3. Open(m)'
        <3>1. <<"redirect">> # <<>> /\ Head(<<"redirect">>) = "redirect"
            OBVIOUS
        <3>2. QED
            BY <2>2, <3>1 DEF Open
    <2>4. QED
        BY <1>10, <2>2, <2>3, StageSets DEF Stage, Done
<1>11. QED
    <2>1. \/ d = "clear" /\ X = Open4
          \/ d = "return" /\ X = Open3
          \/ d = "redirect" /\ X = Open2
          \/ d = "accept" /\ X = Open1
          \/ d = "track" /\ X = {}
          \/ d = "clear" /\ X = Close1
          \/ d = "untrack" /\ X = {}
          \/ d = "rebuild" /\ X = Fresh2
          \/ d = "redirect" /\ X = Fresh1
          \/ d = "accept" /\ X = {}
        BY DEF Followed
    <2>2. QED
        BY <1>1, <1>2, <1>3, <1>4, <1>5, <1>6, <1>7, <1>8, <1>9, <1>10, <2>1

\* A command that runs leaves every client at a stage.
LEMMA DevicesRun ==
    ASSUME RulesOK, ScriptInv, DeviceInv, NEW q \in Process, Run(q), UNCHANGED <<row, hurt, api>>
    PROVE  ScriptInv' /\ DeviceInv'
<1> DEFINE s == todo[q]
           c == Head(s)
<1>1. s \in Seq(Command) /\ s # <<>> /\ Ordered(s)
    BY DEF RulesOK, Run, ScriptInv
<1>2. todo'[q] = Tail(s) /\ \A r \in Process \ {q} : todo'[r] = todo[r]
    BY DEF RulesOK, Run
<1>3. /\ Ordered(Tail(s)) /\ <<c.do, Ahead(Tail(s), c.mac)>> \in Followed
      /\ Ahead(s, c.mac) = {c.do} \cup Ahead(Tail(s), c.mac)
      /\ \A m \in Mac \ {c.mac} : Ahead(Tail(s), m) = Ahead(s, m)
    BY <1>1, AheadTail
<1>4. /\ c.mac \in Mac
      /\ \A m \in Mac \ {c.mac} : /\ nat'[m] = nat[m] /\ (m \in fwd' <=> m \in fwd)
                                  /\ (m \in tracked' <=> m \in tracked)
                                  /\ (m \in rebuilt' <=> m \in rebuilt)
    BY CommandDoes
<1>5. \A r \in Process, m \in Mac : Ahead(todo[r], m) = {} => Ahead(todo'[r], m) = {}
    <2> HIDE DEF c
    <2>1. QED
        BY <1>2, <1>3
<1>6. ScriptInv'
    <2>1. \A r \in Process : Ordered(todo'[r])
        BY <1>2, <1>3 DEF ScriptInv
    <2>2. QED
        BY <1>5, <2>1 DEF ScriptInv
<1>7. ASSUME NEW m \in Mac
      PROVE  (\A r \in Process : Stage(m, Ahead(todo[r], m)))' /\ (Nobody(m) => Done(m))'
    <2>1. CASE m = c.mac
        <3>0. PICK X, d : X = Ahead(Tail(s), m) /\ d = c.do
            OBVIOUS
        <3>1. Stage(m, {d} \cup X) /\ <<d, X>> \in Followed
            BY <1>3, <2>1, <3>0 DEF DeviceInv
        <3>2. Stage(m, X)' /\ (X = {} => Done(m)')
            BY <2>1, <3>0, <3>1, NextStage
        <3>3. \A r \in Process : Stage(m, Ahead(todo[r], m))'
            <4> TAKE r \in Process
            <4>1. CASE r = q
                BY <1>2, <3>0, <3>2, <4>1 DEF Stage
            <4>2. CASE r # q
                <5>1. Ahead(s, m) # {}
                    BY <1>3, <2>1
                <5>2. Ahead(todo'[r], m) = {}
                    BY <1>2, <4>2, <5>1 DEF ScriptInv
                <5>3. QED
                    BY <5>2, StageSets DEF Stage
            <4>3. QED
                BY <4>1, <4>2
        <3>4. (Nobody(m) => Done(m))'
            BY <1>2, <3>0, <3>2 DEF Nobody
        <3>5. QED
            BY <3>3, <3>4
    <2>2. CASE m # c.mac
        <3>1. \A r \in Process : Ahead(todo'[r], m) = Ahead(todo[r], m)
            BY <1>2, <1>3, <2>2
        <3>2. Wanted(m)' = Wanted(m) /\ Open(m)' = Open(m) /\ Closed(m)' = Closed(m)
            BY <1>4, <2>2 DEF Wanted, OwnerOf, Active, Open, Closed
        <3>3. \A r \in Process : Stage(m, Ahead(todo[r], m))'
            <4> TAKE r \in Process
            <4>1. Stage(m, Ahead(todo[r], m))
                BY DEF DeviceInv
            <4>2. QED
                BY <1>4, <2>2, <3>1, <3>2, <4>1 DEF Stage
        <3>4. (Nobody(m) => Done(m))'
            BY <1>4, <2>2, <3>1, <3>2 DEF DeviceInv, Nobody, Done
        <3>5. QED
            BY <3>3, <3>4
    <2>3. QED
        BY <2>1, <2>2
<1>8. QED
    BY <1>6, <1>7 DEF DeviceInv

\* A restart stops the scripts.
LEMMA DevicesCut ==
    ASSUME RulesOK, DeviceInv, Crash \/ PowerCut
    PROVE  ScriptInv' /\ DeviceInv'
<1>1. /\ todo' = [q \in Process |-> <<>>] /\ api' = "boot" /\ UNCHANGED <<row, tracked>>
      /\ hurt' = hurt \cup UNION {Worked(q) : q \in Process}
      /\ (nat' = nat /\ fwd' = fwd) \/ (nat' = [m \in Mac |-> <<>>] /\ fwd' = {})
    BY DEF Crash, PowerCut, Cut, rows
<1>2. \A q \in Process, m \in Mac : Ahead(todo'[q], m) = {}
    BY <1>1, NothingAhead
<1>3. ScriptInv'
    <2>1. \A q \in Process : Ordered(todo'[q])
        BY <1>1, NothingAhead
    <2>2. QED
        BY <1>2, <2>1 DEF ScriptInv
<1>4. ASSUME NEW m \in Mac
      PROVE  (\A q \in Process : Stage(m, Ahead(todo[q], m)))' /\ (Nobody(m) => Done(m))'
    <2>1. \A q \in Process : Stage(m, Ahead(todo[q], m))'
        BY <1>2, StageSets DEF Stage
    <2>2. Wanted(m)' = Wanted(m)
        BY <1>1 DEF Wanted, OwnerOf, Active
    <2>3. CASE Nobody(m)
        <3>1. Done(m)
            BY <2>3 DEF DeviceInv
        <3>2. Closed(m) => Closed(m)'
            BY <1>1 DEF Closed
        <3>3. QED
            BY <1>1, <2>1, <2>2, <3>1, <3>2 DEF Done
    <2>4. CASE ~Nobody(m)
        <3>1. m \in hurt'
            BY <1>1, <2>4, AheadWorked DEF Nobody
        <3>2. QED
            BY <1>1, <2>1, <3>1 DEF Done
    <2>5. QED
        BY <2>3, <2>4
<1>5. QED
    BY <1>3, <1>4 DEF DeviceInv

-----------------------------------------------------------------------------
\* What is known of rows, phones, migrations and restarts

\* No two rows have the same address, a phone shows an address of its own, and its page
\* has the token of a session of its own.
OwnInv ==
    /\ \A i, j \in Sid : row[i].mac = row[j].mac /\ row[i].mac # NoMac => i = j
    /\ \A p \in Phone : PhoneOf[at[p]] = p
    /\ \A p \in Phone : token[p] # NoSid => row[token[p]].mac # NoMac /\ PhoneOf[row[token[p]].mac] = p
\* A migration that has nothing to move: its session is there, or another row is.
Settled(w) == row[job[w].id].mac = job[w].new \/ OwnerOf(job[w].new) \ {job[w].id} # {}
Inside(w) == job[w].pc \in {"read", "move", "unlock"}
JobInv(w) ==
    job[w].pc # "idle" =>
        /\ Active(job[w].id) /\ row[job[w].id].mac \in {job[w].old, job[w].new}
        /\ job[w].old # job[w].new /\ PhoneOf[job[w].old] = PhoneOf[job[w].new]
        /\ at[PhoneOf[job[w].new]] = job[w].new
        /\ job[w].pc # "unlock" => Quiet(w)
        /\ job[w].pc = "move" => row[job[w].id].mac # job[w].new
        /\ job[w].pc \in {"unlock", "forget"} => Settled(w)
        /\ job[w].pc \in {"lock", "read", "move"} => job[w].mu = registry[job[w].id] \/ Settled(w)
        /\ Inside(w) => job[w].mu \in held
MovesInv ==
    /\ \A w \in Worker : JobInv(w) /\ (job[w].pc = "idle" => job[w] = NoJob)
    /\ \A v, w \in Worker : v # w /\ Inside(v) /\ Inside(w) => job[v].mu # job[w].mu
BootInv ==
    /\ api # "up" => \A w \in Worker : job[w] = NoJob
    /\ api = "boot" => \A q \in Process : Quiet(q)
    /\ api = "recovering" => \A q \in Process \ {Enforcer} : Quiet(q)
AccessInv == ScriptInv /\ DeviceInv /\ OwnInv /\ MovesInv /\ BootInv

\* Nothing that matters here changes.
LEMMA AccessStays ==
    ASSUME AccessInv, UNCHANGED <<chains, todo, hurt, row, at, token, job, registry, held, api>>
    PROVE  AccessInv'
<1> USE DEF AccessInv, chains
<1>1. ScriptInv' /\ DeviceInv'
    <2>1. \A m \in Mac : Wanted(m)' = Wanted(m)
        BY DEF Wanted, OwnerOf, Active
    <2>2. QED
        BY <2>1, DevicesStay
<1>2. OwnInv'
    BY DEF OwnInv
<1>3. MovesInv'
    BY DEF MovesInv, JobInv, Active, Quiet, Settled, OwnerOf, Inside
<1>4. BootInv'
    BY DEF BootInv, Quiet
<1>5. QED
    BY <1>1, <1>2, <1>3, <1>4

\* Rows that keep their addresses, under phones that keep theirs.
LEMMA OwnStays ==
    ASSUME OwnInv, UNCHANGED <<at, token>>, RowsOK, \A i \in Sid : row'[i].mac = row[i].mac
    PROVE  OwnInv'
    BY DEF OwnInv, RowsOK

\* A migration goes on where its session keeps its address.
LEMMA MovesStay ==
    ASSUME MovesInv, UNCHANGED <<job, registry, held>>,
           \A w \in Worker : job[w].pc # "idle" =>
               /\ row'[job[w].id].mac = row[job[w].id].mac
               /\ Active(job[w].id) => Active(job[w].id)'
               /\ at'[PhoneOf[job[w].new]] = at[PhoneOf[job[w].new]]
               /\ Quiet(w) => Quiet(w)'
               /\ Settled(w) => Settled(w)'
    PROVE  MovesInv'
<1>1. ASSUME NEW w \in Worker PROVE JobInv(w)'
    <2>1. SUFFICES ASSUME job[w].pc # "idle" PROVE JobInv(w)'
        BY DEF JobInv
    <2>2. JobInv(w)
        BY DEF MovesInv
    <2>3. QED
        BY <2>1, <2>2 DEF JobInv, Inside
<1>2. \A v, w \in Worker : v # w /\ Inside(v)' /\ Inside(w)' => job'[v].mu # job'[w].mu
    BY DEF MovesInv, Inside
<1>3. QED
    BY <1>1, <1>2 DEF MovesInv

\* No script and no migration is at the clients a careful step is for.
LEMMA NobodyThere ==
    ASSUME Careful, RulesOK, NEW M
    PROVE  /\ NoScript(M) => \A m \in M : Nobody(m)
           /\ Alone(M) => \A w \in Worker : job[w].old \notin M /\ job[w].new \notin M
<1>1. ASSUME NoScript(M), NEW m \in M PROVE Nobody(m)
    <2>1. \A q \in Process : m \notin Worked(q)
        BY <1>1 DEF NoScript
    <2>2. QED
        BY <2>1, AheadWorked DEF Nobody
<1>2. QED
    BY <1>1 DEF Alone

\* A payment opens a client that no script and no migration is at.
LEMMA AccessByPay ==
    ASSUME Careful, TypeInv, AccessInv, NEW w \in Worker, NEW p \in Phone,
           PayOwnRow(w, p) \/ PayNewRow(w, p)
    PROVE  AccessInv'
<1> USE DEF TypeInv, AccessInv
<1>1. PICK i \in Sid : /\ Paid(w, p, i)
                       /\ \/ row[i].mac = at[p]
                          \/ row[i].mac = NoMac /\ OwnerOf(at[p]) = {} /\ token[p] = NoSid
    BY DEF PayOwnRow, PayNewRow, OwnerOf
<1>2. PICK s : s = cmd_auth({at[p]})
    OBVIOUS
<1>3. /\ row' = [row EXCEPT ![i] = [mac |-> at[p], status |-> "running"]]
      /\ token' = [token EXCEPT ![p] = i] /\ todo' = [todo EXCEPT ![w] = s]
      /\ UNCHANGED <<nat, fwd, tracked, rebuilt, at, job, registry, held, api, hurt>>
      /\ api = "up" /\ Free(w) /\ Alone({at[p]})
    BY <1>1, <1>2 DEF PayOwnRow, PayNewRow, PayFor, Paid, chains, locks
<1>4. at[p] \in Mac /\ at[p] # NoMac /\ PhoneOf[at[p]] = p
    BY RoamingAssumption DEF RowsOK, OwnInv
<1>5. row'[i] = [mac |-> at[p], status |-> "running"] /\ \A j \in Sid \ {i} : row'[j] = row[j]
    BY <1>3 DEF RowsOK, Rows
<1>6. \A j \in Sid : row[j].mac = at[p] => j = i
    BY <1>1, <1>4 DEF OwnInv, OwnerOf
<1>7. Quiet(w) /\ job[w] = NoJob /\ w \in Process
    BY <1>3, Processes DEF Free, Idle
<1>8. Nobody(at[p]) /\ \A v \in Worker : job[v].old # at[p] /\ job[v].new # at[p]
    BY <1>3, NobodyThere DEF Alone
<1>9. Wanted(at[p])' /\ \A m \in Mac \ {at[p]} : Wanted(m)' = Wanted(m)
    <2>1. Wanted(at[p])'
        BY <1>3, <1>5 DEF Wanted, OwnerOf, Active
    <2>2. ASSUME NEW m \in Mac \ {at[p]} PROVE OwnerOf(m)' = OwnerOf(m) /\ i \notin OwnerOf(m)
        <3>1. row[i].mac # m /\ row'[i].mac # m
            BY <1>1, <1>5, RoamingAssumption
        <3>2. QED
            BY <1>5, <3>1 DEF OwnerOf
    <2>3. ASSUME NEW m \in Mac \ {at[p]} PROVE Wanted(m)' = Wanted(m)
        <3>1. \A j \in OwnerOf(m) : Active(j)' = Active(j)
            BY <1>5, <2>2 DEF Active, OwnerOf
        <3>2. QED
            BY <2>2, <3>1 DEF Wanted
    <2>4. QED
        BY <2>1, <2>3
<1>10. ScriptInv' /\ DeviceInv'
    <2>1. s \in Seq(Command) /\ Ordered(s) /\ \A m \in Mac : Ahead(s, m) = IF m = at[p] THEN Open5 ELSE {}
        BY <1>2, <1>4, AheadOfAuth, AuthScript DEF Proper
    <2>2. Stage(at[p], Open5)'
        BY <1>9, StageSets DEF Stage
    <2>3. QED
        BY <1>3, <1>7, <1>8, <1>9, <2>1, <2>2, StageSets, DevicesStart
<1>11. OwnInv'
    <2>1. \A j, k \in Sid : row'[j].mac = row'[k].mac /\ row'[j].mac # NoMac => j = k
        BY <1>5, <1>6 DEF OwnInv
    <2>2. \A q \in Phone : PhoneOf[at'[q]] = q
        BY <1>3 DEF OwnInv
    <2>3. ASSUME NEW q \in Phone, token'[q] # NoSid
          PROVE  row'[token'[q]].mac # NoMac /\ PhoneOf[row'[token'[q]].mac] = q
        <3>1. CASE q = p
            BY <1>3, <1>4, <1>5, <3>1 DEF RowsOK
        <3>2. CASE q # p
            <4>1. token'[q] = token[q] /\ token[q] \in Sid
                BY <1>3, <2>3, <3>2 DEF RowsOK
            <4>2. row[token[q]].mac # NoMac /\ PhoneOf[row[token[q]].mac] = q
                BY <2>3, <4>1 DEF OwnInv
            <4>3. token[q] # i
                BY <1>1, <1>4, <3>2, <4>2
            <4>4. QED
                BY <1>5, <4>1, <4>2, <4>3
        <3>3. QED
            BY <3>1, <3>2
    <2>4. QED
        BY <2>1, <2>2, <2>3 DEF OwnInv
<1>12. MovesInv'
    <2>1. ASSUME NEW v \in Worker, job[v].pc # "idle"
          PROVE  /\ row'[job[v].id].mac = row[job[v].id].mac
                 /\ Active(job[v].id) => Active(job[v].id)'
                 /\ Quiet(v) => Quiet(v)'
                 /\ Settled(v) => Settled(v)'
        <3>1. /\ job[v].id \in Sid /\ job[v].new \in Mac /\ job[v].old \in Mac
              /\ row[job[v].id].mac \in {job[v].old, job[v].new}
            BY <2>1 DEF MigrationOK, JobOK, MovesInv, JobInv
        <3>2. job[v].id # i
            BY <1>1, <1>8, <3>1, RoamingAssumption
        <3>3. row'[job[v].id] = row[job[v].id] /\ job' = job
            BY <1>3, <1>5, <3>1, <3>2
        <3>4. OwnerOf(job[v].new) \subseteq OwnerOf(job[v].new)'
            BY <1>1, <1>3, <1>5, <1>8, <3>1, RoamingAssumption DEF OwnerOf
        <3>5. v # w
            BY <1>7, <2>1 DEF NoJob
        <3>6. Quiet(v) => Quiet(v)'
            BY <1>3, <3>5, Processes DEF Quiet, RulesOK
        <3>7. Active(job[v].id)' = Active(job[v].id)
            BY <3>3 DEF Active
        <3>8. Settled(v) => Settled(v)'
            BY <3>3, <3>4 DEF Settled
        <3>9. QED
            BY <3>3, <3>6, <3>7, <3>8
    <2>2. QED
        BY <1>3, <2>1, MovesStay
<1>13. BootInv'
    BY <1>3 DEF BootInv
<1>14. QED
    BY <1>10, <1>11, <1>12, <1>13

\* Rows that keep their addresses and go on.
LEMMA WantedStays ==
    ASSUME \A i \in Sid : row'[i].mac = row[i].mac /\ Active(i)' = Active(i)
    PROVE  \A m : OwnerOf(m)' = OwnerOf(m) /\ Wanted(m)' = Wanted(m)
<1>1. ASSUME NEW m PROVE OwnerOf(m)' = OwnerOf(m) /\ Wanted(m)' = Wanted(m)
    <2>1. OwnerOf(m)' = OwnerOf(m)
        BY DEF OwnerOf
    <2>2. \A i \in OwnerOf(m) : Active(i)' = Active(i)
        BY DEF OwnerOf
    <2>3. QED
        BY <2>1, <2>2 DEF Wanted
<1>2. QED
    BY <1>1

\* A session whose time is up is let through until somebody ends it.
LEMMA AccessByTimeUp ==
    ASSUME TypeInv, AccessInv, NEW i \in Sid, TimeUp(i)
    PROVE  AccessInv'
<1> USE DEF TypeInv, AccessInv
<1>1. /\ row' = [row EXCEPT ![i].status = "due"] /\ row[i].status = "running"
      /\ UNCHANGED <<nat, fwd, tracked, rebuilt, todo, hurt, at, token, job, registry, held, api>>
    BY DEF TimeUp, captiveVars, chains, locks
<1>2. \A j \in Sid : row'[j].mac = row[j].mac /\ Active(j)' = Active(j)
    BY <1>1 DEF RowsOK, Rows, Active
<1>3. \A m : OwnerOf(m)' = OwnerOf(m) /\ Wanted(m)' = Wanted(m)
    BY <1>2, WantedStays
<1>4. ScriptInv' /\ DeviceInv'
    BY <1>1, <1>3, DevicesStay
<1>5. OwnInv'
    BY <1>1, <1>2, OwnStays
<1>6. MovesInv'
    <2>1. ASSUME NEW w \in Worker, job[w].pc # "idle"
          PROVE  /\ row'[job[w].id].mac = row[job[w].id].mac
                 /\ Active(job[w].id) => Active(job[w].id)'
                 /\ Quiet(w) => Quiet(w)'
                 /\ Settled(w) => Settled(w)'
        <3>1. job[w].id \in Sid /\ job' = job /\ todo' = todo
            BY <1>1, <2>1 DEF MigrationOK, JobOK
        <3>2. QED
            BY <1>2, <1>3, <3>1 DEF Settled, Quiet, Active
    <2>2. QED
        BY <1>1, <2>1, MovesStay
<1>7. BootInv'
    BY <1>1 DEF BootInv, Quiet
<1>8. QED
    BY <1>4, <1>5, <1>6, <1>7

\* A phone takes another of its addresses, or its page another token.
LEMMA AccessByPhone ==
    ASSUME Careful, TypeInv, AccessInv, NEW p \in Phone, Roam(p) \/ PollByMac(p)
    PROVE  AccessInv'
<1> USE DEF TypeInv, AccessInv
<1>1. UNCHANGED <<nat, fwd, tracked, rebuilt, todo, hurt, row, job, registry, held, api>>
    BY DEF Roam, PollByMac, captiveVars, chains, locks
<1>2. \A j \in Sid : row'[j].mac = row[j].mac /\ Active(j)' = Active(j)
    BY <1>1 DEF Active
<1>3. \A m : OwnerOf(m)' = OwnerOf(m) /\ Wanted(m)' = Wanted(m)
    BY <1>2, WantedStays
<1>4. ScriptInv' /\ DeviceInv'
    BY <1>1, <1>3, DevicesStay
<1>5. /\ \A q \in Phone : PhoneOf[at'[q]] = q
      /\ \A q \in Phone : token'[q] # NoSid =>
             row[token'[q]].mac # NoMac /\ PhoneOf[row[token'[q]].mac] = q
      /\ \A w \in Worker : job[w].pc # "idle" =>
             at'[PhoneOf[job[w].new]] = at[PhoneOf[job[w].new]]
    <2>1. CASE Roam(p)
        <3>1. PICK m \in Mac : PhoneOf[m] = p /\ at' = [at EXCEPT ![p] = m]
            BY <2>1 DEF Roam
        <3>2. \A q \in Phone : token'[q] = NoSid \/ token'[q] = token[q]
            BY <2>1 DEF Roam, RowsOK
        <3>3. ASSUME NEW w \in Worker, job[w].pc # "idle"
              PROVE  at'[PhoneOf[job[w].new]] = at[PhoneOf[job[w].new]]
            <4>1. job[w].new # at[p] /\ at[PhoneOf[job[w].new]] = job[w].new
                BY <2>1, <3>3 DEF Roam, NoJob, MovesInv, JobInv
            <4>2. PhoneOf[job[w].new] # p
                BY <4>1
            <4>3. QED
                BY <3>1, <4>2 DEF RowsOK
        <3>4. \A q \in Phone : PhoneOf[at'[q]] = q
            BY <3>1 DEF RowsOK, OwnInv
        <3>5. QED
            BY <3>2, <3>3, <3>4 DEF OwnInv
    <2>2. CASE PollByMac(p)
        <3>1. PICK i \in OwnerOf(at[p]) : token' = [token EXCEPT ![p] = i]
            BY <2>2 DEF PollByMac
        <3>2. at' = at /\ row[i].mac = at[p] /\ at[p] \in Mac /\ i \in Sid
            BY <2>2, <3>1 DEF PollByMac, OwnerOf, RowsOK
        <3>3. ASSUME NEW q \in Phone, token'[q] # NoSid
              PROVE  row[token'[q]].mac # NoMac /\ PhoneOf[row[token'[q]].mac] = q
            <4>1. CASE q = p
                BY <3>1, <3>2, <4>1, RoamingAssumption DEF RowsOK, OwnInv
            <4>2. CASE q # p
                BY <3>1, <3>3, <4>2 DEF RowsOK, OwnInv
            <4>3. QED
                BY <4>1, <4>2
        <3>4. QED
            BY <3>2, <3>3 DEF OwnInv
    <2>3. QED
        BY <2>1, <2>2
<1>6. OwnInv'
    BY <1>1, <1>5 DEF OwnInv
<1>7. MovesInv'
    <2>1. ASSUME NEW w \in Worker, job[w].pc # "idle"
          PROVE  /\ row'[job[w].id].mac = row[job[w].id].mac
                 /\ Active(job[w].id) => Active(job[w].id)'
                 /\ at'[PhoneOf[job[w].new]] = at[PhoneOf[job[w].new]]
                 /\ Quiet(w) => Quiet(w)'
                 /\ Settled(w) => Settled(w)'
        BY <1>1, <1>3, <1>5, <2>1 DEF Active, Quiet, Settled
    <2>2. QED
        BY <1>1, <2>1, MovesStay
<1>8. BootInv'
    BY <1>1 DEF BootInv, Quiet
<1>9. QED
    BY <1>4, <1>6, <1>7, <1>8

\* A poll finds its session elsewhere and starts a migration.
LEMMA AccessByPoll ==
    ASSUME Careful, TypeInv, AccessInv, NEW w \in Worker, NEW p \in Phone, Poll(w, p)
    PROVE  AccessInv'
<1> USE DEF TypeInv, AccessInv
<1>1. PICK r : r = [NoJob EXCEPT !.pc = "load", !.id = token[p], !.old = row[token[p]].mac, !.new = at[p]]
    OBVIOUS
<1>2. /\ job' = [job EXCEPT ![w] = r]
      /\ UNCHANGED <<nat, fwd, tracked, rebuilt, todo, hurt, row, at, token, registry, held, api>>
      /\ api = "up" /\ Free(w) /\ Lasting(token[p]) /\ Elsewhere(token[p], p)
    BY <1>1 DEF Poll, captiveVars, chains, rows, locks
<1>3. /\ r.pc = "load" /\ r.id = token[p] /\ r.old = row[token[p]].mac /\ r.new = at[p]
      /\ job'[w] = r /\ \A v \in Worker \ {w} : job'[v] = job[v]
    BY <1>1, <1>2 DEF NoJob, MigrationOK, Jobs
<1>4. ScriptInv' /\ DeviceInv'
    <2>1. \A m \in Mac : Wanted(m)' = Wanted(m)
        BY <1>2 DEF Wanted, OwnerOf, Active
    <2>2. QED
        BY <1>2, <2>1, DevicesStay
<1>5. OwnInv'
    BY <1>2 DEF OwnInv
<1>6. ASSUME NEW v \in Worker PROVE JobInv(v)'
    <2>1. CASE v = w
        <3>1. token[p] # NoSid /\ row[token[p]].status = "running" /\ row[token[p]].mac # at[p]
            BY <1>2 DEF Lasting, Elsewhere
        <3>2. PhoneOf[row[token[p]].mac] = p /\ PhoneOf[at[p]] = p
            BY <3>1 DEF OwnInv
        <3>3. Quiet(w)'
            BY <1>2 DEF Free, Idle, Quiet
        <3>4. QED
            BY <1>2, <1>3, <2>1, <3>1, <3>2, <3>3 DEF JobInv, Active, Inside
    <2>2. CASE v # w
        BY <1>2, <1>3, <2>2 DEF MovesInv, JobInv, Active, Quiet, Settled, OwnerOf, Inside
    <2>3. QED
        BY <2>1, <2>2
<1>7. MovesInv'
    BY <1>3, <1>6 DEF MovesInv, Inside
<1>8. BootInv'
    BY <1>2 DEF BootInv
<1>9. QED
    BY <1>4, <1>5, <1>7, <1>8

\* Sessions are ended where no script and no migration is.
LEMMA AccessByExpiry ==
    ASSUME Careful, TypeInv, AccessInv, NEW q \in Worker \cup {Enforcer}, ExpireOverdueSessions(q)
    PROVE  AccessInv'
<1> USE DEF TypeInv, AccessInv
<1>1. PICK s, M : s = CloseDue /\ M = {row[i].mac : i \in Due}
    OBVIOUS
<1>2. /\ row' = ExpiredRows /\ todo' = [todo EXCEPT ![q] = s]
      /\ UNCHANGED <<nat, fwd, tracked, rebuilt, hurt, at, token, job, registry, held, api>>
      /\ api = "up" /\ Quiet(q) /\ (q \in Worker => Free(q)) /\ Alone(M)
    BY <1>1 DEF ExpireOverdueSessions, chains, locks
<1>3. q \in Process /\ M \in SUBSET Mac
    BY <1>1, Processes, ActiveMacs
<1>4. \A i \in Sid : /\ row'[i].mac = row[i].mac
                     /\ i \in Due => ~Active(i)'
                     /\ i \notin Due => Active(i)' = Active(i)
                     /\ i \in Due <=> row[i].status = "due"
    BY <1>2 DEF ExpiredRows, Due, Active, RowsOK, Rows
<1>5. ASSUME NEW m \in Mac
      PROVE  /\ OwnerOf(m)' = OwnerOf(m)
             /\ IF m \in M THEN ~Wanted(m)' ELSE Wanted(m)' = Wanted(m)
    <2>1. OwnerOf(m)' = OwnerOf(m)
        BY <1>4 DEF OwnerOf
    <2>2. CASE m \in M
        <3>1. PICK i \in Due : row[i].mac = m /\ i \in Sid
            BY <1>1, <2>2 DEF Due
        <3>2. \A j \in OwnerOf(m) : j = i
            BY <3>1, RoamingAssumption DEF OwnInv, OwnerOf
        <3>3. QED
            BY <1>4, <2>1, <2>2, <3>1, <3>2 DEF Wanted
    <2>3. CASE m \notin M
        <3>1. \A j \in OwnerOf(m) : j \in Sid /\ j \notin Due
            BY <1>1, <2>3 DEF OwnerOf
        <3>2. QED
            BY <1>4, <2>1, <2>3, <3>1 DEF Wanted
    <2>4. QED
        BY <2>1, <2>2, <2>3
<1>6. ScriptInv' /\ DeviceInv'
    <2>1. s \in Seq(Command) /\ Ordered(s) /\ \A m \in Mac : Ahead(s, m) = IF m \in M THEN Close2 ELSE {}
        BY <1>1, <1>3, AheadOfUnauth, UnauthScript DEF Proper, CloseDue
    <2>2. \A m \in M : Nobody(m) /\ Stage(m, Close2)'
        BY <1>2, <1>3, <1>5, NobodyThere, StageSets DEF Alone, Stage
    <2>3. QED
        BY <1>2, <1>3, <1>5, <2>1, <2>2, StageSets, DevicesStart
<1>7. OwnInv'
    BY <1>2, <1>4, OwnStays
<1>8. MovesInv'
    <2>1. ASSUME NEW w \in Worker, job[w].pc # "idle"
          PROVE  /\ row'[job[w].id].mac = row[job[w].id].mac
                 /\ Active(job[w].id) => Active(job[w].id)'
                 /\ Quiet(w) => Quiet(w)'
                 /\ Settled(w) => Settled(w)'
        <3>1. /\ job[w].id \in Sid /\ job[w].new \in Mac
              /\ row[job[w].id].mac \in {job[w].old, job[w].new} /\ job' = job
            BY <1>2, <2>1 DEF MigrationOK, JobOK, MovesInv, JobInv
        <3>2. job[w].id \notin Due
            BY <1>1, <1>2, <3>1, NobodyThere
        <3>3. w # q
            BY <1>2, <2>1 DEF Free, Idle, NoJob
        <3>4. Quiet(w) => Quiet(w)'
            BY <1>2, <3>3, Processes DEF Quiet, RulesOK
        <3>5. OwnerOf(job[w].new)' = OwnerOf(job[w].new)
            BY <1>5, <3>1
        <3>6. Settled(w) => Settled(w)'
            BY <1>4, <3>1, <3>5 DEF Settled
        <3>7. QED
            BY <1>4, <3>1, <3>2, <3>4, <3>6 DEF Active
    <2>2. QED
        BY <1>2, <2>1, MovesStay
<1>9. BootInv'
    BY <1>2 DEF BootInv
<1>10. QED
    BY <1>6, <1>7, <1>8, <1>9

\* A refresh is for clients on the list, where nobody else is.
LEMMA AccessByRefresh ==
    ASSUME Careful, TypeInv, AccessInv, NEW q \in Process, Quiet(q), q \in Worker => Free(q),
           NoScript(tracked), api = "up", todo' = [todo EXCEPT ![q] = cmd_refresh],
           UNCHANGED <<nat, fwd, tracked, rebuilt, hurt, row, at, token, job, registry, held, api>>
    PROVE  AccessInv'
<1> USE DEF TypeInv, AccessInv
<1>1. PICK s : s = cmd_refresh
    OBVIOUS
<1>2. todo' = [todo EXCEPT ![q] = s] /\ tracked \subseteq Mac
    BY <1>1 DEF RulesOK
<1>3. \A m \in Mac : Wanted(m)' = Wanted(m)
    BY DEF Wanted, OwnerOf, Active
<1>4. ScriptInv' /\ DeviceInv'
    <2>1. /\ s \in Seq(Command) /\ Ordered(s)
          /\ \A m \in Mac : Ahead(s, m) = IF m \in tracked THEN Fresh3 ELSE {}
        BY <1>1, <1>2, AheadOfRefresh, RefreshScript
    <2>2. ASSUME NEW m \in tracked PROVE Nobody(m) /\ Stage(m, Fresh3)'
        <3>1. Nobody(m) /\ m \in Mac
            BY <1>2, NobodyThere
        <3>2. Wanted(m) \/ m \in hurt
            BY <3>1 DEF DeviceInv, Done
        <3>3. QED
            BY <1>3, <3>1, <3>2, StageSets DEF Stage
    <2>3. QED
        BY <1>2, <1>3, <2>1, <2>2, StageSets, DevicesStart
<1>5. OwnInv'
    BY DEF OwnInv
<1>6. MovesInv'
    <2>1. ASSUME NEW w \in Worker, job[w].pc # "idle"
          PROVE  /\ row'[job[w].id].mac = row[job[w].id].mac
                 /\ Active(job[w].id) => Active(job[w].id)'
                 /\ at'[PhoneOf[job[w].new]] = at[PhoneOf[job[w].new]]
                 /\ Quiet(w) => Quiet(w)'
                 /\ Settled(w) => Settled(w)'
        <3>1. w # q
            BY <2>1 DEF Free, Idle, NoJob
        <3>2. Quiet(w) => Quiet(w)'
            BY <3>1, Processes DEF Quiet, RulesOK
        <3>3. QED
            BY <3>2 DEF Active, Settled, OwnerOf
    <2>2. QED
        BY <2>1, MovesStay
<1>7. BootInv'
    BY DEF BootInv
<1>8. QED
    BY <1>4, <1>5, <1>6, <1>7

\* A step of a migration that leaves rows and rules alone.
LEMMA AccessByJob ==
    ASSUME AccessInv, MovesInv', api = "up" \/ \E w \in Worker : job[w] # NoJob,
           UNCHANGED <<nat, fwd, tracked, rebuilt, todo, hurt, row, at, token, api>>
    PROVE  AccessInv'
<1> USE DEF AccessInv
<1>1. \A m \in Mac : Wanted(m)' = Wanted(m)
    BY DEF Wanted, OwnerOf, Active
<1>2. ScriptInv' /\ DeviceInv'
    BY <1>1, DevicesStay
<1>3. OwnInv'
    BY DEF OwnInv
<1>4. BootInv'
    BY DEF BootInv
<1>5. QED
    BY <1>2, <1>3, <1>4

\* Another worker's migration goes on where the locks it needs stay.
LEMMA JobGoesOn ==
    ASSUME NEW v \in Worker, JobInv(v), UNCHANGED <<todo, row, at>>, job'[v] = job[v],
           Inside(v) /\ job[v].mu \in held => job[v].mu \in held',
           job[v].pc \in {"lock", "read", "move"} /\ job[v].mu = registry[job[v].id]
               => job[v].mu = registry'[job[v].id] \/ Settled(v)
    PROVE  JobInv(v)'
    BY DEF JobInv, Active, Quiet, Settled, OwnerOf, Inside

\* A migration takes the mutex of its session.
LEMMA AccessByLoad ==
    ASSUME Careful, TypeInv, AccessInv, NEW w \in Worker, LoadOrStore(w)
    PROVE  AccessInv'
<1> USE DEF TypeInv, AccessInv
<1>1. PICK u : /\ registry' = [registry EXCEPT ![job[w].id] = u]
               /\ job' = [job EXCEPT ![w].pc = "lock", ![w].mu = u]
               /\ registry[job[w].id] = NoMutex \/ u = registry[job[w].id]
    BY DEF LoadOrStore
<1>2. /\ job[w].pc = "load"
      /\ UNCHANGED <<nat, fwd, tracked, rebuilt, todo, hurt, row, at, token, held, api>>
    BY DEF LoadOrStore, captiveVars, chains, rows
<1>3. /\ job'[w].pc = "lock" /\ job'[w].mu = u /\ job'[w].id = job[w].id
      /\ job'[w].old = job[w].old /\ job'[w].new = job[w].new
      /\ \A v \in Worker \ {w} : job'[v] = job[v]
    <2>1. job[w] \in Job /\ job \in [Worker -> Job]
        BY DEF MigrationOK, Jobs
    <2>2. QED
        BY <1>1, <2>1 DEF Job
<1>4. job[w].id \in Sid /\ registry'[job[w].id] = u
    BY <1>1, <1>2 DEF MigrationOK, JobOK
<1>5. ASSUME NEW v \in Worker PROVE JobInv(v)'
    <2>1. CASE v = w
        BY <1>2, <1>3, <1>4, <2>1 DEF MovesInv, JobInv, Active, Quiet, Settled, OwnerOf, Inside
    <2>2. CASE v # w
        <3>1. ASSUME job[v].pc \in {"lock", "read", "move"}, job[v].mu = registry[job[v].id]
              PROVE  job[v].mu = registry'[job[v].id]
            <4>1. job[v].mu # NoMutex /\ job[v].id \in Sid
                BY <3>1, RoamingAssumption DEF MigrationOK, JobOK
            <4>2. QED
                BY <1>1, <1>4, <3>1, <4>1 DEF MigrationOK
        <3>2. QED
            BY <1>2, <1>3, <2>2, <3>1, JobGoesOn DEF MovesInv
    <2>3. QED
        BY <2>1, <2>2
<1>6. MovesInv'
    BY <1>3, <1>5 DEF MovesInv, Inside
<1>7. job[w] # NoJob
    BY <1>2 DEF NoJob
<1>8. QED
    BY <1>2, <1>6, <1>7, AccessByJob

\* It gets it alone, and reads the row under it.
LEMMA AccessByLock ==
    ASSUME Careful, TypeInv, AccessInv, NEW w \in Worker, Lock(w) \/ ReadRow(w) \/ MigrateFails(w)
    PROVE  AccessInv'
<1> USE DEF TypeInv, AccessInv
<1>1. PICK pc : /\ Going(w, pc)
                /\ \/ job[w].pc = "lock" /\ pc = "read" /\ job[w].mu \notin held
                      /\ held' = held \cup {job[w].mu}
                   \/ job[w].pc = "read" /\ pc = "move" /\ row[job[w].id].mac # job[w].new /\ held' = held
                   \/ job[w].pc \in {"read", "move"} /\ pc = "unlock" /\ Settled(w) /\ held' = held
    <2>1. CASE Lock(w)
        BY <2>1 DEF Lock
    <2>2. CASE ReadRow(w)
        <3>1. job[w].pc = "read" /\ held' = held
            BY <2>2 DEF ReadRow, locks
        <3>2. Active(job[w].id)
            BY <3>1 DEF MovesInv, JobInv
        <3>3. QED
            BY <2>2, <3>1, <3>2 DEF ReadRow, Settled
    <2>3. CASE MigrateFails(w)
        BY <2>3 DEF MigrateFails, MayMoveTo, Settled, locks
    <2>4. QED
        BY <2>1, <2>2, <2>3
<1>2. /\ job[w].pc \in {"lock", "read", "move"}
      /\ UNCHANGED <<nat, fwd, tracked, rebuilt, todo, hurt, row, at, token, registry, api>>
    BY DEF Lock, ReadRow, MigrateFails, captiveVars, chains, rows, locks
<1>3. /\ job'[w].pc = pc /\ job'[w].mu = job[w].mu /\ job'[w].id = job[w].id
      /\ job'[w].old = job[w].old /\ job'[w].new = job[w].new
      /\ \A v \in Worker \ {w} : job'[v] = job[v]
    <2>1. job[w] \in Job /\ job \in [Worker -> Job]
        BY DEF MigrationOK, Jobs
    <2>2. QED
        BY <1>1, <2>1 DEF Job, Going
<1>4. held \subseteq held'
    BY <1>1
<1>5. ASSUME NEW v \in Worker PROVE JobInv(v)'
    <2>1. CASE v = w
        <3>1. JobInv(w) /\ Settled(w)' = Settled(w) /\ Quiet(w)' = Quiet(w)
            BY <1>2, <1>3 DEF MovesInv, Settled, OwnerOf, Quiet
        <3>2. job[w].mu \in held'
            BY <1>1, <3>1 DEF JobInv, Inside
        <3>3. QED
            BY <1>1, <1>2, <1>3, <2>1, <3>1, <3>2 DEF JobInv, Active, Inside
    <2>2. CASE v # w
        BY <1>2, <1>3, <1>4, <2>2, JobGoesOn DEF MovesInv
    <2>3. QED
        BY <2>1, <2>2
<1>6. ASSUME NEW v \in Worker, v # w, Inside(v) PROVE job[v].mu # job[w].mu
    <2>1. job[v].mu \in held
        BY <1>6 DEF MovesInv, JobInv, Inside
    <2>2. Inside(w) \/ job[w].mu \notin held
        BY <1>1 DEF Inside
    <2>3. QED
        BY <1>6, <2>1, <2>2 DEF MovesInv
<1>7. MovesInv'
    <2>1. ASSUME NEW v \in Worker, NEW x \in Worker, v # x, Inside(v)', Inside(x)'
          PROVE  job'[v].mu # job'[x].mu
        <3>1. CASE v = w
            BY <1>3, <1>6, <2>1, <3>1 DEF Inside
        <3>2. CASE x = w
            BY <1>3, <1>6, <2>1, <3>2 DEF Inside
        <3>3. CASE v # w /\ x # w
            BY <1>3, <2>1, <3>3 DEF MovesInv, Inside
        <3>4. QED
            BY <3>1, <3>2, <3>3
    <2>2. \A v \in Worker : job'[v].pc = "idle" => job'[v] = NoJob
        BY <1>1, <1>3 DEF MovesInv
    <2>3. QED
        BY <1>5, <2>1, <2>2 DEF MovesInv
<1>8. job[w] # NoJob
    BY <1>2 DEF NoJob
<1>9. QED
    BY <1>2, <1>7, <1>8, AccessByJob

\* Two migrations of one session, or of one phone, take it to one address.
LEMMA SameWay ==
    ASSUME NEW v \in Worker, NEW w \in Worker, JobInv(v), JobInv(w), job[v].pc # "idle", job[w].pc # "idle"
    PROVE  /\ PhoneOf[job[v].new] = PhoneOf[job[w].new] => job[v].new = job[w].new
           /\ job[v].id = job[w].id => job[v].new = job[w].new
    BY DEF JobInv

\* A migration that is over leaves no work to those that waited for its mutex.
LEMMA AccessByUnlock ==
    ASSUME Careful, TypeInv, AccessInv, NEW w \in Worker, Unlock(w) \/ Forget(w)
    PROVE  AccessInv'
<1> USE DEF TypeInv, AccessInv
<1>1. /\ UNCHANGED <<nat, fwd, tracked, rebuilt, todo, hurt, row, at, token, api>>
      /\ job[w].pc \in {"unlock", "forget"} /\ Quiet(w) /\ Settled(w)
    BY DEF Unlock, Forget, captiveVars, chains, rows, MovesInv, JobInv
<1>2. /\ ~Inside(w)' /\ \A v \in Worker \ {w} : job'[v] = job[v]
      /\ \/ job'[w].pc = "idle" /\ job'[w] = NoJob
         \/ /\ job'[w].pc = "forget" /\ job'[w].id = job[w].id
            /\ job'[w].old = job[w].old /\ job'[w].new = job[w].new
    <2>1. job[w] \in Job /\ job \in [Worker -> Job]
        BY DEF MigrationOK, Jobs
    <2>2. CASE Unlock(w)
        <3>1. job' = [job EXCEPT ![w].pc = "forget", ![w].mu = NoMutex]
            BY <2>2 DEF Unlock
        <3>2. QED
            BY <2>1, <3>1 DEF Job, Inside
    <2>3. CASE Forget(w)
        <3>1. job' = [job EXCEPT ![w] = NoJob]
            BY <2>3 DEF Forget
        <3>2. job'[w] = NoJob /\ \A v \in Worker \ {w} : job'[v] = job[v]
            BY <2>1, <3>1
        <3>3. QED
            BY <3>2 DEF NoJob, Inside
    <2>4. QED
        BY <2>2, <2>3
<1>3. ASSUME NEW v \in Worker PROVE JobInv(v)'
    <2>1. CASE v = w
        <3>1. JobInv(w) /\ job[w].pc # "idle"
            BY <1>1 DEF MovesInv
        <3>2. QED
            BY <1>1, <1>2, <2>1, <3>1 DEF JobInv, Active, Quiet, Settled, OwnerOf, Inside
    <2>2. CASE v # w
        <3>1. ASSUME Inside(v), job[v].mu \in held PROVE job[v].mu \in held'
            <4>1. CASE Unlock(w)
                <5>1. held' = held \ {job[w].mu} /\ Inside(w)
                    BY <4>1 DEF Unlock, Inside
                <5>2. QED
                    BY <2>2, <3>1, <5>1 DEF MovesInv
            <4>2. CASE Forget(w)
                BY <3>1, <4>2 DEF Forget
            <4>3. QED
                BY <4>1, <4>2
        <3>2. ASSUME job[v].pc \in {"lock", "read", "move"}, job[v].mu = registry[job[v].id]
              PROVE  job[v].mu = registry'[job[v].id] \/ Settled(v)
            <4>1. CASE job[v].id = job[w].id
                <5>1. job[v].new = job[w].new
                    BY <1>1, <3>2, <4>1, SameWay DEF MovesInv
                <5>2. QED
                    BY <1>1, <4>1, <5>1 DEF Settled
            <4>2. CASE job[v].id # job[w].id
                BY <3>2, <4>2 DEF Unlock, Forget, MigrationOK, JobOK
            <4>3. QED
                BY <4>1, <4>2
        <3>3. QED
            BY <1>1, <1>2, <2>2, <3>1, <3>2, JobGoesOn DEF MovesInv
    <2>3. QED
        BY <2>1, <2>2
<1>4. MovesInv'
    BY <1>2, <1>3 DEF MovesInv, Inside
<1>5. job[w] # NoJob
    BY <1>1 DEF NoJob
<1>6. QED
    BY <1>1, <1>4, <1>5, AccessByJob

\* The transaction moves the session to an address without a row; others of the same
\* session have still to read the row, and none is at work at the two addresses.
LEMMA AccessByMigrate ==
    ASSUME Careful, TypeInv, AccessInv, NEW w \in Worker, Migrate(w)
    PROVE  AccessInv'
<1> USE DEF TypeInv, AccessInv
<1>1. PICK i, old, new, s : /\ i = job[w].id /\ old = job[w].old /\ new = job[w].new
                            /\ s = cmd_unauth({old}) \o cmd_auth({new})
    OBVIOUS
<1>2. /\ job[w].pc = "move" /\ i \in Sid /\ old \in Mac /\ new \in Mac
      /\ OwnerOf(new) \ {i} = {}
      /\ \A q \in Process : Worked(q) \cap {old, new} = {} \/ (q \in Worker /\ job[q].id = i)
      /\ todo' = [todo EXCEPT ![w] = s] /\ Going(w, "unlock")
      /\ row' = [j \in Sid |-> IF j = i THEN [row[i] EXCEPT !.mac = new]
                               ELSE IF row[j].mac = new THEN [mac |-> NoMac, status |-> "ended"]
                               ELSE row[j]]
      /\ UNCHANGED <<nat, fwd, tracked, rebuilt, hurt, at, token, registry, held, api>>
    BY <1>1 DEF Migrate, MayMoveTo, chains, locks, MigrationOK, JobOK
<1>3. /\ Active(i) /\ row[i].mac = old /\ old # new /\ PhoneOf[old] = PhoneOf[new]
      /\ at[PhoneOf[new]] = new /\ Quiet(w) /\ JobInv(w) /\ ~Settled(w)
    BY <1>1, <1>2 DEF MovesInv, JobInv, Settled
<1>4. OwnerOf(new) = {} /\ OwnerOf(old) = {i}
    <2>1. OwnerOf(new) = {}
        BY <1>2, <1>3 DEF OwnerOf
    <2>2. OwnerOf(old) = {i}
        BY <1>2, <1>3, RoamingAssumption DEF OwnerOf, OwnInv
    <2>3. QED
        BY <2>1, <2>2
<1>5. /\ row'[i].mac = new /\ row'[i].status = row[i].status
      /\ \A j \in Sid \ {i} : row'[j] = row[j]
    BY <1>2, <1>4 DEF RowsOK, Rows, OwnerOf
<1>6. /\ job'[w].pc = "unlock" /\ job'[w].mu = job[w].mu /\ job'[w].id = i
      /\ job'[w].old = old /\ job'[w].new = new
      /\ \A v \in Worker \ {w} : job'[v] = job[v]
    <2>1. job[w] \in Job /\ job \in [Worker -> Job]
        BY DEF MigrationOK, Jobs
    <2>2. QED
        BY <1>1, <1>2, <2>1 DEF Job, Going
<1>7. ASSUME NEW v \in Worker, v # w, job[v].pc # "idle", job[v].id = i
      PROVE  job[v].pc \in {"load", "lock"} /\ Quiet(v) /\ job[v].new = new
    <2>1. JobInv(v) /\ job[v].new = new
        BY <1>1, <1>2, <1>3, <1>7, SameWay DEF MovesInv
    <2>2. ~Settled(v)
        BY <1>1, <1>3, <1>7, <2>1 DEF Settled
    <2>3. job[v].pc \notin {"read", "move"}
        <3>1. SUFFICES ASSUME job[v].pc \in {"read", "move"} PROVE FALSE
            OBVIOUS
        <3>2. job[v].mu = registry[i] /\ job[w].mu = registry[i]
            BY <1>1, <1>2, <1>3, <1>7, <2>1, <2>2, <3>1 DEF JobInv
        <3>3. QED
            BY <1>2, <1>7, <3>1, <3>2 DEF MovesInv, Inside
    <2>4. job[v].pc \notin {"unlock", "forget"} /\ Quiet(v)
        BY <1>7, <2>1, <2>2 DEF JobInv
    <2>5. job[v].pc \in {"idle", "load", "lock", "read", "move", "unlock", "forget"}
        BY DEF MigrationOK, Jobs, Job
    <2>6. QED
        BY <1>7, <2>1, <2>3, <2>4, <2>5
<1>8. Nobody(old) /\ Nobody(new)
    <2>1. ASSUME NEW q \in Process PROVE Ahead(todo[q], old) = {} /\ Ahead(todo[q], new) = {}
        <3>1. CASE Worked(q) \cap {old, new} = {}
            BY <3>1, AheadWorked
        <3>2. CASE q \in Worker /\ job[q].id = i
            <4>1. Quiet(q)
                <5>1. job[q].pc # "idle"
                    BY <1>2, <3>2, RoamingAssumption DEF MovesInv, NoJob
                <5>2. QED
                    BY <1>3, <1>7, <3>2, <5>1
            <4>2. QED
                BY <4>1, NothingAhead DEF Quiet
        <3>3. QED
            BY <1>2, <3>1, <3>2
    <2>2. QED
        BY <2>1 DEF Nobody
<1>9. ASSUME NEW m \in Mac
      PROVE  /\ m # old => OwnerOf(m) \subseteq OwnerOf(m)'
             /\ Wanted(m)' = IF m = old THEN FALSE ELSE m = new \/ Wanted(m)
    <2>1. CASE m = old
        <3>1. \A j \in Sid : row'[j].mac # old
            BY <1>3, <1>4, <1>5 DEF OwnerOf
        <3>2. QED
            BY <2>1, <3>1 DEF Wanted, OwnerOf
    <2>2. CASE m = new
        <3>1. i \in OwnerOf(m)' /\ Active(i)'
            BY <1>2, <1>3, <1>5, <2>2 DEF OwnerOf, Active
        <3>2. QED
            BY <1>3, <1>4, <2>2, <3>1 DEF Wanted
    <2>3. CASE m # old /\ m # new
        <3>1. OwnerOf(m)' = OwnerOf(m) /\ i \notin OwnerOf(m)
            BY <1>3, <1>5, <2>3 DEF OwnerOf
        <3>2. \A j \in OwnerOf(m) : Active(j)' = Active(j)
            BY <1>5, <3>1 DEF Active, OwnerOf
        <3>3. QED
            BY <2>3, <3>1, <3>2 DEF Wanted
    <2>4. QED
        BY <2>1, <2>2, <2>3
<1>10. ScriptInv' /\ DeviceInv'
    <2>1. PICK a, b : a = cmd_unauth({old}) /\ b = cmd_auth({new})
        OBVIOUS
    <2>2. /\ a \in Seq(Command) /\ Ordered(a) /\ \A m \in Mac : Ahead(a, m) = IF m = old THEN Close2 ELSE {}
          /\ b \in Seq(Command) /\ Ordered(b) /\ \A m \in Mac : Ahead(b, m) = IF m = new THEN Open5 ELSE {}
        BY <1>2, <2>1, AheadOfUnauth, UnauthScript, AheadOfAuth, AuthScript DEF Proper
    <2>3. /\ s \in Seq(Command) /\ Ordered(s)
          /\ \A m \in Mac : Ahead(s, m) = IF m = old THEN Close2 ELSE IF m = new THEN Open5 ELSE {}
        <3>1. \A m \in Mac : Ahead(a, m) = {} \/ Ahead(b, m) = {}
            BY <1>3, <2>2
        <3>2. Ordered(a \o b) /\ \A m \in Mac : Ahead(a \o b, m) = Ahead(a, m) \cup Ahead(b, m)
            BY <2>2, <3>1, AheadJoined
        <3>3. s = a \o b
            BY <1>1, <2>1
        <3>4. a \in Seq(Command) /\ b \in Seq(Command)
            BY <2>2
        <3>5. a \o b \in Seq(Command)
            BY <3>4
        <3>6. QED
            BY <1>3, <2>2, <3>2, <3>3, <3>5
    <2>4. Stage(old, Close2)' /\ Stage(new, Open5)'
        BY <1>2, <1>3, <1>9, StageSets DEF Stage
    <2>5. \A m \in Mac : IF Ahead(s, m) = {}
                         THEN Wanted(m)' = Wanted(m) /\ (api = "boot" => api' = "boot" \/ ~Wanted(m))
                         ELSE Nobody(m) /\ Stage(m, Ahead(s, m))'
        <3>1. ASSUME NEW m \in Mac, m # old, m # new
              PROVE  Ahead(s, m) = {} /\ Wanted(m)' = Wanted(m)
            <4>1. Ahead(s, m) = {}
                BY <2>3, <3>1
            <4>2. Wanted(m)' = IF m = old THEN FALSE ELSE m = new \/ Wanted(m)
                BY <1>9
            <4>3. Wanted(m)' = Wanted(m)
                BY <3>1, <4>2 DEF Wanted
            <4>4. QED
                BY <4>1, <4>3
        <3>2. Ahead(s, old) = Close2 /\ Ahead(s, new) = Open5 /\ Close2 # {} /\ Open5 # {}
            BY <1>2, <1>3, <2>3, StageSets
        <3>3. QED
            BY <1>2, <1>8, <2>4, <3>1, <3>2
    <2>6. w \in Process
        BY Processes
    <2>7. QED
        BY <1>2, <1>3, <2>3, <2>5, <2>6, DevicesStart
<1>11. OwnInv'
    <2>1. \A j, k \in Sid : row'[j].mac = row'[k].mac /\ row'[j].mac # NoMac => j = k
        BY <1>4, <1>5 DEF OwnInv, OwnerOf
    <2>2. ASSUME NEW p \in Phone, token[p] # NoSid
          PROVE  row'[token[p]].mac # NoMac /\ PhoneOf[row'[token[p]].mac] = p
        <3>1. token[p] \in Sid /\ row[token[p]].mac # NoMac /\ PhoneOf[row[token[p]].mac] = p
            BY <2>2 DEF RowsOK, OwnInv
        <3>2. QED
            BY <1>2, <1>3, <1>5, <3>1, RoamingAssumption
    <2>3. QED
        BY <1>2, <2>1, <2>2 DEF OwnInv
<1>12. ASSUME NEW v \in Worker, v # w PROVE JobInv(v)'
    <2>1. SUFFICES ASSUME job[v].pc # "idle" PROVE JobInv(v)'
        BY <1>6, <1>12 DEF JobInv
    <2>2. JobInv(v) /\ job'[v] = job[v] /\ job[v].id \in Sid /\ job[v].new \in Mac
        BY <1>6, <1>12, <2>1 DEF MovesInv, MigrationOK, JobOK
    <2>3. Quiet(v)' = Quiet(v) /\ Active(job[v].id)' = Active(job[v].id)
        <3>1. todo'[v] = todo[v]
            BY <1>2, <1>12, Processes DEF RulesOK
        <3>2. row'[job[v].id].status = row[job[v].id].status
            BY <1>5, <2>2
        <3>3. QED
            BY <2>2, <3>1, <3>2 DEF Quiet, Active
    <2>4. CASE job[v].id = i
        <3>1. job[v].pc \in {"load", "lock"} /\ job[v].new = new /\ row'[i].mac = new
            BY <1>5, <1>7, <1>12, <2>1, <2>4
        <3>2. Settled(v)'
            BY <2>2, <2>4, <3>1 DEF Settled
        <3>3. QED
            BY <1>2, <2>2, <2>3, <2>4, <3>1, <3>2 DEF JobInv, Inside
    <2>5. CASE job[v].id # i
        <3>1. row'[job[v].id] = row[job[v].id]
            BY <1>5, <2>2, <2>5
        <3>2. job[v].new # old
            <4>1. SUFFICES ASSUME job[v].new = old PROVE FALSE
                OBVIOUS
            <4>2. job[v].new = new
                BY <1>1, <1>2, <1>3, <2>1, <2>2, <4>1, SameWay
            <4>3. QED
                BY <1>3, <4>1, <4>2
        <3>3. OwnerOf(job[v].new) \subseteq OwnerOf(job[v].new)'
            BY <1>9, <2>2, <3>2
        <3>4. Settled(v) => Settled(v)'
            BY <2>2, <3>1, <3>3 DEF Settled
        <3>5. QED
            BY <1>2, <2>2, <2>3, <3>1, <3>4 DEF JobInv, Inside
    <2>6. QED
        BY <2>4, <2>5
<1>13. JobInv(w)'
    <2>1. Settled(w)'
        BY <1>5, <1>6 DEF Settled
    <2>2. job[w].mu \in held
        BY <1>2, <1>3 DEF JobInv, Inside
    <2>3. QED
        BY <1>2, <1>3, <1>5, <1>6, <2>1, <2>2 DEF JobInv, Inside, Active, Settled
<1>14. MovesInv'
    <2>1. \A v \in Worker : Inside(v)' => Inside(v) /\ job'[v].mu = job[v].mu
        BY <1>2, <1>6 DEF Inside
    <2>2. \A v \in Worker : job'[v].pc = "idle" => job'[v] = NoJob
        BY <1>6 DEF MovesInv
    <2>3. QED
        BY <1>12, <1>13, <2>1, <2>2 DEF MovesInv
<1>15. BootInv'
    <2>1. job[w] # NoJob
        BY <1>2 DEF NoJob
    <2>2. QED
        BY <1>2, <2>1 DEF BootInv
<1>16. QED
    BY <1>10, <1>11, <1>14, <1>15

\* A command runs.
LEMMA AccessByRun ==
    ASSUME TypeInv, AccessInv, NEW q \in Process, ScriptStep(q)
    PROVE  AccessInv'
<1> USE DEF TypeInv, AccessInv
<1>1. Run(q) /\ UNCHANGED <<row, token, at, job, registry, held, api, hurt>>
    BY DEF ScriptStep, rows, locks
<1>2. ScriptInv' /\ DeviceInv'
    BY <1>1, DevicesRun
<1>3. OwnInv'
    BY <1>1 DEF OwnInv
<1>4. ~Quiet(q) /\ \A r \in Process \ {q} : todo'[r] = todo[r]
    BY <1>1 DEF Run, Quiet, RulesOK
<1>5. MovesInv'
    <2>1. ASSUME NEW w \in Worker, job[w].pc # "idle"
          PROVE  /\ row'[job[w].id].mac = row[job[w].id].mac
                 /\ Active(job[w].id) => Active(job[w].id)'
                 /\ at'[PhoneOf[job[w].new]] = at[PhoneOf[job[w].new]]
                 /\ Quiet(w) => Quiet(w)'
                 /\ Settled(w) => Settled(w)'
        <3>1. Quiet(w) => Quiet(w)'
            BY <1>4, Processes DEF Quiet
        <3>2. QED
            BY <1>1, <3>1 DEF Active, Settled, OwnerOf
    <2>2. QED
        BY <1>1, <2>1, MovesStay
<1>6. BootInv'
    BY <1>1, <1>4 DEF BootInv, Quiet
<1>7. QED
    BY <1>2, <1>3, <1>5, <1>6

\* A crash cuts scripts and migrations off.
LEMMA AccessByCut ==
    ASSUME TypeInv, AccessInv, Crash \/ PowerCut
    PROVE  AccessInv'
<1> USE DEF TypeInv, AccessInv
<1>1. /\ UNCHANGED <<row, token, at>> /\ api' = "boot"
      /\ job' = [w \in Worker |-> NoJob] /\ todo' = [q \in Process |-> <<>>]
    BY DEF Crash, PowerCut, Cut, rows
<1>2. ScriptInv' /\ DeviceInv'
    BY DevicesCut
<1>3. OwnInv'
    BY <1>1 DEF OwnInv
<1>4. MovesInv'
    <2>1. \A w \in Worker : job'[w] = NoJob /\ job'[w].pc = "idle"
        BY <1>1 DEF NoJob
    <2>2. QED
        BY <2>1 DEF MovesInv, JobInv, Inside
<1>5. BootInv'
    BY <1>1 DEF BootInv, Quiet
<1>6. QED
    BY <1>2, <1>3, <1>4, <1>5

\* The recovery closes what is overdue and opens what runs.
LEMMA AccessByRecover ==
    ASSUME TypeInv, AccessInv, Recover
    PROVE  AccessInv'
<1> USE DEF TypeInv, AccessInv
<1>1. PICK a, b, s, M, R : /\ a = CloseDue /\ b = OpenRunning /\ s = a \o b
                           /\ M = {row[i].mac : i \in Due} /\ R = Running
    OBVIOUS
<1>2. /\ row' = ExpiredRows /\ todo' = [todo EXCEPT ![Enforcer] = s]
      /\ api = "boot" /\ api' = "recovering"
      /\ UNCHANGED <<nat, fwd, tracked, rebuilt, hurt, at, token, job, registry, held>>
    BY <1>1 DEF Recover, Recovery, chains, locks
<1>3. /\ M \in SUBSET Mac /\ R \in SUBSET Mac /\ Enforcer \in Process
      /\ \A q \in Process : Quiet(q)
      /\ \A w \in Worker : job[w] = NoJob
    BY <1>1, <1>2, Processes, ActiveMacs DEF BootInv
<1>4. \A i \in Sid : /\ row'[i].mac = row[i].mac
                     /\ row'[i].status \in {"running", "due"} <=> row[i].status = "running"
                     /\ i \in Due <=> row[i].status = "due"
    BY <1>2 DEF ExpiredRows, Due, RowsOK, Rows
<1>5. ASSUME NEW m \in Mac
      PROVE  /\ m \in M => m \notin R
             /\ Wanted(m)' <=> m \in R
             /\ Wanted(m) <=> m \in R \/ m \in M
    <2>1. m \in R <=> \E i \in Sid : row[i].mac = m /\ row[i].status = "running"
        BY <1>1 DEF Running
    <2>2. m \in M <=> \E i \in Sid : row[i].mac = m /\ row[i].status = "due"
        BY <1>1 DEF Due
    <2>3. Wanted(m)' <=> \E i \in Sid : row'[i].mac = m /\ row'[i].status \in {"running", "due"}
        BY DEF Wanted, OwnerOf, Active
    <2>4. Wanted(m) <=> \E i \in Sid : row[i].mac = m /\ row[i].status \in {"running", "due"}
        BY DEF Wanted, OwnerOf, Active
    <2>5. \A i, j \in Sid : row[i].mac = m /\ row[j].mac = m => i = j
        BY RoamingAssumption DEF OwnInv
    <2>6. QED
        BY <1>4, <2>1, <2>2, <2>3, <2>4, <2>5
<1>6. /\ s \in Seq(Command) /\ Ordered(s)
      /\ \A m \in Mac : Ahead(s, m) = IF m \in M THEN Close2 ELSE IF m \in R THEN Open5 ELSE {}
    <2>1. /\ a \in Seq(Command) /\ Ordered(a) /\ \A m \in Mac : Ahead(a, m) = IF m \in M THEN Close2 ELSE {}
          /\ b \in Seq(Command) /\ Ordered(b) /\ \A m \in Mac : Ahead(b, m) = IF m \in R THEN Open5 ELSE {}
        BY <1>1, <1>3, AheadOfUnauth, UnauthScript, AheadOfAuth, AuthScript
        DEF Proper, CloseDue, OpenRunning
    <2>2. \A m \in Mac : Ahead(a, m) = {} \/ Ahead(b, m) = {}
        BY <1>5, <2>1
    <2>3. Ordered(a \o b) /\ \A m \in Mac : Ahead(a \o b, m) = Ahead(a, m) \cup Ahead(b, m)
        BY <2>1, <2>2, AheadJoined
    <2>4. a \in Seq(Command) /\ b \in Seq(Command)
        BY <2>1
    <2>5. a \o b \in Seq(Command)
        BY <2>4
    <2>6. ASSUME NEW m \in Mac
          PROVE  Ahead(s, m) = IF m \in M THEN Close2 ELSE IF m \in R THEN Open5 ELSE {}
        <3>1. s = a \o b
            BY <1>1
        <3>2. Ahead(a \o b, m) = Ahead(a, m) \cup Ahead(b, m)
            BY <2>3
        <3>3. /\ Ahead(a, m) = IF m \in M THEN Close2 ELSE {}
              /\ Ahead(b, m) = IF m \in R THEN Open5 ELSE {}
              /\ m \in M => m \notin R
            BY <1>5, <2>1
        <3>4. QED
            BY <3>1, <3>2, <3>3
    <2>7. QED
        BY <1>1, <2>3, <2>5, <2>6
<1>7. ScriptInv' /\ DeviceInv'
    <2>1. \A m \in Mac : Nobody(m)
        BY <1>3, NothingAhead DEF Nobody, Quiet
    <2>2. \A m \in Mac : (m \in M => Stage(m, Close2)') /\ (m \in R => Stage(m, Open5)')
        BY <1>5, StageSets DEF Stage
    <2>3. ASSUME NEW m \in Mac
          PROVE  IF Ahead(s, m) = {}
                 THEN Wanted(m)' = Wanted(m) /\ (api = "boot" => api' = "boot" \/ ~Wanted(m))
                 ELSE Nobody(m) /\ Stage(m, Ahead(s, m))'
        <3>1. CASE m \in M
            <4>1. Ahead(s, m) = Close2
                BY <1>6, <3>1
            <4>2. QED
                BY <2>1, <2>2, <3>1, <4>1, StageSets
        <3>2. CASE m \in R /\ m \notin M
            <4>1. Ahead(s, m) = Open5
                BY <1>6, <3>2
            <4>2. QED
                BY <2>1, <2>2, <3>2, <4>1, StageSets
        <3>3. CASE m \notin R /\ m \notin M
            <4>1. Ahead(s, m) = {}
                BY <1>6, <3>3
            <4>2. Wanted(m)' = FALSE /\ Wanted(m) = FALSE
                BY <1>5, <3>3 DEF Wanted
            <4>3. QED
                BY <4>1, <4>2
        <3>4. QED
            BY <3>1, <3>2, <3>3
    <2>4. QED
        BY <1>2, <1>3, <1>6, <2>3, DevicesStart
<1>8. OwnInv'
    BY <1>2, <1>4, OwnStays
<1>9. MovesInv'
    <2>1. \A w \in Worker : job'[w] = NoJob /\ job'[w].pc = "idle"
        BY <1>2, <1>3 DEF NoJob
    <2>2. QED
        BY <2>1 DEF MovesInv, JobInv, Inside
<1>10. BootInv'
    BY <1>2, <1>3 DEF BootInv, Quiet, RulesOK
<1>11. QED
    BY <1>7, <1>8, <1>9, <1>10

\* The API serves requests once the recovery is through.
LEMMA AccessByServe ==
    ASSUME TypeInv, AccessInv, Serve
    PROVE  AccessInv'
<1> USE DEF TypeInv, AccessInv
<1>1. /\ UNCHANGED <<nat, fwd, tracked, rebuilt, todo, hurt, row, at, token, job, registry, held>>
      /\ api = "recovering" /\ api' = "up"
    BY DEF Serve, captiveVars, chains, rows, locks
<1>2. ScriptInv' /\ DeviceInv'
    <2>1. \A m \in Mac : Wanted(m)' = Wanted(m)
        BY <1>1 DEF Wanted, OwnerOf, Active
    <2>2. QED
        BY <1>1, <2>1, DevicesStay
<1>3. OwnInv'
    BY <1>1 DEF OwnInv
<1>4. MovesInv'
    BY <1>1 DEF MovesInv, JobInv, Active, Quiet, Settled, OwnerOf, Inside
<1>5. BootInv'
    BY <1>1 DEF BootInv
<1>6. QED
    BY <1>2, <1>3, <1>4, <1>5

\* Every step keeps what is known of access, if operation is careful.
LEMMA AccessKept ==
    ASSUME Careful, TypeInv, AccessInv, [Next]_vars
    PROVE  AccessInv'
<1> USE DEF captiveVars, rows, locks
<1>1. CASE UNCHANGED vars
    BY <1>1, AccessStays DEF vars
<1>2. ASSUME NEW w \in Worker, NEW p \in Phone,
             PayOwnRow(w, p) \/ PayNewRow(w, p) \/ PayRefused(w, p) \/ Poll(w, p)
      PROVE  AccessInv'
    <2>1. CASE PayRefused(w, p)
        BY <2>1, AccessStays DEF PayRefused
    <2>2. QED
        BY <1>2, <2>1, AccessByPay, AccessByPoll
<1>3. ASSUME NEW w \in Worker, Refresh(w)
      PROVE  AccessInv'
    <2>1. Free(w) => Quiet(w)
        BY DEF Free, Idle
    <2>2. QED
        BY <1>3, <2>1, Processes, AccessByRefresh DEF Refresh, chains
<1>4. ASSUME NEW w \in Worker, Migration(w)
      PROVE  AccessInv'
    BY <1>4, AccessByLoad, AccessByLock, AccessByMigrate, AccessByUnlock DEF Migration
<1>5. ASSUME NEW p \in Phone, Roam(p) \/ PollByMac(p)
      PROVE  AccessInv'
    BY <1>5, AccessByPhone
<1>6. ASSUME NEW i \in Sid, TimeUp(i)
      PROVE  AccessInv'
    BY <1>6, AccessByTimeUp
<1>7. CASE Expiry
    BY <1>7, AccessByExpiry DEF Expiry
<1>8. ASSUME NEW q \in Process, ScriptStep(q)
      PROVE  AccessInv'
    BY <1>8, AccessByRun
<1>9. CASE WatchPass
    <2>1. CASE PassRefreshes /\ NoScript(tracked)
        <3>1. Watcher \notin Worker
            BY RoamingAssumption
        <3>2. QED
            BY <1>9, <2>1, <3>1, Processes, AccessByRefresh DEF WatchPass, PassRefreshes, chains
    <2>2. CASE PassResets \/ PassCounts \/ PassRecords
        BY <1>9, <2>2, AccessStays DEF WatchPass, PassResets, PassCounts, PassRecords
    <2>3. QED
        BY <1>9, <2>1, <2>2 DEF WatchPass
<1>10. CASE IspChange /\ UNCHANGED <<rows, at, job, locks, api, hurt, bounds>>
    BY <1>10, AccessStays DEF IspChange
<1>11. CASE Crash \/ PowerCut
    BY <1>11, AccessByCut
<1>12. CASE Recover \/ Serve
    BY <1>12, AccessByRecover, AccessByServe
<1>13. QED
    BY <1>1, <1>2, <1>3, <1>4, <1>5, <1>6, <1>7, <1>8, <1>9, <1>10, <1>11, <1>12 DEF Next

\* It holds at first.
LEMMA InitAccess ==
    ASSUME Init
    PROVE  AccessInv
<1>1. PICK status \in [Mac -> {"none", "running", "ended"}] : row = RowsOf(status)
    BY DEF Init
<1> DEFINE owned == {m \in Mac : status[m] # "none"}
           id == CHOOSE f \in [owned -> Sid] : IsInjective(f)
           r(i) == IF \E m \in owned : id[m] = i
                   THEN LET m == CHOOSE n \in owned : id[n] = i IN [mac |-> m, status |-> status[m]]
                   ELSE [mac |-> NoMac, status |-> "none"]
<1>2. row = [i \in Sid |-> r(i)]
    BY <1>1 DEF RowsOf
<1> HIDE DEF id
<1>3. ASSUME NEW i \in Sid
      PROVE  row[i].status # "due" /\ (row[i].mac # NoMac => id[row[i].mac] = i)
    <2>1. CASE \E m \in owned : id[m] = i
        <3> DEFINE m == CHOOSE n \in owned : id[n] = i
        <3>1. m \in owned /\ id[m] = i
            BY <2>1
        <3>2. r(i) = [mac |-> m, status |-> status[m]]
            BY <2>1
        <3> HIDE DEF m, r
        <3>3. QED
            BY <1>2, <3>1, <3>2
    <2>2. CASE ~\E m \in owned : id[m] = i
        <3>1. r(i) = [mac |-> NoMac, status |-> "none"]
            BY <2>2
        <3> HIDE DEF r
        <3>2. QED
            BY <1>2, <3>1
    <2>3. QED
        BY <2>1, <2>2
<1>4. \A m \in Mac : Wanted(m) <=> m \in Running
    BY <1>3 DEF Wanted, OwnerOf, Active, Running
<1>5. /\ \A q \in Process : todo[q] = <<>>
      /\ \A w \in Worker : job[w] = NoJob /\ job[w].pc = "idle"
      /\ api = "up" /\ fwd = Running /\ tracked = Running
      /\ \A m \in Mac : nat[m] = IF m \in Running THEN <<"old", "return">> ELSE <<>>
    BY DEF Init, NoJob
<1>6. \A q \in Process : Ordered(todo[q]) /\ \A m \in Mac : Ahead(todo[q], m) = {}
    BY <1>5, NothingAhead
<1>7. ScriptInv
    BY <1>6 DEF ScriptInv
<1>8. DeviceInv
    <2>1. ASSUME NEW m \in Mac PROVE Done(m)
        <3>1. CASE m \in Running
            <4>1. "return" \in ToSet(<<"old", "return">>) /\ <<"old", "return">> # <<>>
                  /\ Head(<<"old", "return">>) = "old"
                BY DEF ToSet
            <4>2. Open(m)
                BY <1>5, <3>1, <4>1 DEF Open
            <4>3. QED
                BY <1>4, <1>5, <3>1, <4>2 DEF Done
        <3>2. CASE m \notin Running
            BY <1>4, <1>5, <3>2 DEF Done, Closed
        <3>3. QED
            BY <3>1, <3>2
    <2>2. QED
        BY <1>6, <2>1, StageSets DEF DeviceInv, Stage
<1>9. OwnInv
    <2>1. \A i, j \in Sid : row[i].mac = row[j].mac /\ row[i].mac # NoMac => i = j
        <3> HIDE DEF r
        <3>1. QED
            BY <1>3
    <2>2. ASSUME NEW p \in Phone PROVE PhoneOf[at[p]] = p /\ at[p] \in Mac
        <3>1. at[p] = CHOOSE m \in Mac : PhoneOf[m] = p
            BY DEF Init
        <3>2. QED
            BY <3>1, RoamingAssumption
    <2>3. ASSUME NEW p \in Phone, token[p] # NoSid
          PROVE  row[token[p]].mac # NoMac /\ PhoneOf[row[token[p]].mac] = p
        <3>1. at[p] \in Running /\ token[p] = CHOOSE i \in Sid : row[i].mac = at[p]
            BY <2>3 DEF Init
        <3>2. \E i \in Sid : row[i].mac = at[p]
            BY <3>1 DEF Running
        <3>3. row[token[p]].mac = at[p]
            BY <3>1, <3>2
        <3>4. QED
            BY <2>2, <3>3, RoamingAssumption
    <2>4. QED
        BY <2>1, <2>2, <2>3 DEF OwnInv
<1>10. MovesInv
    BY <1>5 DEF MovesInv, JobInv, Inside
<1>11. BootInv
    BY <1>5 DEF BootInv
<1>12. QED
    BY <1>7, <1>8, <1>9, <1>10, <1>11 DEF AccessInv

\* Under careful operation, when nothing is under way, a device is let through by
\* complete rules, and is on the list, exactly if a session of its address runs, but for
\* clients a crash hit, whatever the order of payments, migrations, expiry, refreshes,
\* crashes and recovery (session.go, aircoins-captive-rules).
THEOREM AccessInTheEnd ==
    ASSUME Careful
    PROVE  Spec => []AccessFollows
<1>1. Init => AccessInv
    BY InitAccess
<1>2. TypeInv /\ AccessInv /\ [Next]_vars => AccessInv'
    BY AccessKept
<1>3. TypeInv /\ AccessInv => AccessFollows
    <2> SUFFICES ASSUME AccessInv, AtRest, NEW m \in Mac
                 PROVE  IF \E i \in OwnerOf(m) : row[i].status \in {"running", "due"}
                        THEN Open(m) /\ m \in tracked
                        ELSE m \in hurt \/ (Closed(m) /\ m \notin tracked)
        BY DEF AccessFollows
    <2>1. api = "up" /\ Nobody(m)
        BY NothingAhead DEF AtRest, Nobody, Quiet
    <2>2. Done(m)
        BY <2>1 DEF AccessInv, DeviceInv
    <2>3. QED
        BY <2>1, <2>2 DEF Done, Wanted, Active
<1>4. QED
    BY <1>1, <1>2, <1>3, TypesHold, PTL DEF Spec
=============================================================================
