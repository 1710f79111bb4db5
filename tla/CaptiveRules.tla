----------------------------- MODULE CaptiveRules -----------------------------
(***************************************************************************)
(* The rules of paying clients as aircoins-captive-rules writes them, one  *)
(* iptables command after the other, its list of authorized clients, and   *)
(* the watcher that has the rules rebuilt when the upstream DNS changes    *)
(* (handlers/dnswatch.go, handlers/captive.go).                            *)
(*                                                                         *)
(* The rules of different clients never match the same packet, so each     *)
(* client has a chain of its own here; the capture of the portal is below  *)
(* all of them.  The DNS and probe redirects, of one kind, are one rule.   *)
(***************************************************************************)
EXTENDS Naturals, FiniteSets, SequencesExt

CONSTANTS Mac,              \* addresses of client devices
          Dns, OldDns,      \* upstream servers, and the one old rules point at
          NoDns,            \* no reading
          Process,          \* what runs the script, one command at a time
          Watcher,          \* the process of the DNS watcher
          StableNeed,       \* dnsWatchStableNeed
          MaxIsp            \* bound on changes of the upstream

ASSUME CaptiveAssumption ==
    /\ IsFiniteSet(Mac) /\ OldDns \in Dns /\ NoDns \notin Dns /\ Watcher \in Process
    /\ StableNeed \in Nat \ {0} /\ MaxIsp \in Nat

VARIABLES nat,       \* nat[m]: rules of m in AIRCOINS_CAPTIVE, from the top
          fwd,       \* clients with an ACCEPT in AIRCOINS_FORWARD
          tracked,   \* the file authorized_macs
          rebuilt,   \* history: clients whose rules a refresh wrote last
          todo,      \* todo[p]: the commands process p has still to run
          isp,       \* the upstream DNS as it would be read now
          last,      \* the file last_dns
          pending, streak,   \* the watcher's reading and how often it saw it
          news,      \* the reading the watcher has to record after its refresh
          changes    \* changes of the upstream so far

chains == <<nat, fwd, tracked, rebuilt>>
watch == <<last, pending, streak, news>>
captiveVars == <<chains, todo, isp, watch, changes>>

\* "old" is the DNAT to the DNS server of the day that earlier releases wrote.
Rule == {"redirect", "old", "return"}
Command == [do: {"clear", "rebuild", "return", "redirect", "accept", "track", "untrack"},
            mac: Mac]

\* The same commands for each of several clients, one client after the other.
ForEach(M, commands) ==
    LET n == Len(commands)
    IN [k \in 1 .. n * Cardinality(M) |->
           [do |-> commands[((k - 1) % n) + 1], mac |-> SetToSeq(M)[((k - 1) \div n) + 1]]]
\* Everything is inserted on top: the RETURN ends up below the redirects.
AuthReturnLast(M) == ForEach(M, <<"clear", "redirect", "return", "accept", "track">>)
cmd_auth(M) == ForEach(M, <<"clear", "return", "redirect", "accept", "track">>)
cmd_unauth(M) == ForEach(M, <<"clear", "untrack">>)
\* The refresh writes the rules of every tracked client again, but for the RETURN.
cmd_refresh == ForEach(tracked, <<"rebuild", "redirect", "accept">>)

remove_auth_rules(s) ==
    /\ s.do \in {"clear", "rebuild"}
    /\ nat' = [nat EXCEPT ![s.mac] = <<>>] /\ fwd' = fwd \ {s.mac}
    /\ rebuilt' = IF s.do = "rebuild" THEN rebuilt \cup {s.mac} ELSE rebuilt \ {s.mac}
    /\ UNCHANGED tracked
insert_rule(s) ==
    \/ /\ s.do \in Rule
       /\ nat' = [nat EXCEPT ![s.mac] = IF s.do \in ToSet(@) THEN @ ELSE <<s.do>> \o @]
       /\ UNCHANGED <<fwd, tracked, rebuilt>>
    \/ /\ s.do = "accept"
       /\ fwd' = fwd \cup {s.mac}
       /\ UNCHANGED <<nat, tracked, rebuilt>>
save_auth_mac(s) ==
    /\ s.do = "track"
    /\ tracked' = tracked \cup {s.mac}
    /\ UNCHANGED <<nat, fwd, rebuilt>>
remove_auth_mac(s) ==
    /\ s.do = "untrack"
    /\ tracked' = tracked \ {s.mac}
    /\ UNCHANGED <<nat, fwd, rebuilt>>

Run(p) ==
    /\ todo[p] # <<>>
    /\ todo' = [todo EXCEPT ![p] = Tail(@)]
    /\ LET s == Head(todo[p])
       IN remove_auth_rules(s) \/ insert_rule(s) \/ save_auth_mac(s) \/ remove_auth_mac(s)
    /\ UNCHANGED <<isp, watch, changes>>

Quiet(p) == todo[p] = <<>>
\* Clients a script is working on.
Worked(p) == {s.mac : s \in ToSet(todo[p])}

-----------------------------------------------------------------------------
\* The watcher

IspChange ==
    /\ changes < MaxIsp /\ changes' = changes + 1
    /\ \E d \in (Dns \cup {NoDns}) \ {isp} : isp' = d
    /\ UNCHANGED <<chains, todo, watch>>

\* One reading without a refresh: nothing readable, nothing new, or not yet stable.
CountedAfresh == 1
Counted == IF pending = isp THEN streak + 1 ELSE 1
PassResets ==
    /\ Quiet(Watcher) /\ news = NoDns
    /\ isp \in {NoDns, last}
    /\ pending' = NoDns /\ streak' = 0
    /\ UNCHANGED <<chains, todo, isp, last, news, changes>>
PassCounts ==
    /\ Quiet(Watcher) /\ news = NoDns
    /\ isp \notin {NoDns, last} /\ Counted < StableNeed
    /\ pending' = isp /\ streak' = Counted
    /\ UNCHANGED <<chains, todo, isp, last, news, changes>>
PassRefreshes ==
    /\ Quiet(Watcher) /\ news = NoDns
    /\ isp \notin {NoDns, last} /\ Counted >= StableNeed
    /\ todo' = [todo EXCEPT ![Watcher] = cmd_refresh]
    /\ news' = isp
    /\ pending' = isp /\ streak' = Counted
    /\ UNCHANGED <<chains, isp, last, changes>>
\* The reading is recorded when the refresh is through.
Records == last' = news /\ news' = NoDns /\ pending' = NoDns /\ streak' = 0
PassRecordsFirst ==
    /\ news # NoDns /\ Records
    /\ UNCHANGED <<chains, todo, isp, changes>>
PassRecords ==
    /\ Quiet(Watcher) /\ news # NoDns /\ Records
    /\ UNCHANGED <<chains, todo, isp, changes>>

-----------------------------------------------------------------------------
CaptiveTypeOK ==
    /\ \A m \in Mac : nat[m] \in Seq(Rule)
    /\ fwd \subseteq Mac /\ tracked \subseteq Mac /\ rebuilt \subseteq Mac
    /\ \A p \in Process : todo[p] \in Seq(Command)
    /\ isp \in Dns \cup {NoDns} /\ last \in Dns \cup {NoDns}
    /\ pending \in Dns \cup {NoDns} /\ news \in Dns \cup {NoDns}
    /\ streak \in 0 .. StableNeed /\ changes \in 0 .. MaxIsp

\* A client that is let through: its packets are accepted, its DNS and its probes
\* are redirected before anything returns from the chain, and its other traffic
\* returns before the capture, unless a refresh wrote its rules.
Open(m) ==
    /\ m \in fwd
    /\ nat[m] # <<>> /\ Head(nat[m]) \in {"redirect", "old"}
    /\ "return" \in ToSet(nat[m]) \/ m \in rebuilt
Closed(m) == m \notin fwd /\ nat[m] = <<>>
=============================================================================
