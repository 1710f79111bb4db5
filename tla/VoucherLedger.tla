--------------------------- MODULE VoucherLedger ---------------------------
(***************************************************************************)
(* What the voucher table promises the people who buy vouchers and the     *)
(* operator who prints them (voucher.go:546-547, 581-582, 604): an issued  *)
(* code is worth one credit, to one device; a code whose credit did not    *)
(* happen is still worth it; a withdrawn code is worth nothing; a banned   *)
(* device gets no credit.  One step per promise, no requests, no statements.*)
(***************************************************************************)
CONSTANTS Codes, Clients, NoClient

VARIABLES
  state,    \* state[k]: what the code is worth
  owner,    \* owner[k]: the device it was credited to
  banned    \* devices that may not start a session

vars == <<state, owner, banned>>

TypeOK ==
  /\ state \in [Codes -> {"none", "live", "spent", "void"}]
  /\ owner \in [Codes -> Clients \cup {NoClient}]
  /\ banned \subseteq Clients

Init ==
  /\ state = [k \in Codes |-> "none"]
  /\ owner = [k \in Codes |-> NoClient]
  /\ banned = {}

Issue(k) ==
  /\ state' = [state EXCEPT ![k] = "live"]
  /\ owner' = [owner EXCEPT ![k] = NoClient]
  /\ UNCHANGED banned

Spend(k, c) ==
  /\ state[k] = "live" /\ c \notin banned
  /\ state' = [state EXCEPT ![k] = "spent"]
  /\ owner' = [owner EXCEPT ![k] = c]
  /\ UNCHANGED banned

Withdraw(k) ==
  /\ state[k] # "none"
  /\ \E s \in {"void", "none"} : state' = [state EXCEPT ![k] = s]
  /\ owner' = [owner EXCEPT ![k] = NoClient]
  /\ UNCHANGED banned

Ban == banned' \subseteq Clients /\ UNCHANGED <<state, owner>>

Next ==
  \/ \E k \in Codes : Issue(k) \/ Withdraw(k) \/ \E c \in Clients : Spend(k, c)
  \/ Ban

Spec == Init /\ [][Next]_vars
=============================================================================
