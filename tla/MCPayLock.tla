----------------------------- MODULE MCPayLock -----------------------------
(* Two devices on one VLAN, served by up to three goroutines.              *)
EXTENDS PayLock, TLC

CONSTANTS a, b, v1, t1, t2, t3

MCVlanOf == [c \in Clients |-> v1]
Symm     == Permutations(Threads) \cup Permutations(Clients)
=============================================================================
