------------------------------ MODULE MCRoaming ------------------------------
(* One phone with two or three addresses, two sessions rows, two workers.   *)
EXTENDS Roaming, TLC

CONSTANTS w1, w2

OnePhone == [m \in Mac |-> CHOOSE p \in Phone : TRUE]
Processes == {w1, w2, Enforcer, Watcher}
Symm == Permutations(Worker) \cup Permutations(Mutex)
=============================================================================
