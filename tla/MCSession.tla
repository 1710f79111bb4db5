----------------------------- MODULE MCSession -----------------------------
(* One or two devices, up to two requests at a time and the enforcer.       *)
EXTENDS Session, TLC

CONSTANTS x, y, t1, t2

Pausable0 == [pausable |-> TRUE, hours |-> 0]
Pausable1 == [pausable |-> TRUE, hours |-> 1]
Consumable == [pausable |-> FALSE, hours |-> 0]
TimedRate == {Pausable1}
AllRates == {Pausable0, Pausable1, Consumable}
Symm == Permutations(Threads) \cup Permutations(Devices)
=============================================================================
