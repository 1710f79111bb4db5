--------------------------- MODULE MCCoinWindow ---------------------------
(* Two devices of one VLAN.                                                 *)
EXTENDS CoinWindow, TLC

CONSTANTS a, b, v1

OneVlan  == [c \in Clients |-> v1]
Symm     == Permutations(Clients)
=============================================================================
