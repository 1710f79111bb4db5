------------------------------- MODULE MCQdisc -------------------------------
(* One device, two requests and the boot on one interface.                  *)
EXTENDS Qdisc, TLC
Symmetry == Permutations(Device) \cup Permutations(Request) \cup Permutations(Rate)
=============================================================================
