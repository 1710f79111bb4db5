----------------------------- MODULE MCVoucher -----------------------------
(* Two devices, two requests at a time, one code that is issued twice.      *)
EXTENDS Voucher, TLC

CONSTANTS k1, c1, c2, t1, t2

Symm == Permutations(Clients) \cup Permutations(Threads)
=============================================================================
