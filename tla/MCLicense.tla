------------------------------ MODULE MCLicense ------------------------------
(* Two boards: one with a CPU serial, one whose only mark is a dummy MAC. *)
EXTENDS License, TLC
CONSTANTS d1, d2
MCCpu  == (d1 :> 7) @@ (d2 :> 0)
MCTree == (d1 :> 0) @@ (d2 :> 0)
MCMac  == (d1 :> 3) @@ (d2 :> 5)
=============================================================================
