------------------------------ MODULE MCUpdater ------------------------------
(* v1.10.0 comes before v1.9.0 in a directory.                              *)
EXTENDS Updater
MCSemver == <<<<1, 10, 0>>, <<1, 9, 0>>>>
MCGens == <<1, 2>>

\* compareSemver against the order of the numbers, on versions with one and two
\* digits: "1.10.0" is newer than "1.9.0" whatever the letters say.
Weight(s) == 10000 * s[1] + 100 * s[2] + s[3]
ASSUME SemverAgrees ==
    \A a, b \in {0, 1, 9, 10} \X {0, 1, 9, 10} \X {0, 1, 9, 10} :
        /\ CompareSemver(a, b) < 0 <=> Weight(a) < Weight(b)
        /\ CompareSemver(a, b) = 0 <=> a = b
        /\ CompareSemver(a, b) = 0 - CompareSemver(b, a)
=============================================================================
