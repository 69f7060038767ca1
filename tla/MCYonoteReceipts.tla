-------------------------- MODULE MCYonoteReceipts --------------------------
(***************************************************************************)
(* Instances of YonoteReceipts for TLC.                                    *)
(***************************************************************************)
EXTENDS YonoteReceipts, TLC

CONSTANTS s1, s2, r1, r2, r3, q1, q2, p1, p2

OneProcess   == (q1 :> p1) @@ (q2 :> p1)
TwoProcesses == (q1 :> p1) @@ (q2 :> p2)
OneRequest   == (q1 :> p1)

\* Seeds, receipts and, in one process, request slots are interchangeable.
SeedSymmetry       == Permutations({s1, s2})
OneProcessSymmetry == SeedSymmetry \cup Permutations({r1, r2, r3}) \cup Permutations({q1, q2})
=============================================================================
