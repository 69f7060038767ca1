--------------------------- MODULE MCHDETransport ---------------------------
(***************************************************************************)
(* Instances of HDETransport for TLC.                                      *)
(***************************************************************************)
EXTENDS HDETransport, TLC

CONSTANTS e1, e2, w1, w2, r1, r2, t1

OneTicket  == (e1 :> t1) @@ (e2 :> t1)
OneEvent   == (e1 :> t1)

\* The processes are interchangeable.
WorkerSymmetry == Permutations({w1, w2})
=============================================================================
