--------------------------- MODULE ReservationBook ---------------------------
(***************************************************************************)
(* What the evaluations are promised of their money, however many of them  *)
(* are started at a time, and whatever fails: a book of reservations with  *)
(* one entry per payer.  An entry is made in one step, after complete ones *)
(* only, and with it the book still keeps to its limits; a payer pays from *)
(* its own entry, when that is complete, until the cap is reached.         *)
(*                                                                         *)
(* This module is the abstract specification that CostLedger implements.   *)
(* Clock, lock file, scan and the rules by which a scan decides are left   *)
(* to it: here the limits are stated of the whole book.                    *)
(***************************************************************************)
EXTENDS Integers, Sequences, FiniteSetsExt

CONSTANTS Payers, Costs, Window, RollingCap, NoReference

VARIABLES
    book,       \* the entries in the order they were made
    account,    \* account[p]: the entry p pays from, 0 before it has one
    paid        \* paid[p]: what p has paid

bookVars == <<book, account, paid>>

-----------------------------------------------------------------------------
(* The limits.                                                             *)

Sum(b, S) == MapThenSumSet(LAMBDA i : b[i].cap, {i \in S : ~b[i].full})

\* In no window do the routine entries exceed the cap.
RoutineWithin(b) ==
    \A first \in DOMAIN b :
        Sum(b, {i \in DOMAIN b : b[i].at \in b[first].at .. b[first].at + Window}) <= RollingCap

\* Full entries are of different candidates; two within a window are a pair by name.
FullApart(b) ==
    \A i, j \in DOMAIN b :
        i < j /\ b[i].full /\ b[j].full =>
            /\ b[i].sha # b[j].sha
            /\ b[j].at - b[i].at <= Window => b[j].waived = i

Named(e) == {e.approval, IF e.waiver = NoReference THEN NoReference ELSE e.waiver.id}

\* No reference is used in two entries.
ReferencesApart(b) ==
    \A i, j \in DOMAIN b : i # j => Named(b[i]) \cap Named(b[j]) \subseteq {NoReference}

WithinLimits(b) == RoutineWithin(b) /\ FullApart(b) /\ ReferencesApart(b)

-----------------------------------------------------------------------------
Init ==
    /\ book = <<>>
    /\ account = [p \in Payers |-> 0]
    /\ paid = [p \in Payers |-> 0]

Enter(p) ==
    /\ account[p] = 0
    /\ \A i \in DOMAIN book : book[i].whole
    /\ Len(book') = Len(book) + 1
    /\ \A i \in DOMAIN book : book'[i] = book[i]
    /\ WithinLimits(book')
    /\ account' = [account EXCEPT ![p] = Len(book) + 1]
    /\ UNCHANGED paid

Complete(p) ==
    /\ account[p] # 0
    /\ book' = [book EXCEPT ![account[p]].whole = TRUE]
    /\ UNCHANGED <<account, paid>>

Pay(p) ==
    /\ account[p] # 0
    /\ book[account[p]].whole
    /\ paid[p] < book[account[p]].cap
    /\ \E c \in Costs : paid' = [paid EXCEPT ![p] = @ + c]
    /\ UNCHANGED <<book, account>>

Next == \E p \in Payers : Enter(p) \/ Complete(p) \/ Pay(p)

BookSpec == Init /\ [][Next]_bookVars
=============================================================================
