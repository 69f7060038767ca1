----------------------------- MODULE TicketFlow -----------------------------
(***************************************************************************)
(* What the HDE transport promises of an event, whatever crashes, leases   *)
(* and operators do (docs/DECISIONS.md, D-021): an accepted event gets one *)
(* answer, which never changes, and is delivered at most once; within a    *)
(* ticket, an event is answered and delivered after those it stands behind.*)
(*                                                                         *)
(* This module is the abstract specification that HDETransport implements. *)
(***************************************************************************)
CONSTANTS Events, Ticket, Answers, NoText

VARIABLES
    accepted,   \* events whose webhook was acknowledged
    behind,     \* behind[e]: the events of the ticket that e waits for
    answer,     \* answer[e]: its answer, or NoText
    delivered   \* events whose delivery is confirmed

flowVars == <<accepted, behind, answer, delivered>>

Init ==
    /\ accepted = {}
    /\ behind = [e \in Events |-> {}]
    /\ answer = [e \in Events |-> NoText]
    /\ delivered = {}

Answered == {e \in Events : answer[e] # NoText}

\* The event joins its ticket behind some of the events already there.
Accept(e) ==
    /\ e \notin accepted
    /\ accepted' = accepted \cup {e}
    /\ \E front \in SUBSET {a \in accepted : Ticket[a] = Ticket[e]} :
          behind' = [behind EXCEPT ![e] = front]
    /\ UNCHANGED <<answer, delivered>>

Answer(e, text) ==
    /\ e \in accepted \ Answered
    /\ behind[e] \subseteq Answered
    /\ answer' = [answer EXCEPT ![e] = text]
    /\ UNCHANGED <<accepted, behind, delivered>>

Confirm(e) ==
    /\ e \in Answered \ delivered
    /\ behind[e] \subseteq delivered
    /\ delivered' = delivered \cup {e}
    /\ UNCHANGED <<accepted, behind, answer>>

Next ==
    \E e \in Events :
        \/ Accept(e)
        \/ \E text \in Answers : Answer(e, text)
        \/ Confirm(e)

FlowSpec == Init /\ [][Next]_flowVars
=============================================================================
