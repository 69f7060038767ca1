---------------------------- MODULE SeedRegister ----------------------------
(***************************************************************************)
(* What the panel promises of the knowledge base seed, however its         *)
(* requests interleave, fail, are cancelled or die: one register, changed  *)
(* only by comparison with what it holds.  A receipt is sealed for one     *)
(* content and one result; it takes effect at most once, in one step, on   *)
(* that content, and not after it was superseded.  An edit takes effect in *)
(* one step on the content that its editor has read.                       *)
(*                                                                         *)
(* This module is the abstract specification that YonoteReceipts           *)
(* implements where one process serves the panel.                          *)
(***************************************************************************)
CONSTANTS Contents, Receipts, Editors, NoContent, Unsealed

VARIABLES
    content,    \* what the register holds
    binding,    \* binding[r]: the base and the result r was sealed for, or Unsealed
    consumed,   \* receipts that took effect
    superseded, \* receipts that must not take effect any more
    seen        \* seen[e]: the content that e is editing, or NoContent

registerVars == <<content, binding, consumed, superseded, seen>>

Init ==
    /\ content \in Contents
    /\ binding = [r \in Receipts |-> Unsealed]
    /\ consumed = {}
    /\ superseded = {}
    /\ seen = [e \in Editors |-> NoContent]

Sealed == {r \in Receipts : binding[r] # Unsealed}

Seal(r) ==
    /\ r \notin Sealed
    /\ \E b \in [base : Contents, merged : Contents] : binding' = [binding EXCEPT ![r] = b]
    /\ UNCHANGED <<content, consumed, superseded, seen>>

Supersede ==
    /\ \E older \in SUBSET Sealed : superseded' = superseded \cup older
    /\ UNCHANGED <<content, binding, consumed, seen>>

Apply(r) ==
    /\ r \in Sealed \ (consumed \cup superseded)
    /\ content = binding[r].base
    /\ content' = binding[r].merged
    /\ consumed' = consumed \cup {r}
    /\ UNCHANGED <<binding, superseded, seen>>

Read(e) ==
    /\ seen' = [seen EXCEPT ![e] = content]
    /\ UNCHANGED <<content, binding, consumed, superseded>>

Save(e) ==
    /\ seen[e] = content
    /\ content' \in Contents
    /\ seen' = [seen EXCEPT ![e] = NoContent]
    /\ UNCHANGED <<binding, consumed, superseded>>

\* Editors give up, are refused, or are gone.
Leave ==
    /\ \E left \in SUBSET Editors :
          seen' = [e \in Editors |-> IF e \in left THEN NoContent ELSE seen[e]]
    /\ UNCHANGED <<content, binding, consumed, superseded>>

Next ==
    \/ \E r \in Receipts : Seal(r) \/ Apply(r)
    \/ \E e \in Editors : Read(e) \/ Save(e)
    \/ Supersede \/ Leave

RegisterSpec == Init /\ [][Next]_registerVars
=============================================================================
