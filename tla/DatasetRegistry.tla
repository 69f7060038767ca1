---------------------------- MODULE DatasetRegistry ----------------------------
(***************************************************************************)
(* The registry of private datasets (security/private_dataset_registry.py) *)
(* as the command line tool uses it (scripts/manage_private_datasets.py):  *)
(* every command loads the whole registry, changes one entry, validates    *)
(* the result and replaces the file.  A gold ticket dataset is reviewed by *)
(* people who edit its artifact; complete-review binds the registry to the *)
(* bytes of the artifact and freeze checks that they are still the same.   *)
(* Both read the artifact twice: once to validate its records, once to     *)
(* hash it.                                                                *)
(*                                                                         *)
(* A dataset version is a member of Refs.  The bytes of an artifact are a  *)
(* member of Contents, and stand for their own hash.                       *)
(***************************************************************************)
EXTENDS Naturals

CONSTANTS
  Refs,         \* versions of one dataset
  Supersedes,   \* what the entry of a version declares: Refs -> Refs or None
  None,
  Contents,     \* what an artifact may hold
  Sealed,       \* the contents whose records pass every check
  Commands,     \* processes of the command line tool
  Operations,   \* the operations they are started for
  MaxEdits,     \* bound: edits of artifacts
  MaxCrashes    \* bound: deaths of a command

VARIABLES
  registry,   \* the file datasets.json: an entry per version, or None
  disk,       \* the artifact of each version
  pc, cmd,    \* where each command is, and what it does
  copy,       \* the registry it loaded, with its change
  edits, crashes

vars == <<registry, disk, pc, cmd, copy, edits, crashes>>

\* owner_hold stands for every hold that completing a review does not clear.
Holds == {"none", "active_review", "owner_hold"}

Draft(h) ==
  [state |-> "draft", review |-> "pending", hold |-> h, bound |-> None,
   frozen |-> None, successor |-> None]

Reciprocal(r) ==
  \A v \in Refs :
    (r[v] # None /\ r[v].successor # None) =>
      /\ r[r[v].successor] # None
      /\ Supersedes[r[v].successor] = v

\* What validate_registry requires of the entries together and of each.
Valid(r) ==
  /\ \A v \in Refs : r[v] # None =>
       /\ Supersedes[v] # None => r[Supersedes[v]] # None
       /\ r[v].state = "draft" => r[v].review = "pending"
       /\ IF r[v].state \in {"frozen", "superseded"}
            THEN r[v].review = "complete" /\ r[v].frozen # None
            ELSE r[v].frozen = None
       /\ r[v].frozen \in {None, r[v].bound}
       /\ (r[v].state = "superseded") = (r[v].successor # None)
  /\ Reciprocal(r)

-----------------------------------------------------------------------------
Init ==
  /\ registry = [v \in Refs |-> None]
  /\ disk \in [Refs -> Contents]
  /\ pc = [p \in Commands |-> "idle"]
  /\ cmd = [p \in Commands |-> None]
  /\ copy = [p \in Commands |-> registry]
  /\ edits = 0
  /\ crashes = 0

Goto(p, label) == pc' = [pc EXCEPT ![p] = label]

\* The registry is read and validated; a registry that is not valid, and one
\* that does not exist unless the command registers, ends the command.
Load(p) ==
  /\ pc[p] = "idle"
  /\ Valid(registry)
  /\ \E op \in Operations :
       /\ op.name # "register" => \E v \in Refs : registry[v] # None
       /\ cmd' = [cmd EXCEPT ![p] = op]
  /\ copy' = [copy EXCEPT ![p] = registry]
  /\ Goto(p, "loaded")
  /\ UNCHANGED <<registry, disk, edits, crashes>>

\* The command's change c, if the registry with it is valid; the command ends
\* without a change otherwise.
Changed(p, c) ==
  /\ IF Valid(c)
       THEN Goto(p, "changed") /\ copy' = [copy EXCEPT ![p] = c]
       ELSE Goto(p, "idle") /\ UNCHANGED copy
  /\ UNCHANGED <<registry, disk, cmd, edits, crashes>>

Refused(p) == Goto(p, "idle") /\ UNCHANGED <<registry, disk, cmd, copy, edits, crashes>>

Register(p) ==
  /\ pc[p] = "loaded" /\ cmd[p].name = "register"
  /\ IF copy[p][cmd[p].ref] # None
       THEN Refused(p)
       ELSE \E h \in Holds :
              Changed(p, [copy[p] EXCEPT ![cmd[p].ref] = Draft(h)])

StartReview(p) ==
  /\ pc[p] = "loaded" /\ cmd[p].name = "review"
  /\ LET v == cmd[p].ref
     IN IF copy[p][v] # None /\ copy[p][v].state = "draft"
          THEN Changed(p, [copy[p] EXCEPT ![v].state = "reviewing"])
          ELSE Refused(p)

ReadyToComplete(e) ==
  /\ e # None
  /\ e.state = "reviewing"
  /\ e.review = "pending"
  /\ e.hold \in {"none", "active_review"}

ReadyToFreeze(e) ==
  /\ e # None
  /\ e.state = "reviewing"
  /\ e.review = "complete"
  /\ e.hold = "none"

\* Complete-review and freeze: the entry is ready, and the records of the
\* artifact are read and pass every check.
ReadRecords(p) ==
  /\ pc[p] = "loaded" /\ cmd[p].name \in {"complete", "freeze"}
  /\ LET v == cmd[p].ref
         ready == IF cmd[p].name = "complete"
                    THEN ReadyToComplete(copy[p][v])
                    ELSE ReadyToFreeze(copy[p][v])
     IN Goto(p, IF ready /\ disk[v] \in Sealed THEN "read" ELSE "idle")
  /\ UNCHANGED <<registry, disk, cmd, copy, edits, crashes>>

\* The artifact is hashed: complete-review binds the hash.
CompleteReview(p) ==
  /\ pc[p] = "read" /\ cmd[p].name = "complete"
  /\ LET v == cmd[p].ref
     IN Changed(p, [copy[p] EXCEPT ![v].bound = disk[v],
                                   ![v].review = "complete",
                                   ![v].hold = "none"])

\* Mutation: freeze binds the bytes it finds.
FreezeRebinds(p) ==
  /\ pc[p] = "read" /\ cmd[p].name = "freeze"
  /\ LET v == cmd[p].ref
     IN Changed(p, [copy[p] EXCEPT ![v].state = "frozen", ![v].bound = disk[v],
                                   ![v].frozen = disk[v]])

\* Freeze compares the hash with the one that is bound.
Freeze(p) ==
  /\ pc[p] = "read" /\ cmd[p].name = "freeze"
  /\ LET v == cmd[p].ref
     IN IF disk[v] = copy[p][v].bound
          THEN Changed(p, [copy[p] EXCEPT ![v].state = "frozen",
                                          ![v].frozen = copy[p][v].bound])
          ELSE Refused(p)

Supersede(p) ==
  /\ pc[p] = "loaded" /\ cmd[p].name = "supersede"
  /\ LET v == cmd[p].ref
         w == cmd[p].successor
     IN IF /\ v # w
           /\ copy[p][v] # None /\ copy[p][w] # None
           /\ copy[p][v].state = "frozen" /\ copy[p][w].state = "frozen"
           /\ Supersedes[w] = v
           /\ copy[p][v].successor = None
          THEN Changed(p, [copy[p] EXCEPT ![v].state = "superseded",
                                          ![v].successor = w])
          ELSE Refused(p)

\* The new registry replaces the file in one step.
Save(p) ==
  /\ pc[p] = "changed"
  /\ registry' = copy[p]
  /\ Goto(p, "idle")
  /\ UNCHANGED <<disk, cmd, copy, edits, crashes>>

\* The process dies; at most a temporary file is left.
Crash(p) ==
  /\ crashes < MaxCrashes
  /\ pc[p] # "idle"
  /\ Goto(p, "idle")
  /\ crashes' = crashes + 1
  /\ UNCHANGED <<registry, disk, cmd, copy, edits>>

\* A person edits an artifact.
Edit ==
  /\ edits < MaxEdits
  /\ edits' = edits + 1
  /\ \E v \in Refs, c \in Contents : disk' = [disk EXCEPT ![v] = c]
  /\ UNCHANGED <<registry, pc, cmd, copy, crashes>>

Step(p) ==
  \/ Load(p) \/ Register(p) \/ StartReview(p) \/ ReadRecords(p)
  \/ CompleteReview(p) \/ Freeze(p) \/ Supersede(p) \/ Save(p) \/ Crash(p)

Next == Edit \/ \E p \in Commands : Step(p)

Spec == Init /\ [][Next]_vars

-----------------------------------------------------------------------------
Entries ==
  [state : {"draft", "reviewing", "frozen", "superseded"},
   review : {"pending", "complete"}, hold : Holds,
   bound : Contents \cup {None}, frozen : Contents \cup {None},
   successor : Refs \cup {None}]

\* What is assumed of the constants.
Assumptions ==
  /\ Sealed \subseteq Contents
  /\ None \notin Entries
  /\ MaxEdits \in Nat
  /\ \A op \in Operations :
       /\ op.name \in {"register", "review", "complete", "freeze", "supersede"}
       /\ op.ref \in Refs
       /\ op.name = "supersede" => op.successor \in Refs

\* The registry holds entries and nothing else, and a command that is past
\* its checks holds the registry it will save.
TypeOK ==
  /\ registry \in [Refs -> Entries \cup {None}]
  /\ disk \in [Refs -> Contents]
  /\ pc \in [Commands -> {"idle", "loaded", "read", "changed"}]
  /\ cmd \in [Commands -> Operations \cup {None}]
  /\ copy \in [Commands -> [Refs -> Entries \cup {None}]]
  /\ \A p \in Commands : pc[p] = "changed" => Valid(copy[p])

Frozen(e) == e # None /\ e.state \in {"frozen", "superseded"}

\* What is frozen was validated: the bytes it is bound to pass every check,
\* whatever was edited between the reading, the hashing and the freeze.
FrozenIsSealed == \A v \in Refs : Frozen(registry[v]) => registry[v].bound \in Sealed

\* A version leaves the registry's use only for one that is frozen and knows it.
SupersededByFrozen ==
  \A v \in Refs :
    (registry[v] # None /\ registry[v].state = "superseded") =>
      /\ Frozen(registry[registry[v].successor])
      /\ Supersedes[registry[v].successor] = v

\* A frozen version never changes but to be superseded, whatever other command
\* runs, fails or dies (test_review_and_freeze_are_monotonic_and_frozen_payload_
\* is_immutable).
FrozenStays ==
  [][\A v \in Refs : Frozen(registry[v]) =>
       /\ Frozen(registry'[v])
       /\ registry'[v].bound = registry[v].bound
       /\ registry[v].state = "superseded" => registry'[v] = registry[v]]_vars

\* Freezing is final, for one command at a time and one edit of an artifact meanwhile.
FreezeIsFinal == [](FrozenIsSealed /\ SupersededByFrozen) /\ FrozenStays
=============================================================================
