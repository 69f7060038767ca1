------------------------------ MODULE CostLedger ------------------------------
(***************************************************************************)
(* The reservations that every paid evaluation makes before its first      *)
(* request (eval/cost_governance.py): a directory of records, each written *)
(* once under a lock file that nobody recovers.  Runners are processes on  *)
(* one machine.  Each reads the clock, takes the lock, checks every record *)
(* of the ledger, writes its own, releases the lock and only then asks     *)
(* cases until its cap is reached (scripts/manual_ask.py, eval/run_ask.py).*)
(*                                                                         *)
(* Money and time are counted in coarse units.  A candidate stands for the *)
(* tuple of runtime, manifest, scope and size that a waiver names.  The    *)
(* digest that binds a waiver to a record is the place of that record.     *)
(***************************************************************************)
EXTENDS Integers, Sequences, FiniteSetsExt

CONSTANTS
  Runners,          \* processes, one evaluation each
  Requests,         \* the evaluations they may be started for
  None,             \* no approval, no waiver, no holder of the lock
  Window,           \* 24 hours
  RollingCap,       \* ROUTINE_ROLLING_24H_CAP_RUB
  RoutineMaxCost,   \* ROUTINE_LIVE_EVAL_MAX_COST_RUB
  RoutineMaxCases,  \* ROUTINE_LIVE_EVAL_MAX_CASES
  CaseCosts,        \* what one case may cost
  MaxTime           \* bound: the clock stops here

\* What is assumed of the constants: a request has passed _validated_cap and
\* _validated_case_count.
Assumptions ==
  /\ Window \in Nat /\ RollingCap \in Nat /\ MaxTime \in Nat
  /\ CaseCosts \subseteq Nat
  /\ None \notin Runners
  /\ \A q \in Requests :
       q.full \in BOOLEAN /\ q.cap \in Nat \ {0} /\ q.cases \in Nat \ {0}

VARIABLES
  now,      \* the clock
  lock,     \* who created .cost-governance.lock, or None
  ledger,   \* the record files in the order they were created
  pc,       \* where each runner is
  req,      \* the evaluation it was started for
  at,       \* reservation_time
  place,    \* its record in the ledger, 0 before it is created
  asked,    \* cases asked
  spent,    \* strict_cost_total
  last      \* what the last case cost

vars == <<now, lock, ledger, pc, req, at, place, asked, spent, last>>

NeedsApproval(q) ==
  q.full \/ q.cases > RoutineMaxCases \/ q.cap > RoutineMaxCost

\* The approval a reservation consumes: a routine one only on demand.
Approval(q) == IF NeedsApproval(q) \/ q.optional THEN q.approval ELSE None

Acceptable(q) ==
  /\ NeedsApproval(q) => q.approval # None
  /\ q.waiver # None =>
       /\ q.full
       /\ Approval(q) \notin {None, q.waiver.id}
       /\ q.waiver.prior # q.sha

-----------------------------------------------------------------------------
(* What a scan of the ledger accepts.                                       *)

Entry(q, t, p) ==
  [full |-> q.full, cap |-> q.cap, sha |-> q.sha, at |-> t, whole |-> FALSE,
   approval |-> Approval(q), waiver |-> q.waiver, waived |-> p]

Chained(e) == e.waiver # None /\ e.waiver.chain # None
FirstWaiver(e) == e.waiver # None /\ e.waiver.chain = None
Waived(l) == {i \in DOMAIN l : l[i].waiver # None}

References(e) ==
  {e.approval, IF e.waiver = None THEN None ELSE e.waiver.id} \ {None}

Bound(l, w) ==
  LET earlier == {i \in DOMAIN l \ {w} : l[i].full /\ l[i].at <= l[w].at}
      conflicts == IF Chained(l[w])
                     THEN earlier \cap {l[w].waived}
                     ELSE {i \in earlier : l[w].at - l[i].at <= Window}
      p == l[w].waived
  IN /\ conflicts = {p}
     /\ IF Chained(l[w])
          THEN FirstWaiver(l[p]) /\ l[p].waiver.decision = l[w].waiver.chain
          ELSE l[p].waiver = None
     /\ l[p].at < l[w].at
     /\ l[p].sha # l[w].sha

Consistent(l) ==
  /\ \A i, j \in Waived(l) : i # j => (Chained(l[i]) # Chained(l[j]))
  /\ \A i, j \in DOMAIN l :
       i # j => References(l[i]) \intersect References(l[j]) = {}
  /\ \A w \in Waived(l) : Bound(l, w)

Readable(l, t) ==
  /\ \A i \in DOMAIN l : l[i].whole /\ l[i].at <= t
  /\ Consistent(l)

-----------------------------------------------------------------------------
(* What a new reservation must satisfy, given the records of the scan.      *)

\* Mutation: the check looks for the approval among approvals only.
ApprovalUnusedAsWaiver(l, q) ==
  Approval(q) = None \/ \A i \in DOMAIN l : Approval(q) # l[i].approval

ApprovalUnused(l, q) ==
  Approval(q) = None \/ \A i \in DOMAIN l : Approval(q) \notin References(l[i])

WaiverUnused(l, w) ==
  /\ IF w.chain = None
       THEN Waived(l) = {}
       ELSE \E i \in DOMAIN l : /\ Waived(l) = {i}
                                /\ FirstWaiver(l[i])
                                /\ l[i].waiver.decision = w.chain
  /\ \A i \in DOMAIN l : w.id \notin References(l[i])

Recent(l, t) == {i \in DOMAIN l : l[i].at >= t - Window}

MatchingPrior(l, w) ==
  {i \in DOMAIN l :
     /\ l[i].full
     /\ l[i].sha = w.prior
     /\ IF w.chain = None
          THEN l[i].waiver = None
          ELSE FirstWaiver(l[i]) /\ l[i].waiver.decision = w.chain}

FullAllowed(l, q, t) ==
  LET recent == {i \in Recent(l, t) : l[i].full}
  IN /\ \A i \in DOMAIN l : l[i].full => l[i].sha # q.sha
     /\ q.waiver = None => recent = {}
     /\ q.waiver # None =>
          \E p \in DOMAIN l : /\ MatchingPrior(l, q.waiver) = {p}
                              /\ l[p].at < t
                              /\ recent \subseteq {p}

RoutineSum(l, S) ==
  MapThenSumSet(LAMBDA i : l[i].cap, {i \in S : ~l[i].full})

Allowed(l, q, t) ==
  /\ ApprovalUnused(l, q)
  /\ q.waiver # None => WaiverUnused(l, q.waiver)
  /\ IF q.full
       THEN FullAllowed(l, q, t)
       ELSE RoutineSum(l, Recent(l, t)) + q.cap <= RollingCap

Prior(l, q) ==
  IF q.waiver = None THEN 0 ELSE CHOOSE p \in MatchingPrior(l, q.waiver) : TRUE

-----------------------------------------------------------------------------
Init ==
  /\ now = 0
  /\ lock = None
  /\ ledger = <<>>
  /\ pc = [r \in Runners |-> "idle"]
  /\ req = [r \in Runners |-> None]
  /\ at = [r \in Runners |-> 0]
  /\ place = [r \in Runners |-> 0]
  /\ asked = [r \in Runners |-> 0]
  /\ spent = [r \in Runners |-> 0]
  /\ last = [r \in Runners |-> 0]

Goto(r, label) == pc' = [pc EXCEPT ![r] = label]

\* The request is validated and the clock is read, before the lock.  A request
\* that is not acceptable changes nothing.
Start(r) ==
  /\ pc[r] = "idle"
  /\ \E q \in {q \in Requests : Acceptable(q)} : req' = [req EXCEPT ![r] = q]
  /\ at' = [at EXCEPT ![r] = now]
  /\ Goto(r, "timed")
  /\ UNCHANGED <<now, lock, ledger, place, asked, spent, last>>

\* The lock file is created, or exists already and the run is refused.
Lock(r) ==
  /\ pc[r] = "timed"
  /\ IF lock = None
       THEN lock' = r /\ Goto(r, "locked")
       ELSE Goto(r, "refused") /\ UNCHANGED lock
  /\ UNCHANGED <<now, ledger, req, at, place, asked, spent, last>>

\* Every record is read and every rule applied.
Scan(r) ==
  /\ pc[r] = "locked"
  /\ Goto(r, IF Readable(ledger, at[r]) /\ Allowed(ledger, req[r], at[r])
               THEN "allowed" ELSE "leaving")
  /\ UNCHANGED <<now, lock, ledger, req, at, place, asked, spent, last>>

\* The record's file is created, still without its content.
Create(r) ==
  /\ pc[r] = "allowed"
  /\ ledger' = Append(ledger, Entry(req[r], at[r], Prior(ledger, req[r])))
  /\ place' = [place EXCEPT ![r] = Len(ledger) + 1]
  /\ Goto(r, "writing")
  /\ UNCHANGED <<now, lock, req, at, asked, spent, last>>

\* The record is written and synced, or that fails and the file stays as it is.
Write(r) ==
  /\ pc[r] = "writing"
  /\ \/ /\ ledger' = [ledger EXCEPT ![place[r]].whole = TRUE]
        /\ Goto(r, "reserved")
     \/ Goto(r, "leaving") /\ UNCHANGED ledger
  /\ UNCHANGED <<now, lock, req, at, place, asked, spent, last>>

\* The lock is removed; if that fails the run stops and the lock stays.
Unlock(r) ==
  /\ pc[r] \in {"reserved", "leaving"}
  /\ \/ /\ lock' = None
        /\ Goto(r, IF pc[r] = "reserved" THEN "asking" ELSE "refused")
     \/ Goto(r, "refused") /\ UNCHANGED lock
  /\ UNCHANGED <<now, ledger, req, at, place, asked, spent, last>>

\* Mutation: the loop looks for a next case after the last one.
AskOneMore(r) ==
  /\ pc[r] = "asking"
  /\ asked' = [asked EXCEPT ![r] = @ + 1]
  /\ \E c \in CaseCosts :
       /\ last' = [last EXCEPT ![r] = c]
       /\ spent' = [spent EXCEPT ![r] = @ + c]
       /\ \/ Goto(r, "done")
          \/ /\ asked[r] < req[r].cases
             /\ spent[r] + c < req[r].cap
             /\ UNCHANGED pc
  /\ UNCHANGED <<now, lock, ledger, req, at, place>>

\* One case is asked and its cost known; the loop ends at the last case or
\* when the cap is reached.  A case whose cost is unknown ends it at once.
Ask(r) ==
  /\ pc[r] = "asking"
  /\ asked' = [asked EXCEPT ![r] = @ + 1]
  /\ \E c \in CaseCosts :
       /\ last' = [last EXCEPT ![r] = c]
       /\ spent' = [spent EXCEPT ![r] = @ + c]
       /\ \/ Goto(r, "done")
          \/ /\ asked[r] + 1 < req[r].cases
             /\ spent[r] + c < req[r].cap
             /\ UNCHANGED pc
  /\ UNCHANGED <<now, lock, ledger, req, at, place>>

\* The process dies with the lock in hand; files stay as they are.  A death
\* outside the lock leaves nothing that another runner could see.
Crash(r) ==
  /\ pc[r] \in {"locked", "allowed", "writing", "reserved", "leaving"}
  /\ Goto(r, "dead")
  /\ UNCHANGED <<now, lock, ledger, req, at, place, asked, spent, last>>

\* A person removes the lock of a process that is gone.
RemoveLock ==
  /\ lock # None
  /\ pc[lock] \in {"dead", "refused"}
  /\ lock' = None
  /\ UNCHANGED <<now, ledger, pc, req, at, place, asked, spent, last>>

Tick ==
  /\ now < MaxTime
  /\ now' = now + 1
  /\ UNCHANGED <<lock, ledger, pc, req, at, place, asked, spent, last>>

Step(r) ==
  \/ Start(r) \/ Lock(r) \/ Scan(r) \/ Create(r) \/ Write(r) \/ Unlock(r)
  \/ Ask(r) \/ Crash(r)

Next == RemoveLock \/ Tick \/ \E r \in Runners : Step(r)

Spec == Init /\ [][Next]_vars

-----------------------------------------------------------------------------
EntryShape ==
  [full : BOOLEAN, cap : Nat, sha : {q.sha : q \in Requests}, at : 0..MaxTime,
   whole : BOOLEAN, approval : {q.approval : q \in Requests} \cup {None},
   waiver : {q.waiver : q \in Requests} \cup {None}, waived : Nat]

\* The state has the shape the comments above give it: a runner that has a
\* place has a record there, and the lock belongs to a runner that took it.
TypeOK ==
  /\ now \in 0..MaxTime
  /\ lock \in Runners \cup {None}
  /\ ledger \in Seq(EntryShape)
  /\ pc \in [Runners -> {"idle", "timed", "locked", "allowed", "writing",
                         "reserved", "leaving", "asking", "done", "refused", "dead"}]
  /\ req \in [Runners -> Requests \cup {None}]
  /\ at \in [Runners -> 0..MaxTime]
  /\ place \in [Runners -> 0..Len(ledger)]
  /\ \A r \in Runners : asked[r] > 0 => asked[r] <= req[r].cases
  /\ \A r \in Runners : spent[r] \in Nat /\ last[r] \in CaseCosts \cup {0}

WholeOnes == {i \in DOMAIN ledger : ledger[i].whole}

\* In no 24 hours, however they are laid, do the routine reservations exceed
\* the rolling cap, though every runner read the clock before it had the lock.
RoutineWithinCap ==
  \A t \in 0..MaxTime :
    RoutineSum(ledger, {i \in WholeOnes : ledger[i].at \in t..(t + Window)})
      <= RollingCap

\* Two complete full evaluations are of different candidates; when they are
\* reserved within 24 hours, the second names the first in its waiver.
FullOnce ==
  \A i, j \in WholeOnes :
    (i < j /\ ledger[i].full /\ ledger[j].full) =>
      /\ ledger[i].sha # ledger[j].sha
      /\ ledger[j].at - ledger[i].at <= Window => ledger[j].waived = i

\* An owner's reference, whether it approves or waives, is used once for ever.
ReferenceOnce ==
  \A i, j \in DOMAIN ledger :
    i # j =>
      {ledger[i].approval, IF ledger[i].waiver = None THEN None ELSE ledger[i].waiver.id}
      \intersect
      {ledger[j].approval, IF ledger[j].waiver = None THEN None ELSE ledger[j].waiver.id}
      \subseteq {None}

\* Whoever asks has a complete record of its own, and every case but the last
\* was asked below the cap the record reserves.
PaidAsReserved ==
  \A r \in Runners : asked[r] > 0 =>
    /\ place[r] \in WholeOnes
    /\ \A s \in Runners \ {r} : place[s] # place[r]
    /\ spent[r] - last[r] < ledger[place[r]].cap

\* A record that its writer left incomplete stops the ledger: no record is
\* ever added after it.
Abandoned ==
  \E i \in DOMAIN ledger : /\ ~ledger[i].whole
                           /\ \A r \in Runners : place[r] = i => pc[r] # "writing"

ClosedByAbandoned == Abandoned => Len(ledger') = Len(ledger)

\* The ledger, as a book in which a reservation is made in one step.
Book == INSTANCE ReservationBook WITH
  Payers <- Runners, Costs <- CaseCosts, NoReference <- None,
  book <- ledger, account <- place, paid <- spent

BookStep == [Book!Next]_(Book!bookVars)

\* The ledger holds: nothing is asked that it did not admit, once, within its limits, and
\* what it cannot read stops it; with the clock read before the lock, a scan before the
\* record and a record before its content, it comes to a book of reservations at one step.
LedgerHolds ==
  /\ [](RoutineWithinCap /\ FullOnce /\ ReferenceOnce /\ PaidAsReserved)
  /\ [][ClosedByAbandoned]_vars
  /\ Book!BookSpec
=============================================================================
