-------------------------------- MODULE EvalRun --------------------------------
(***************************************************************************)
(* One-shot evaluations against the live bot (eval/run_ask.py, run_eval):  *)
(* the sealed holdout, its calibration replay, Phase 0 and the Pilot50     *)
(* candidate.  Each opens the trace database, reserves its cost, verifies  *)
(* the runtime before and after, asks its cases one after another and      *)
(* judges what it got.  A holdout or a replay records in a ledger of       *)
(* receipts that it has started and that it has completed, so that what    *)
(* has been asked once is not asked again.  Every file is created          *)
(* exclusively (O_EXCL), in place: a failed write leaves a torn file.      *)
(*                                                                         *)
(* There is no clock: a day may pass between any two steps.  The cost      *)
(* ledger grants a full run once per runtime; its own protocol is          *)
(* CostLedger.  There is one selection of cases in one file.               *)
(***************************************************************************)
EXTENDS Naturals

CONSTANTS
  Runs,        \* invocations of run_eval
  Modes,       \* kinds of evaluation that are run
  Runtimes,    \* release SHAs
  Paths,       \* where reports are written
  None,
  CasesTotal,  \* cases of the selection
  Cap,         \* max_llm_cost_rub
  MaxCost,     \* what the answer to one case may cost
  MaxDeploys,  \* bound: releases deployed meanwhile
  MaxFaults    \* bound: writes that fail, closings that fail and crashes

\* What is assumed of the constants.
Assumptions ==
  /\ CasesTotal \in Nat \ {0} /\ Cap \in Nat \ {0}
  /\ MaxCost \in Nat /\ MaxDeploys \in Nat /\ MaxFaults \in Nat
  /\ "sealed" \notin Runtimes
  /\ None \notin Modes \cup Runtimes \cup Paths \cup {"sealed", "replay", "phase0"}
  /\ None \notin [run : Runs, whole : BOOLEAN]

VARIABLES
  started, completed,  \* the receipts of a key: who wrote it, and is it whole
  report,              \* the canonical report at each path, likewise
  reserved,            \* runs that the cost ledger holds a reservation of
  markers,             \* private runs with a full-eval reservation marker
  rejected,            \* runs that left rejection evidence
  release,             \* the release the bot runs
  run,                 \* the local state of each invocation
  asked, traced,       \* cases a run posted; rows the bot wrote for them
  spent,               \* history: what its answers cost
  by,                  \* history: the releases that answered it
  deploys, faults

files == <<started, completed, report, reserved, markers, rejected>>
served == <<asked, traced, spent, by>>
vars == <<files, release, run, served, deploys, faults>>

Private == {"sealed", "replay"}
Full == {"sealed", "replay", "candidate"}

\* A sealed selection has one key whatever its contract's runtime, a replay of
\* it one per runtime.
Key(r) == IF run[r].mode = "sealed" THEN "sealed" ELSE run[r].runtime
Keys == {"sealed"} \cup Runtimes

Whole(r) == [run |-> r, whole |-> TRUE]
Torn(r) == [run |-> r, whole |-> FALSE]

Idle ==
  [mode |-> None, runtime |-> None, path |-> None, pc |-> "new", done |-> 0,
   seen |-> 0, flawed |-> FALSE, stop |-> "none", exact |-> FALSE]

-----------------------------------------------------------------------------
Init ==
  /\ started = [k \in Keys |-> None]
  /\ completed = [k \in Keys |-> None]
  /\ report = [p \in Paths |-> None]
  /\ reserved = {} /\ markers = {} /\ rejected = {}
  /\ release \in Runtimes
  /\ run = [r \in Runs |-> Idle]
  /\ asked = [r \in Runs |-> 0]
  /\ traced = [r \in Runs |-> 0]
  /\ spent = [r \in Runs |-> 0]
  /\ by = [r \in Runs |-> {}]
  /\ deploys = 0
  /\ faults = 0

Goto(r, label) == run' = [run EXCEPT ![r].pc = label]

\* The failure is put on record where the kind of run has a record for it.
Fail(r, recorded) == Goto(r, IF run[r].mode \in recorded THEN "reject" ELSE "ended")

Fault == faults < MaxFaults /\ faults' = faults + 1
NoFault == UNCHANGED faults

-----------------------------------------------------------------------------

\* A replay needs a valid receipt of the sealed run, a sealed run that there is
\* no receipt of a replay; a torn receipt is an error for both.
Exposure(mode) ==
  /\ mode = "sealed" =>
       \A k \in Runtimes : started[k] = None /\ completed[k] = None
  /\ mode = "replay" =>
       LET receipts == {started["sealed"], completed["sealed"]} \ {None}
       IN receipts # {} /\ \A f \in receipts : f.whole

\* A run that is not admitted raises before it has changed anything.
Begin(r) ==
  /\ run[r].pc = "new"
  /\ \E mode \in Modes, runtime \in Runtimes, path \in Paths :
       LET key == IF mode = "sealed" THEN "sealed" ELSE runtime
           taken == report[path] # None
           receipts == started[key] # None \/ completed[key] # None
       IN /\ Exposure(mode)
          /\ mode = "phase0" => ~taken
          /\ run' = [run EXCEPT ![r] = [Idle EXCEPT
               !.mode = mode, !.runtime = runtime, !.path = path,
               !.pc = IF mode \in Private /\ (taken \/ receipts)
                        THEN "reject" ELSE "pool"]]
  /\ NoFault /\ UNCHANGED <<files, release, served, deploys>>

OpenPool(r) ==
  /\ run[r].pc = "pool"
  /\ \/ Goto(r, IF run[r].mode \in Private THEN "cost" ELSE "preflight")
     \/ Fail(r, Private)
  /\ NoFault /\ UNCHANGED <<files, release, served, deploys>>

\* What the cost ledger grants at most: a full run once per runtime, the
\* approval of Phase 0 once.
Grantable(r) ==
  \A s \in reserved :
    /\ run[r].mode \in Full =>
         ~(run[s].mode \in Full /\ run[s].runtime = run[r].runtime)
    /\ run[r].mode = "phase0" => run[s].mode # "phase0"

\* Phase 0 counts as started with the call, so a refusal is on record as well.
ReserveCost(r) ==
  /\ run[r].pc = "cost"
  /\ \/ /\ Grantable(r)
        /\ reserved' = reserved \cup {r}
        /\ Goto(r, IF run[r].mode \in Private THEN "marker" ELSE "ask")
     \/ /\ Fail(r, Private \cup {"phase0"})
        /\ UNCHANGED reserved
  /\ NoFault
  /\ UNCHANGED <<started, completed, report, markers, rejected, release, served,
                 deploys>>

\* Refused for another run within a day, for a consumed approval, for a receipt
\* that cannot be read, or when the marker cannot be written.
ReserveMarker(r) ==
  /\ run[r].pc = "marker"
  /\ \/ /\ \A k \in Keys : started[k] # None => started[k].whole
        /\ markers' = markers \cup {r}
        /\ Goto(r, "preflight")
     \/ /\ Fail(r, Private)
        /\ UNCHANGED markers
  /\ NoFault
  /\ UNCHANGED <<started, completed, report, reserved, rejected, release, served,
                 deploys>>

\* The signed readiness check of the runtime.
Preflight(r) ==
  /\ run[r].pc = "preflight"
  /\ \/ /\ release = run[r].runtime
        /\ Goto(r, IF run[r].mode \in Private THEN "receipt" ELSE "cost")
     \/ Fail(r, Private)
  /\ NoFault /\ UNCHANGED <<files, release, served, deploys>>

\* Mutation: the receipt is written over one that is there.
StartedReplaced(r) ==
  /\ run[r].pc = "receipt"
  /\ NoFault /\ Goto(r, "ask")
  /\ started' = [started EXCEPT ![Key(r)] = Whole(r)]
  /\ UNCHANGED <<completed, report, reserved, markers, rejected, release, served,
                 deploys>>

CreateStarted(r) ==
  /\ run[r].pc = "receipt"
  /\ \/ started[Key(r)] # None /\ NoFault /\ Fail(r, Private) /\ UNCHANGED started
     \/ /\ started[Key(r)] = None
        /\ \/ NoFault /\ Goto(r, "ask")
              /\ started' = [started EXCEPT ![Key(r)] = Whole(r)]
           \/ Fault /\ Fail(r, Private)
              /\ started' = [started EXCEPT ![Key(r)] = Torn(r)]
  /\ UNCHANGED <<completed, report, reserved, markers, rejected, release, served,
                 deploys>>

-----------------------------------------------------------------------------

\* What the loop makes of an answer: an unaccounted one stops the run, and so
\* does the budget when it is spent and cases remain, or overspent.
Accounted(r, cost, outcome) ==
  LET done == run[r].done + 1
      seen == run[r].seen + cost
      over == seen > Cap \/ (done < CasesTotal /\ seen >= Cap)
      stop == IF outcome = "unpriced" THEN "pricing"
              ELSE IF over THEN "budget" ELSE "none"
  IN run' = [run EXCEPT
       ![r].done = done, ![r].seen = seen,
       ![r].flawed = @ \/ outcome # "good",
       ![r].stop = stop,
       ![r].pc = IF stop # "none" \/ done = CasesTotal
                   THEN "postflight" ELSE "ask"]

\* One case: posted, answered by the release of the moment, its trace read.
\* The answer may be flawed (an error, a cache hit, a trace of another case),
\* or its cost unknown, with or without a trace.
Ask(r) ==
  /\ run[r].pc = "ask"
  /\ \E cost \in 0..MaxCost, outcome \in {"good", "flawed", "unpriced"} :
       /\ Accounted(r, cost, outcome)
       /\ spent' = [spent EXCEPT ![r] = @ + cost]
       /\ \E rows \in (IF outcome = "good" THEN {1} ELSE {0, 1}) :
            traced' = [traced EXCEPT ![r] = @ + rows]
  /\ asked' = [asked EXCEPT ![r] = @ + 1]
  /\ by' = [by EXCEPT ![r] = @ \cup {release}]
  /\ NoFault /\ UNCHANGED <<files, release, deploys>>

\* Mutation: the runtime is only verified before the cases.
PostflightSkipped(r) ==
  /\ run[r].pc = "postflight"
  /\ Goto(r, "cardinality")
  /\ NoFault /\ UNCHANGED <<files, release, served, deploys>>

Postflight(r) ==
  /\ run[r].pc = "postflight"
  /\ \/ release = run[r].runtime /\ Goto(r, "cardinality")
     \/ Fail(r, Private \cup {"phase0"})
  /\ NoFault /\ UNCHANGED <<files, release, served, deploys>>

\* The rows of the run are counted per case; the query may fail.
CheckCardinality(r) ==
  /\ run[r].pc = "cardinality"
  /\ \E exact \in {FALSE, traced[r] = CasesTotal} :
       run' = [run EXCEPT ![r].exact = exact, ![r].pc = "close"]
  /\ NoFault /\ UNCHANGED <<files, release, served, deploys>>

ClosePool(r) ==
  /\ run[r].pc = "close"
  /\ \/ NoFault /\ Goto(r, "judge")
     \/ Fault /\ Fail(r, {"phase0"})
  /\ UNCHANGED <<files, release, served, deploys>>

\* The integrity failures of a run.  A holdout that overspends with its last
\* case is complete all the same; Phase 0 and the candidate are not.
Failures(r) ==
  \/ run[r].done # CasesTotal
  \/ run[r].flawed
  \/ ~run[r].exact
  \/ run[r].stop = "pricing"
  \/ run[r].stop = "budget" /\ run[r].mode \notin Private

Judge(r) ==
  /\ run[r].pc = "judge"
  /\ Goto(r, IF Failures(r) THEN "reject" ELSE "report")
  /\ NoFault /\ UNCHANGED <<files, release, served, deploys>>

-----------------------------------------------------------------------------
WriteReport(r) ==
  /\ run[r].pc = "report"
  /\ LET p == run[r].path
     IN \/ /\ report[p] # None
           /\ NoFault /\ Fail(r, Private \cup {"phase0"}) /\ UNCHANGED report
        \/ /\ report[p] = None
           /\ \/ NoFault /\ Goto(r, IF run[r].mode = "phase0" THEN "ended" ELSE "markdown")
                 /\ report' = [report EXCEPT ![p] = Whole(r)]
              \/ Fault /\ Fail(r, Private \cup {"phase0"})
                 /\ report' = [report EXCEPT ![p] = Torn(r)]
  /\ UNCHANGED <<started, completed, reserved, markers, rejected, release, served,
                 deploys>>

WriteMarkdown(r) ==
  /\ run[r].pc = "markdown"
  /\ \/ NoFault /\ Goto(r, IF run[r].mode \in Private THEN "complete" ELSE "ended")
     \/ Fault /\ Fail(r, Private)
  /\ UNCHANGED <<files, release, served, deploys>>

\* The receipt names the report and its hash.
WriteCompleted(r) ==
  /\ run[r].pc = "complete"
  /\ \/ completed[Key(r)] # None /\ NoFault /\ Fail(r, Private) /\ UNCHANGED completed
     \/ /\ completed[Key(r)] = None
        /\ \/ NoFault /\ Goto(r, "ended")
              /\ completed' = [completed EXCEPT ![Key(r)] = Whole(r)]
           \/ Fault /\ Fail(r, Private)
              /\ completed' = [completed EXCEPT ![Key(r)] = Torn(r)]
  /\ UNCHANGED <<started, report, reserved, markers, rejected, release, served,
                 deploys>>

\* The evidence has a name of the run's own; a run that cannot write it ends
\* without.
Reject(r) ==
  /\ run[r].pc = "reject"
  /\ \/ NoFault /\ rejected' = rejected \cup {r} /\ Goto(r, "ended")
     \/ Fault /\ UNCHANGED rejected /\ Goto(r, "lost")
  /\ UNCHANGED <<started, completed, report, reserved, markers, release, served,
                 deploys>>

Crash(r) ==
  /\ run[r].pc \notin {"new", "ended", "lost"}
  /\ Fault /\ Goto(r, "lost")
  /\ UNCHANGED <<files, release, served, deploys>>

Deploy ==
  /\ deploys < MaxDeploys
  /\ release' \in Runtimes \ {release}
  /\ deploys' = deploys + 1
  /\ UNCHANGED <<files, run, served, faults>>

Step(r) ==
  \/ Begin(r) \/ OpenPool(r) \/ ReserveCost(r) \/ ReserveMarker(r) \/ Preflight(r)
  \/ CreateStarted(r) \/ Ask(r) \/ Postflight(r) \/ CheckCardinality(r) \/ ClosePool(r)
  \/ Judge(r) \/ WriteReport(r) \/ WriteMarkdown(r) \/ WriteCompleted(r)
  \/ Reject(r) \/ Crash(r)

Next == Deploy \/ \E r \in Runs : Step(r)

Spec == Init /\ [][Next]_vars

-----------------------------------------------------------------------------
File == {None} \cup [run : Runs, whole : BOOLEAN]

Labels ==
  {"new", "pool", "cost", "marker", "preflight", "receipt", "ask", "postflight",
   "cardinality", "close", "judge", "report", "markdown", "complete", "reject",
   "ended", "lost"}

\* Types; only a holdout or a replay has a marker or receipts, and each receipt
\* is one of its own key (the file names of run_ask.py:1183-1188).
TypeOK ==
  /\ started \in [Keys -> File] /\ completed \in [Keys -> File]
  /\ report \in [Paths -> File]
  /\ reserved \subseteq Runs /\ rejected \subseteq Runs
  /\ markers \subseteq {r \in reserved : run[r].mode \in Private}
  /\ \A k \in Keys : \A f \in {started[k], completed[k]} \ {None} : Key(f.run) = k
  /\ release \in Runtimes
  /\ \A r \in Runs :
       /\ run[r].mode \in Modes \cup {None} /\ run[r].pc \in Labels
       /\ run[r].runtime \in Runtimes \cup {None} /\ run[r].path \in Paths \cup {None}
       /\ run[r].done = asked[r] /\ asked[r] \in 0..CasesTotal
       /\ traced[r] \in 0..asked[r]
       /\ by[r] \subseteq Runtimes
  /\ deploys \in 0..MaxDeploys /\ faults \in 0..MaxFaults

\* The selection is put to the bot once under seal, and once per runtime as a
\* replay, whatever crashes, fails or runs at the same time (started receipt
\* created exclusively, run_ask.py:1596-1647).
OneShot ==
  \A r, s \in Runs :
    (r # s /\ run[r].mode \in Private /\ run[s].mode \in Private /\ Key(r) = Key(s))
      => asked[r] = 0 \/ asked[s] = 0

\* A sealed evaluation does not start on a selection that a replay has been
\* shown to the bot with (run_ask.py:1134-1159, 4274-4389).
FreshStart ==
  started'["sealed"] # started["sealed"] =>
    \A s \in Runs : run[s].mode = "replay" => asked[s] = 0

\* No case is asked that is not paid for and, in a private run, on record as
\* started: what a crash leaves behind always tells (run_ask.py:1457-1535, 1596).
PaidOnRecord ==
  \A r \in Runs : asked[r] > 0 =>
    /\ r \in reserved
    /\ run[r].mode \in Private => r \in markers /\ started[Key(r)] = Whole(r)

\* A completed receipt stands for a report that is still the run's own and
\* whole, over every case, each with its trace and none flawed
\* (_holdout_integrity_failures and the finalization, run_ask.py:2172-2295).
CompletedIsSound ==
  \A k \in Keys : completed[k] # None =>
    LET r == completed[k].run
    IN /\ report[run[r].path] = Whole(r)
       /\ asked[r] = CasesTotal /\ traced[r] = CasesTotal
       /\ ~run[r].flawed /\ run[r].stop # "pricing"

\* A whole report was answered by the release it names: a deployment during the
\* run is noticed (the readiness checks of run_ask.py:1565 and 1804).
ReportOfItsRuntime ==
  \A p \in Paths : (report[p] # None /\ report[p].whole) =>
    by[report[p].run] = {run[report[p].run].runtime}

\* What is really spent exceeds the cap by less than one case, cases whose
\* cost the run never learns included (the loop of run_ask.py:1749-1794).
SpendBounded == \A r \in Runs : spent[r] < Cap + MaxCost

\* Phase 0, once its cost is reserved, ends with a report or with evidence of
\* its failure, unless it dies or cannot write (docs/DECISIONS.md:542-543).
Phase0OnRecord ==
  \A r \in Runs :
    (run[r].mode = "phase0" /\ run[r].pc = "ended" /\ r \in reserved) =>
      r \in rejected \/ report[run[r].path] = Whole(r)

\* A selection is spent by being asked, under seal or in a replay.
AskedOnce == []OneShot /\ [][FreshStart]_vars

\* What was asked, paid for and answered is what the files of the run say, however it ends.
RunIsOnRecord ==
  /\ PaidOnRecord /\ SpendBounded /\ Phase0OnRecord
  /\ CompletedIsSound /\ ReportOfItsRuntime
=============================================================================
