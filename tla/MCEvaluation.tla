----------------------------- MODULE MCEvaluation -----------------------------
(***************************************************************************)
(* The evaluation side for TLC: the cost ledger, the registry of private   *)
(* datasets, the one-shot evaluations, the launcher of candidates and the  *)
(* signed proof.  They share no state, so a behaviour moves one of them    *)
(* and leaves the others where they start: part says which, and in which   *)
(* instance.  The state space is the sum of theirs, and every property is  *)
(* theirs, for the instance that may break it.                             *)
(*                                                                         *)
(* The proof is the module that this one extends.  There a second has two  *)
(* ticks, so that a timestamp is cut to whole seconds; the key outlives    *)
(* the proof by one second, and a SET takes up to two ticks, the most that *)
(* is safe.  The others are instances of the module with their proofs, so  *)
(* that what is proved of a component can be cited of its instance;        *)
(* BypassProofProofs does so, for any constants.                           *)
(***************************************************************************)
EXTENDS BypassProof, TLC

CONSTANTS    \* of the cost ledger: routine runs, full runs, and a chain of waivers
    Runners, Requests, Window, RollingCap, RoutineMaxCost, RoutineMaxCases, CaseCosts, LastDay,
    FullRequests,
    ChainRunners, ChainRequests, ChainWindow, LastChainDay

CONSTANTS    \* of the registry
    Refs, Supersedes, Contents, Sealed, Commands, Operations, MaxEdits, MaxCrashes

CONSTANTS    \* of the evaluations: private ones, those amid deployments, and paid ones
    Runs, Modes, Runtimes, Paths, None, CasesTotal, Cap, MaxCost, MaxDeploys, MaxFaults,
    DeployedCases, DeployedCap, DeployedCost, Deployments,
    PaidModes, PaidRuntimes, PaidPaths

CONSTANTS    \* of the launcher: of one commit, and beside a moving server
    Jobs, Shas, MaxRestarts, MaxReindex, MaxFailures,
    MovingJobs, MovingShas, Restarts, Reindexings, MovingFailures

CONSTANTS
    sha1, sha2, sha3,                \* releases
    o1, o2, o3, w1, w2, d1, d2,      \* an owner's approvals, waivers and decisions
    v1, v2, good                     \* versions of a dataset, and what they hold

VARIABLES
    part,
    day, lock, ledger, pc, req, at, place, costAsked, costSpent, last,
    registry, disk, cmdPc, cmd, copy, edits, crashes,
    started, completed, report, reserved, markers, rejected, release, run, asked,
    traced, spent, by, deploys, faults,
    container, receipt, runStarted, runCompleted, evidence, prod, index, secrets, staging,
    job, jobAsked, jobFaults

ledgerVars   == <<day, lock, ledger, pc, req, at, place, costAsked, costSpent, last>>
registryVars == <<registry, disk, cmdPc, cmd, copy, edits, crashes>>
evalVars     == <<started, completed, report, reserved, markers, rejected, release, run,
                  asked, traced, spent, by, deploys, faults>>
launchVars   == <<container, receipt, runStarted, runCompleted, evidence, prod, index,
                  secrets, staging, job, jobAsked, jobFaults>>
evaluationVars == <<part, ledgerVars, registryVars, evalVars, launchVars, vars>>

-----------------------------------------------------------------------------
\* What TLC takes for Requests, Operations and Supersedes.  A day is two ticks.

Routine(cap, cases, approval) ==
  [full |-> FALSE, cap |-> cap, cases |-> cases, sha |-> sha1, approval |-> approval,
   optional |-> FALSE, waiver |-> None]
FullRun(sha, approval, waiver) ==
  [full |-> TRUE, cap |-> 3, cases |-> 1, sha |-> sha, approval |-> approval,
   optional |-> FALSE, waiver |-> waiver]
FirstWaiver(id, prior) == [id |-> id, decision |-> d1, prior |-> prior, chain |-> None]
SecondWaiver(id, prior) == [id |-> id, decision |-> d2, prior |-> prior, chain |-> d1]

\* A routine run that needs no approval, one that does, and one that consumes
\* an approval it does not need.
RoutineRuns ==
  {Routine(1, 2, None), Routine(4, 3, o1), [Routine(3, 1, o2) EXCEPT !.optional = TRUE]}

\* A full run and its repetition, and runs with a first waiver, one of them under a
\* reference that is already an approval.
FullRuns ==
  {FullRun(sha1, o1, None), FullRun(sha1, o2, None), FullRun(sha2, o2, FirstWaiver(w1, sha1)),
   FullRun(sha3, o3, FirstWaiver(w1, sha1)), FullRun(sha2, o2, FirstWaiver(o1, sha1))}

\* Three full runs, each compared with the one of the day before, and a third that is
\* approved by the reference of the first waiver.
ChainOfRuns ==
  {FullRun(sha1, o1, None), FullRun(sha2, o2, FirstWaiver(w1, sha1)),
   FullRun(sha3, w1, SecondWaiver(w2, sha2))}

\* One command of any kind after another; v2 supersedes v1.
OnBoth(name) == {[name |-> name, ref |-> v, successor |-> None] : v \in {v1, v2}}
AllOperations ==
  OnBoth("register") \cup OnBoth("review") \cup OnBoth("complete") \cup OnBoth("freeze")
  \cup {[name |-> "supersede", ref |-> a, successor |-> b] : a, b \in {v1, v2}}
TwoVersions == (v1 :> None) @@ (v2 :> v1)

-----------------------------------------------------------------------------
\* Three instances of the ledger (two or three runners), the evaluations (two at once) and,
\* of two, the launcher; the registry is the first one's.
\*
\* The evaluations: sealed ones and replays for two runtimes, of two cases that may use the
\* budget up, or of one free case while the bot is deployed; and those whose subject is the
\* money, with a report path to quarrel about.  The launchers: three of one commit, and two of
\* two commits while the server changes and something fails.

One == INSTANCE EvalRunProofs
Two == INSTANCE EvalRunProofs WITH
    Requests <- FullRequests,
    CasesTotal <- DeployedCases, Cap <- DeployedCap, MaxCost <- DeployedCost,
    MaxDeploys <- Deployments,
    Jobs <- MovingJobs, Shas <- MovingShas, MaxRestarts <- Restarts, MaxReindex <- Reindexings,
    MaxFailures <- MovingFailures
Three == INSTANCE EvalRunProofs WITH
    Runners <- ChainRunners, Requests <- ChainRequests, Window <- ChainWindow,
    LastDay <- LastChainDay,
    Modes <- PaidModes, Runtimes <- PaidRuntimes, Paths <- PaidPaths

ASSUME EvaluationAssumption ==
    /\ One!Cost!Assumptions /\ Two!Cost!Assumptions /\ Three!Cost!Assumptions
    /\ One!Registry!Assumptions /\ One!OneAtATime
    /\ One!Assumptions /\ Two!Assumptions /\ Three!Assumptions
    /\ MaxDeploys <= 1 /\ Deployments <= 1
    /\ One!Run!Assumptions /\ Two!Run!Assumptions
    /\ Assumptions

-----------------------------------------------------------------------------

EvaluationInit ==
    /\ part \in {"routine", "full", "chain", "registry", "private", "deployed", "paid", "commit",
                 "moving", "proof"}
    /\ IF part = "chain" THEN Three!Cost!Init ELSE One!Cost!Init
    /\ One!Registry!Init /\ (part # "registry" => disk = [v \in Refs |-> good])
    /\ CASE part = "private"  -> One!Init
         [] part = "deployed" -> Two!Init
         [] OTHER             -> Three!Init
    /\ IF part = "moving" THEN Two!Run!Init ELSE One!Run!Init
    /\ Init

\* The named part moves and the others stand still.
Alone(name, others) == part = name /\ UNCHANGED <<part, others>>

EvaluationNext ==
    \/ Alone("routine", <<registryVars, evalVars, launchVars, vars>>) /\ One!Cost!Next
    \/ Alone("full", <<registryVars, evalVars, launchVars, vars>>) /\ Two!Cost!Next
    \/ Alone("chain", <<registryVars, evalVars, launchVars, vars>>) /\ Three!Cost!Next
    \/ Alone("registry", <<ledgerVars, evalVars, launchVars, vars>>) /\ One!Registry!Next
    \/ Alone("private", <<ledgerVars, registryVars, launchVars, vars>>) /\ One!Next
    \/ Alone("deployed", <<ledgerVars, registryVars, launchVars, vars>>) /\ Two!Next
    \/ Alone("paid", <<ledgerVars, registryVars, launchVars, vars>>) /\ Three!Next
    \/ Alone("commit", <<ledgerVars, registryVars, evalVars, vars>>) /\ One!Run!Next
    \/ Alone("moving", <<ledgerVars, registryVars, evalVars, vars>>) /\ Two!Run!Next
    \/ Alone("proof", <<ledgerVars, registryVars, evalVars, launchVars>>) /\ Next

EvaluationSpec == EvaluationInit /\ [][EvaluationNext]_evaluationVars

-----------------------------------------------------------------------------

\* The variables of the part that moves have their types.
PartsTyped ==
    CASE part = "routine"  -> One!Cost!TypeOK
      [] part = "full"     -> Two!Cost!TypeOK
      [] part = "chain"    -> Three!Cost!TypeOK
      [] part = "registry" -> One!Registry!TypeOK
      [] part = "private"  -> One!TypeOK
      [] part = "deployed" -> Two!TypeOK
      [] part = "paid"     -> Three!TypeOK
      [] part = "commit"   -> One!Run!TypeOK
      [] part = "moving"   -> Two!Run!TypeOK
      [] part = "proof"    -> TypeOK

\* In no 24 hours, however they are laid, do routine reservations exceed the rolling cap; two
\* full evaluations are of different candidates, and within 24 hours the second names the
\* first; an owner's reference is used once for ever; whoever asks has a reservation of its
\* own and asks nothing once its cap is reached; and a record that its writer abandoned stops
\* the ledger (cost_governance.py, reserve_eval_cost; run_ask.py, the loop over the cases).
LedgerHolds ==
    /\ [](/\ part = "routine" => One!Cost!RoutineWithinCap /\ One!Cost!PaidAsReserved
          /\ part = "full" => Two!Cost!FullOnce /\ Two!Cost!ReferenceOnce
          /\ part = "chain" => Three!Cost!FullOnce /\ Three!Cost!ReferenceOnce)
    /\ part = "routine" => One!Cost!Book!Init
    /\ part = "full" => Two!Cost!Book!Init
    /\ part = "chain" => Three!Cost!Book!Init
    /\ [][/\ part = "routine" => One!Cost!ClosedByAbandoned /\ One!Cost!BookStep
          /\ part = "full" => Two!Cost!ClosedByAbandoned /\ Two!Cost!BookStep
          /\ part = "chain" => Three!Cost!ClosedByAbandoned /\ Three!Cost!BookStep]_ledgerVars

\* A frozen version of a private dataset is bound to bytes that passed every check and changes
\* only by being superseded, by a frozen one that names it (private_dataset_registry.py).
FreezeIsFinal ==
    /\ [](part = "registry" => One!Registry!FrozenIsSealed /\ One!Registry!SupersededByFrozen)
    /\ One!Registry!FrozenStays

\* A selection is put to the bot once under seal and once per runtime as a replay, and not
\* under seal after it was replayed (run_ask.py, the exclusive started receipt).
AskedOnce ==
    /\ [](/\ part = "private" => One!OneShot
          /\ part = "deployed" => Two!OneShot)
    /\ [][/\ part = "private" => One!FreshStart
          /\ part = "deployed" => Two!FreshStart]_evalVars

\* No case is asked that is not paid for and on record, whatever stops the run; the spending
\* exceeds the cap by less than one case; Phase 0 ends with a report or with evidence of its
\* failure; a completed receipt stands for a sound report over every case, and a whole report
\* was answered by the release it names (run_ask.py, run_eval).
RunIsOnRecord ==
    /\ part = "private" => One!RunIsOnRecord
    /\ part = "deployed" => Two!RunIsOnRecord
    /\ part = "paid" => Three!RunIsOnRecord

\* The cases are asked of a commit by one run at most; no launcher removes the container of
\* another; a published directory leaves its container's name free; what is left behind is
\* told; and a completed run asked its own container, with production and the index as its
\* preflight had verified them (run_pilot50_candidate_server_local.sh).
LaunchIsSound ==
    /\ [](/\ part = "commit" => One!Run!OneAsk
          /\ part = "moving" => Two!Run!PublishedGone /\ Two!Run!NothingLeft
                                  /\ Two!Run!CompletedSound)
    /\ [][part = "commit" => One!Run!KeepsForeign]_launchVars
=============================================================================
