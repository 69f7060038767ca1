---------------------------- MODULE CandidateRunner ----------------------------
(***************************************************************************)
(* The launcher of a Pilot50 candidate on the production server            *)
(* (scripts/run_pilot50_candidate_server_local.sh).  A commit is tried out *)
(* in a container of its own beside production: preflight builds, starts,  *)
(* verifies and removes it and publishes the run directory of the commit;  *)
(* run, once per directory, starts it again and asks the paid cases;       *)
(* cleanup removes what an earlier launcher left.  Docker lets one         *)
(* container have the name.  A launcher may fail at any step, be           *)
(* interrupted (its EXIT trap cleans up) or be killed (nothing does), and  *)
(* production may be restarted and its index rebuilt meanwhile.            *)
(*                                                                         *)
(* One generation of the dataset, one checkout per launcher; the sources,  *)
(* the compose file and the container's isolation are taken to verify or   *)
(* to fail.  The evaluation itself is EvalRun.                             *)
(***************************************************************************)
EXTENDS Naturals, FiniteSets

CONSTANTS
  Jobs,         \* launchers in mode preflight or run; a job's container has its id
  Shas,         \* candidate commits
  None,
  MaxRestarts,  \* bound: restarts of production
  MaxReindex,   \* bound: changes of the knowledge base and its index
  MaxFaults     \* bound: commands of Docker and removals that fail, kills

\* What is assumed of the constants.
Assumptions ==
  /\ None \notin Jobs
  /\ MaxRestarts \in Nat /\ MaxReindex \in Nat /\ MaxFaults \in Nat

VARIABLES
  container,           \* who has the name rosmol-pilot50-candidate-ml
  receipt,             \* the run directory of a commit, with preflight.receipt
  started, completed,  \* run.started and run.completed in it: who wrote them
  report,              \* the canonical report in its evidence, and its writer
  prod, index,         \* identity of production and of its index
  secrets, staging,    \* jobs whose env files in /run, whose staging exist
  job,                 \* the local state of each launcher
  asked,               \* history: jobs whose cases were asked, and amid what
  faults

runDir == <<receipt, started, completed, report>>
server == <<prod, index>>
vars == <<container, runDir, server, secrets, staging, job, asked, faults>>

Idle == [mode |-> None, sha |-> None, pc |-> "new", id |-> None,
         prod |-> 0, index |-> 0, dirty |-> FALSE]

-----------------------------------------------------------------------------
Init ==
  /\ container = None
  /\ receipt = [s \in Shas |-> None]
  /\ started = [s \in Shas |-> None]
  /\ completed = [s \in Shas |-> None]
  /\ report = [s \in Shas |-> None]
  /\ prod = 0 /\ index = 0
  /\ secrets = {} /\ staging = {}
  /\ job = [j \in Jobs |-> Idle]
  /\ asked = [s \in Shas |-> {}]
  /\ faults = 0

Goto(j, label) == job' = [job EXCEPT ![j].pc = label]

\* fail: the EXIT trap comes next.
Fail(j) == Goto(j, "exit")

Fault == faults < MaxFaults /\ faults' = faults + 1
NoFault == UNCHANGED faults

-----------------------------------------------------------------------------
Begin(j) ==
  /\ job[j].pc = "new"
  /\ \E mode \in {"preflight", "run"}, s \in Shas :
       job' = [job EXCEPT ![j] = [Idle EXCEPT !.mode = mode, !.sha = s,
                                              !.pc = "check"]]
  /\ NoFault /\ UNCHANGED <<container, runDir, server, secrets, staging, asked>>

\* A preflight looks for a container first, then writes its env file; a run
\* needs the receipt, no container and nothing that an earlier run has left.
Check(j) ==
  LET s == job[j].sha
      fresh == /\ container = None
               /\ job[j].mode = "run" =>
                    /\ receipt[s] # None
                    /\ started[s] = None /\ completed[s] = None
                    /\ report[s] = None
  IN /\ job[j].pc = "check"
     /\ \/ /\ fresh
           /\ Goto(j, "prod")
           /\ secrets' = IF job[j].mode = "preflight" THEN secrets \cup {j}
                                                      ELSE secrets
        \/ /\ Fail(j)
           /\ UNCHANGED secrets
     /\ NoFault /\ UNCHANGED <<container, runDir, server, staging, asked>>

\* A run compares with the receipt what a preflight takes down.
SnapshotProd(j) ==
  /\ job[j].pc = "prod"
  /\ \/ /\ job[j].mode = "run" => receipt[job[j].sha].prod = prod
        /\ job' = [job EXCEPT ![j].prod = prod, ![j].pc = "index"]
     \/ Fail(j)
  /\ NoFault
  /\ UNCHANGED <<container, runDir, server, secrets, staging, asked>>

SnapshotIndex(j) ==
  /\ job[j].pc = "index"
  /\ \/ /\ job[j].mode = "run" => receipt[job[j].sha].index = index
        /\ job' = [job EXCEPT ![j].index = index, ![j].pc = "stage"]
     \/ Fail(j)
  /\ NoFault
  /\ UNCHANGED <<container, runDir, server, secrets, staging, asked>>

\* Enough memory and disk, and what the container is built from: a frozen copy
\* of the commit in a staging directory, for a run the one in the run directory.
Stage(j) ==
  /\ job[j].pc = "stage"
  /\ \/ /\ job[j].mode = "preflight" => receipt[job[j].sha] = None
        /\ staging' = IF job[j].mode = "preflight" THEN staging \cup {j}
                                                   ELSE staging
        /\ secrets' = secrets \cup {j}
        /\ Goto(j, "start")
     \/ /\ Fail(j)
        /\ UNCHANGED <<staging, secrets>>
  /\ NoFault /\ UNCHANGED <<container, runDir, server, asked>>

-----------------------------------------------------------------------------
\* docker compose run -d --name: it may create the container and fail to start
\* it, and then its id is not known.
Start(j) ==
  /\ job[j].pc = "start"
  /\ \/ /\ container = None
        /\ container' = [id |-> j, sha |-> job[j].sha, up |-> TRUE]
        /\ job' = [job EXCEPT ![j].id = j, ![j].pc = "ready"]
        /\ NoFault
     \/ /\ container = None
        /\ \E up \in BOOLEAN :
             container' = [id |-> j, sha |-> job[j].sha, up |-> up]
        /\ Fail(j)
        /\ Fault
     \/ Fail(j) /\ NoFault /\ UNCHANGED container
  /\ UNCHANGED <<runDir, server, secrets, staging, asked>>

\* Mutation: whoever has the name and the label is taken for one's own.
OwnedByLabel(j) ==
  container # None /\ container.sha = job[j].sha

\* candidate_owned: the name, the label of the commit and the id, once known.
Owned(j) ==
  /\ container # None
  /\ container.sha = job[j].sha
  /\ container.id = job[j].id

\* require_candidate_runtime, wait_candidate_ready; again after the cases.
Ready(j) ==
  /\ job[j].pc \in {"ready", "answered"}
  /\ \/ /\ Owned(j) /\ container.up
        /\ Goto(j, IF job[j].pc = "answered" THEN "recheck"
                   ELSE IF job[j].mode = "run" THEN "mark" ELSE "remove")
     \/ Fail(j)
  /\ NoFault
  /\ UNCHANGED <<container, runDir, server, secrets, staging, asked>>

\* remove_owned_candidate: the container is stopped, then removed, by its id.
Remove(j) ==
  /\ job[j].pc = "remove"
  /\ \/ /\ Owned(j)
        /\ container' = None
        /\ job' = [job EXCEPT ![j].id = None, ![j].pc =
                     IF job[j].mode = "run" THEN "complete" ELSE "recheck"]
        /\ NoFault
     \/ ~Owned(j) /\ Fail(j) /\ NoFault /\ UNCHANGED container
     \/ /\ Owned(j)
        /\ \E up \in {container.up, FALSE} :
             container' = [container EXCEPT !.up = up]
        /\ Fault /\ Fail(j)
  /\ UNCHANGED <<runDir, server, secrets, staging, asked>>

\* Production and its index are what they were; a preflight asks when its
\* container is gone, a run before it removes it.
Recheck(j) ==
  /\ job[j].pc \in {"recheck", "recheck_index"}
  /\ \/ /\ IF job[j].pc = "recheck" THEN prod = job[j].prod
                                    ELSE index = job[j].index
        /\ Goto(j, IF job[j].pc = "recheck" THEN "recheck_index"
                   ELSE IF job[j].mode = "run" THEN "remove" ELSE "publish")
     \/ Fail(j)
  /\ NoFault
  /\ UNCHANGED <<container, runDir, server, secrets, staging, asked>>

\* The receipt is written in staging, which becomes the run directory unless
\* there is one.
Publish(j) ==
  LET s == job[j].sha
  IN /\ job[j].pc = "publish"
     /\ \/ /\ receipt[s] = None
           /\ receipt' = [receipt EXCEPT ![s] =
                [by |-> j, prod |-> job[j].prod, index |-> job[j].index]]
           /\ staging' = staging \ {j}
        \/ UNCHANGED <<receipt, staging>>
     /\ Goto(j, "exit")
     /\ NoFault
     /\ UNCHANGED <<container, started, completed, report, server, secrets, asked>>

-----------------------------------------------------------------------------

\* The cost ledger has room (which changes nothing), and run.started is created
\* exclusively, which its writing may follow or not.
Mark(j) ==
  LET s == job[j].sha
  IN /\ job[j].pc = "mark"
     /\ \/ /\ started[s] = None
           /\ started' = [started EXCEPT ![s] = j]
           /\ Goto(j, "ask") \/ Fail(j)
        \/ Fail(j) /\ UNCHANGED started
     /\ NoFault
     /\ UNCHANGED <<container, receipt, completed, report, server, secrets,
                    staging, asked>>

\* eval.run_ask asks whoever has the alias on the data network; another's
\* container does not know this launcher's token.
Ask(j) ==
  /\ job[j].pc = "ask"
  /\ \/ /\ Owned(j) /\ container.up
        /\ asked' = [asked EXCEPT ![job[j].sha] =
             @ \cup {[by |-> j, prod |-> prod, index |-> index]}]
        /\ Goto(j, "asking")
     \/ Fail(j) /\ UNCHANGED asked
  /\ NoFault
  /\ UNCHANGED <<container, runDir, server, secrets, staging>>

\* All cases were answered, and the report is written and summarised; or the
\* evaluation is rejected.
Answered(j) ==
  LET s == job[j].sha
  IN /\ job[j].pc = "asking"
     /\ \/ /\ Owned(j) /\ container.up
           /\ asked' = [asked EXCEPT ![s] =
                @ \cup {[by |-> j, prod |-> prod, index |-> index]}]
           /\ report' = [report EXCEPT ![s] = j]
           /\ \/ Goto(j, "answered")
              \/ Fail(j)
        \/ Fail(j) /\ UNCHANGED <<asked, report>>
     /\ NoFault
     /\ UNCHANGED <<container, receipt, started, completed, server, secrets,
                    staging>>

\* Production is looked at once more and run.completed created.
Complete(j) ==
  LET s == job[j].sha
  IN /\ job[j].pc = "complete"
     /\ \/ /\ prod = job[j].prod /\ completed[s] = None
           /\ completed' = [completed EXCEPT ![s] = j]
        \/ UNCHANGED completed
     /\ Goto(j, "exit")
     /\ NoFault
     /\ UNCHANGED <<container, receipt, started, report, server, secrets,
                    staging, asked>>

-----------------------------------------------------------------------------

\* cleanup_on_exit: the container first, if its id is known.
Exit(j) ==
  /\ job[j].pc = "exit"
  /\ \/ /\ job[j].id # None /\ Owned(j)
        /\ container' = None
        /\ job' = [job EXCEPT ![j].pc = "temp"]
        /\ NoFault
     \/ /\ job[j].id # None /\ ~Owned(j)
        /\ job' = [job EXCEPT ![j].pc = "temp", ![j].dirty = TRUE]
        /\ NoFault /\ UNCHANGED container
     \/ /\ job[j].id # None /\ Owned(j)
        /\ job' = [job EXCEPT ![j].pc = "temp", ![j].dirty = TRUE]
        /\ Fault /\ UNCHANGED container
     \/ /\ job[j].id = None
        /\ job' = [job EXCEPT ![j].pc = "temp"]
        /\ NoFault /\ UNCHANGED container
  /\ UNCHANGED <<runDir, server, secrets, staging, asked>>

\* cleanup_temp: the env files, then staging; what fails makes the exit fail.
ExitTemp(j) ==
  /\ job[j].pc = "temp"
  /\ \/ /\ secrets' = secrets \ {j} /\ staging' = staging \ {j}
        /\ job' = [job EXCEPT ![j].pc = "done"]
        /\ NoFault
     \/ /\ Fault
        /\ \/ secrets' = secrets \ {j} /\ UNCHANGED staging
           \/ staging' = staging \ {j} /\ UNCHANGED secrets
        /\ job' = [job EXCEPT ![j].pc = "done", ![j].dirty = TRUE]
  /\ UNCHANGED <<container, runDir, server, asked>>

Step(j) ==
  \/ Begin(j) \/ Check(j) \/ SnapshotProd(j) \/ SnapshotIndex(j) \/ Stage(j)
  \/ Start(j) \/ Ready(j) \/ Remove(j) \/ Recheck(j) \/ Publish(j)
  \/ Mark(j) \/ Ask(j) \/ Answered(j) \/ Complete(j) \/ Exit(j) \/ ExitTemp(j)

Ended == {"new", "done", "killed"}

\* A signal that bash turns into its EXIT trap.
Interrupt(j) ==
  /\ job[j].pc \notin Ended \cup {"exit", "temp"}
  /\ Goto(j, "exit")
  /\ Fault
  /\ UNCHANGED <<container, runDir, server, secrets, staging, asked>>

\* A signal that it does not, or the end of the host's session.
Kill(j) ==
  /\ job[j].pc \notin Ended
  /\ Goto(j, "killed")
  /\ Fault
  /\ UNCHANGED <<container, runDir, server, secrets, staging, asked>>

\* cleanup_mode: an absent container is fine, another commit's is refused.
Cleanup(s) ==
  /\ container # None /\ container.sha = s
  /\ container' = None
  /\ NoFault /\ UNCHANGED <<runDir, server, secrets, staging, job, asked>>

ContainerStops ==
  /\ container # None /\ container.up
  /\ container' = [container EXCEPT !.up = FALSE]
  /\ Fault
  /\ UNCHANGED <<runDir, server, secrets, staging, job, asked>>

\* Each start of production has a time of its own.
RestartProduction ==
  /\ prod < MaxRestarts
  /\ prod' = prod + 1
  /\ NoFault
  /\ UNCHANGED <<container, runDir, index, secrets, staging, job, asked>>

Reindex ==
  /\ index < MaxReindex
  /\ index' = index + 1
  /\ NoFault
  /\ UNCHANGED <<container, runDir, prod, secrets, staging, job, asked>>

Next ==
  \/ \E j \in Jobs : Step(j) \/ Interrupt(j) \/ Kill(j)
  \/ \E s \in Shas : Cleanup(s)
  \/ ContainerStops \/ RestartProduction \/ Reindex

Spec == Init /\ [][Next]_vars

-----------------------------------------------------------------------------
Pcs == {"new", "check", "prod", "index", "stage", "start", "ready", "remove",
        "recheck", "recheck_index", "publish", "mark", "ask", "asking",
        "answered", "complete", "exit", "temp", "done", "killed"}

MaybeJob == Jobs \cup {None}
Amid == [by : Jobs, prod : 0..MaxRestarts, index : 0..MaxReindex]

\* Every variable holds a value of its kind, a run directory is marked only
\* with its receipt in it, and nothing is asked before it is marked.
TypeOK ==
  /\ container \in [id : Jobs, sha : Shas, up : BOOLEAN] \cup {None}
  /\ receipt \in [Shas -> Amid \cup {None}]
  /\ started \in [Shas -> MaybeJob]
  /\ completed \in [Shas -> MaybeJob]
  /\ report \in [Shas -> MaybeJob]
  /\ prod \in 0..MaxRestarts /\ index \in 0..MaxReindex
  /\ secrets \subseteq Jobs /\ staging \subseteq Jobs
  /\ job \in [Jobs -> [mode : {"preflight", "run", None}, sha : Shas \cup {None},
                       pc : Pcs, id : MaybeJob, prod : 0..MaxRestarts,
                       index : 0..MaxReindex, dirty : BOOLEAN]]
  /\ asked \in [Shas -> SUBSET Amid]
  /\ faults \in 0..MaxFaults
  /\ \A s \in Shas : started[s] # None => receipt[s] # None
  /\ \A s \in Shas : asked[s] # {} => started[s] # None

\* The paid cases are asked of a commit at most once, whoever else is started
\* for it, and whatever is removed or killed meanwhile.
OneAsk ==
  \A s \in Shas : \A a, b \in asked[s] : a.by = b.by

\* A completed run asked all its cases of its own container, which is gone, amid
\* the production and the index that its preflight had verified.
CompletedSound ==
  \A s \in Shas : completed[s] # None =>
    /\ started[s] = completed[s] /\ report[s] = completed[s]
    /\ asked[s] = {[by |-> completed[s], prod |-> receipt[s].prod,
                    index |-> receipt[s].index]}
    /\ container # None => container.id # completed[s]

\* A run directory is published after its launcher's container is gone, so that
\* the name is free for the run, and with nothing of it left in staging.
PublishedGone ==
  \A s \in Shas : receipt[s] # None =>
    /\ container # None => container.id # receipt[s].by
    /\ receipt[s].by \notin staging

\* A launcher that ends without saying that its cleanup failed leaves no secret,
\* no staging and no container whose id it knew.
NothingLeft ==
  \A j \in Jobs : job[j].pc = "done" /\ ~job[j].dirty =>
    /\ j \notin secrets /\ j \notin staging
    /\ container # None /\ container.id = j => job[j].id = None

\* No launcher removes the container of another.
KeepsForeign ==
  \A j \in Jobs :
    Step(j) /\ container # None /\ container' = None => container.id = j

\* Launchers of one commit share its name and its directory and keep out of each other's way.
LaunchIsSound ==
  /\ [](OneAsk /\ CompletedSound /\ PublishedGone /\ NothingLeft)
  /\ [][KeepsForeign]_vars
=============================================================================
