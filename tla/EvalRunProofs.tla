---------------------------- MODULE EvalRunProofs ----------------------------
(***************************************************************************)
(* Proofs about the one-shot evaluations, for any number of invocations,   *)
(* runtimes, report paths and cases, any budget, and any number of         *)
(* failures, crashes and deployments.  After them, about the registry that *)
(* the datasets they ask are frozen in (DatasetRegistry), the launchers of *)
(* candidates (CandidateRunner) and the ledger that their cost is reserved *)
(* in (CostLedger): three instances of those modules.                      *)
(*                                                                         *)
(* A step moves one run.  What it leaves of the others is said once        *)
(* (Frame); what it makes of its own run is shown action by action.        *)
(***************************************************************************)
EXTENDS EvalRun, Integers, Sequences, FiniteSetTheorems, WellFoundedInduction, TLAPS

Receipts == [run : Runs, whole : BOOLEAN]

\* The local state of an invocation.
Locals ==
  [mode : Modes \cup {None}, runtime : Runtimes \cup {None}, path : Paths \cup {None},
   pc : Labels, done : Nat, seen : Nat, flawed : BOOLEAN,
   stop : {"none", "pricing", "budget"}, exact : BOOLEAN]

Typed ==
  /\ run \in [Runs -> Locals]
  /\ asked \in [Runs -> Nat] /\ traced \in [Runs -> Nat] /\ spent \in [Runs -> Nat]
  /\ by \in [Runs -> SUBSET Runtimes]
  /\ started \in [Keys -> File] /\ completed \in [Keys -> File] /\ report \in [Paths -> File]
  /\ reserved \subseteq Runs /\ markers \subseteq Runs /\ rejected \subseteq Runs
  /\ release \in Runtimes
  /\ deploys \in 0..MaxDeploys /\ faults \in 0..MaxFaults

\* Before the cases, after the report, and at the end.
Early == {"new", "pool", "cost", "marker", "preflight", "receipt"}
Over  == {"reject", "ended", "lost"}
Reported == {"markdown", "complete"} \cup Over

IsPrivate(r) == run[r].mode \in Private

\* A run that has begun knows what it is; only a private one comes to the receipts.
Begun(r) ==
  /\ run[r].pc = "new" => run[r] = Idle
  /\ run[r].pc # "new" => /\ run[r].mode \in Modes /\ run[r].runtime \in Runtimes
                          /\ run[r].path \in Paths
  /\ run[r].pc \in {"marker", "receipt", "complete"} => IsPrivate(r)
  /\ run[r].pc = "markdown" => run[r].mode # "phase0"

\* What a run has counted is what it was served.
Counted(r) ==
  /\ run[r].done = asked[r] /\ run[r].seen = spent[r]
  /\ asked[r] <= CasesTotal /\ traced[r] <= asked[r]
  /\ ~run[r].flawed => traced[r] = asked[r]
  /\ asked[r] = 0 <=> by[r] = {}
  /\ spent[r] < Cap + MaxCost

\* Nothing is asked early, and another case only while one is missing and the budget lasts.
Going(r) ==
  /\ run[r].pc \in Early => asked[r] = 0 /\ spent[r] = 0
  /\ run[r].pc \in Early \cup {"ask"} =>
       asked[r] < CasesTotal /\ spent[r] < Cap /\ ~run[r].exact
  /\ run[r].exact => traced[r] = CasesTotal

\* The order in which a run pays: the reservation, the marker, the receipt, the first case.
Paid(r) ==
  /\ run[r].pc \in {"new", "pool", "cost"} => r \notin reserved
  /\ run[r].pc = "preflight" /\ ~IsPrivate(r) => r \notin reserved
  /\ run[r].pc \in {"marker", "preflight", "receipt"} /\ IsPrivate(r) => r \in reserved
  /\ run[r].pc \in {"preflight", "receipt"} /\ IsPrivate(r) => r \in markers
  /\ r \in markers => r \in reserved /\ IsPrivate(r)
  /\ run[r].pc = "ask" \/ asked[r] > 0 =>
       /\ r \in reserved
       /\ IsPrivate(r) => r \in markers /\ started[Key(r)] = Whole(r)

\* What Judge has found.
Sound(r) ==
  /\ run[r].done = CasesTotal /\ run[r].exact
  /\ ~run[r].flawed /\ run[r].stop # "pricing"

\* A report is written of what was found to be sound, and is what its run says it is.
Judged(r) ==
  /\ run[r].pc \in {"report", "markdown", "complete"} => Sound(r)
  /\ run[r].pc \in {"markdown", "complete"} => report[run[r].path] = Whole(r)

Recorded(r) ==
  (run[r].mode = "phase0" /\ run[r].pc = "ended" /\ r \in reserved) =>
    r \in rejected \/ report[run[r].path] = Whole(r)

Fit(r) == Begun(r) /\ Counted(r) /\ Going(r) /\ Paid(r) /\ Judged(r) /\ Recorded(r)

\* Whoever wrote a file, where, and what it had found.
StartedFit ==
  \A k \in Keys : started[k] # None =>
    IsPrivate(started[k].run) /\ Key(started[k].run) = k
CompletedFit ==
  \A k \in Keys : completed[k] # None =>
    LET r == completed[k].run
    IN /\ IsPrivate(r) /\ Key(r) = k /\ run[r].pc \in Over
       /\ Sound(r) /\ report[run[r].path] = Whole(r)
ReportFit ==
  \A p \in Paths : report[p] # None =>
    LET r == report[p].run
    IN run[r].path = p /\ run[r].pc \in Reported /\ (report[p].whole => Sound(r))

\* A replay begins after the sealed run has its receipt.
ReplayFit == \A r \in Runs : run[r].mode = "replay" => started["sealed"] # None

Safe ==
  /\ Typed /\ StartedFit /\ CompletedFit /\ ReportFit /\ ReplayFit
  /\ \A r \in Runs : Fit(r)

-----------------------------------------------------------------------------
(* Values.                                                                 *)

LEMMA Constants ==
  ASSUME Assumptions
  PROVE  /\ CasesTotal \in Nat /\ CasesTotal > 0 /\ Cap \in Nat /\ Cap > 0
         /\ MaxCost \in Nat /\ MaxDeploys \in Nat /\ MaxFaults \in Nat
         /\ "sealed" \notin Runtimes /\ "sealed" \in Keys /\ Runtimes \subseteq Keys
         /\ None \notin Receipts /\ File = {None} \cup Receipts
         /\ None \notin Modes /\ None \notin Runtimes /\ None \notin Paths
         /\ None # "sealed" /\ None # "replay" /\ None # "phase0"
  BY DEF Assumptions, Keys, File, Receipts

LEMMA Files ==
  ASSUME NEW r \in Runs
  PROVE  /\ Whole(r) \in Receipts /\ Whole(r).run = r /\ Whole(r).whole
         /\ Torn(r) \in Receipts /\ Torn(r).run = r /\ ~Torn(r).whole
         /\ Whole(r) # Torn(r)
  BY DEF Whole, Torn, Receipts

\* A run that has begun as a private one has a key.
LEMMA KeyOf ==
  ASSUME Assumptions, Safe, NEW r \in Runs, IsPrivate(r)
  PROVE  Key(r) \in Keys /\ run[r].pc # "new"
  BY Constants DEF Safe, Fit, Begun, IsPrivate, Private, Key, Keys, Idle

LEMMA IdleIsLocal == ASSUME Assumptions PROVE Idle \in Locals
  BY DEF Idle, Locals, Labels

-----------------------------------------------------------------------------
(* Moves.                                                                  *)

Same(r) ==
  /\ run'[r].mode = run[r].mode /\ run'[r].runtime = run[r].runtime
  /\ run'[r].path = run[r].path

\* Nothing but the place of the run changes.
Still(r) ==
  /\ Same(r)
  /\ run'[r].done = run[r].done /\ run'[r].seen = run[r].seen
  /\ run'[r].flawed = run[r].flawed /\ run'[r].stop = run[r].stop
  /\ run'[r].exact = run[r].exact

LEMMA Moves ==
  ASSUME Typed, NEW r \in Runs, NEW label \in Labels, Goto(r, label)
  PROVE  /\ run' \in [Runs -> Locals]
         /\ run'[r].pc = label /\ Still(r)
         /\ \A s \in Runs \ {r} : run'[s] = run[s]
  BY DEF Typed, Locals, Goto, Still, Same

LEMMA Fails ==
  ASSUME Typed, NEW r \in Runs, NEW recorded, Fail(r, recorded)
  PROVE  /\ run' \in [Runs -> Locals]
         /\ run'[r].pc \in {"reject", "ended"} /\ Still(r)
         /\ run[r].mode \in recorded => run'[r].pc = "reject"
         /\ \A s \in Runs \ {r} : run'[s] = run[s]
  BY Moves DEF Fail, Labels

\* What a step of a run leaves of the others, and what is never undone.
Frame(r) ==
  /\ \A s \in Runs \ {r} :
       /\ run'[s] = run[s] /\ asked'[s] = asked[s] /\ traced'[s] = traced[s]
       /\ spent'[s] = spent[s] /\ by'[s] = by[s]
       /\ s \in reserved' <=> s \in reserved
       /\ s \in markers' <=> s \in markers
  /\ rejected \subseteq rejected'
  /\ \A k \in Keys : started[k] # None => started'[k] = started[k]
  /\ \A k \in Keys : completed[k] # None => completed'[k] = completed[k]
  /\ \A p \in Paths : report[p] # None => report'[p] = report[p]

\* Every file is the same.
SameFiles == UNCHANGED files

\* The case that is asked and the answer that is accounted for.
LEMMA Accounts ==
  ASSUME Assumptions, Typed, NEW r \in Runs, NEW cost \in 0..MaxCost, NEW outcome,
         Accounted(r, cost, outcome)
  PROVE  /\ run' \in [Runs -> Locals]
         /\ Same(r) /\ run'[r].exact = run[r].exact
         /\ run'[r].done = run[r].done + 1 /\ run'[r].seen = run[r].seen + cost
         /\ run'[r].flawed <=> (run[r].flawed \/ outcome # "good")
         /\ run'[r].pc \in {"ask", "postflight"}
         /\ run'[r].pc = "ask" => run'[r].done # CasesTotal /\ run'[r].seen <= Cap
                                  /\ (run'[r].done < CasesTotal => run'[r].seen < Cap)
         /\ \A s \in Runs \ {r} : run'[s] = run[s]
<1> DEFINE done == run[r].done + 1
           seen == run[r].seen + cost
           over == seen > Cap \/ (done < CasesTotal /\ seen >= Cap)
           stop == IF outcome = "unpriced" THEN "pricing" ELSE IF over THEN "budget" ELSE "none"
           flawed == run[r].flawed \/ outcome # "good"
           pc == IF stop # "none" \/ done = CasesTotal THEN "postflight" ELSE "ask"
           next == [run[r] EXCEPT !.done = done, !.seen = seen, !.flawed = flawed,
                                  !.stop = stop, !.pc = pc]
<1>1. run \in [Runs -> Locals] /\ run[r] \in Locals
    BY DEF Typed
<1>2. run' = [run EXCEPT ![r] = next]
    BY <1>1 DEF Accounted, Locals
<1>3. /\ done \in Nat /\ seen \in Nat /\ flawed \in BOOLEAN
      /\ stop \in {"none", "pricing", "budget"} /\ pc \in {"ask", "postflight"}
      /\ pc = "ask" => done # CasesTotal /\ seen <= Cap /\ (done < CasesTotal => seen < Cap)
    BY <1>1, Constants DEF Locals
<1>4. pc \in Labels
    BY <1>3 DEF Labels
<1>5. done = run[r].done + 1 /\ seen = run[r].seen + cost
      /\ flawed = (run[r].flawed \/ outcome # "good")
    OBVIOUS
<1> HIDE DEF done, seen, over, stop, flawed, pc
<1>6. /\ next \in Locals
      /\ next.mode = run[r].mode /\ next.runtime = run[r].runtime /\ next.path = run[r].path
      /\ next.exact = run[r].exact
      /\ next.done = done /\ next.seen = seen /\ next.flawed = flawed /\ next.pc = pc
    BY <1>1, <1>3, <1>4 DEF Locals
<1> HIDE DEF next
<1>7. /\ run' \in [Runs -> Locals] /\ run'[r] = next
      /\ \A s \in Runs \ {r} : run'[s] = run[s]
    BY <1>1, <1>2, <1>6
<1>8. QED
    BY <1>3, <1>5, <1>6, <1>7 DEF Same

\* What the rows of a run are counted as.
LEMMA Counts ==
  ASSUME Typed, NEW r \in Runs, CheckCardinality(r)
  PROVE  /\ run' \in [Runs -> Locals]
         /\ \A s \in Runs \ {r} : run'[s] = run[s]
         /\ Same(r) /\ run'[r].done = run[r].done /\ run'[r].seen = run[r].seen
         /\ run'[r].flawed = run[r].flawed /\ run'[r].stop = run[r].stop
         /\ run'[r].pc = "close"
         /\ run'[r].exact => traced[r] = CasesTotal
<1>1. PICK exact \in {FALSE, traced[r] = CasesTotal} :
        run' = [run EXCEPT ![r].exact = exact, ![r].pc = "close"]
    BY DEF CheckCardinality
<1> DEFINE next == [run[r] EXCEPT !.exact = exact, !.pc = "close"]
<1>2. run \in [Runs -> Locals] /\ run[r] \in Locals /\ exact \in BOOLEAN
    BY DEF Typed
<1>3. run' = [run EXCEPT ![r] = next]
    BY <1>1, <1>2 DEF Locals
<1>4. /\ next \in Locals
      /\ next.mode = run[r].mode /\ next.runtime = run[r].runtime /\ next.path = run[r].path
      /\ next.done = run[r].done /\ next.seen = run[r].seen /\ next.flawed = run[r].flawed
      /\ next.stop = run[r].stop /\ next.pc = "close" /\ next.exact = exact
    BY <1>2 DEF Locals, Labels
<1> HIDE DEF next
<1>5. /\ run' \in [Runs -> Locals] /\ run'[r] = next
      /\ \A s \in Runs \ {r} : run'[s] = run[s]
    BY <1>2, <1>3, <1>4
<1>6. QED
    BY <1>1, <1>4, <1>5 DEF Same

-----------------------------------------------------------------------------
(* Types, and what a step leaves alone.                                    *)

LEMMA TypedInit == ASSUME Assumptions, Init PROVE Typed
  BY Constants, IdleIsLocal DEF Init, Typed

\* A step that only moves its run, or ends it.
LEMMA Moving ==
  ASSUME Assumptions, Typed, NEW r \in Runs,
         run' \in [Runs -> Locals], \A s \in Runs \ {r} : run'[s] = run[s],
         faults' \in 0..MaxFaults, SameFiles, UNCHANGED <<release, served, deploys>>
  PROVE  Typed' /\ Frame(r)
  BY DEF Typed, Frame, SameFiles, files, served

LEMMA FaultCounts ==
  ASSUME Assumptions, Typed, Fault \/ NoFault
  PROVE  faults' \in 0..MaxFaults
  BY Constants DEF Typed, Fault, NoFault

LEMMA FrameBegin ==
  ASSUME Assumptions, Typed, NEW r \in Runs, Begin(r)
  PROVE  Typed' /\ Frame(r)
<1>1. PICK mode \in Modes, runtime \in Runtimes, path \in Paths, pc \in {"reject", "pool"} :
        run' = [run EXCEPT ![r] = [Idle EXCEPT !.mode = mode, !.runtime = runtime,
                                               !.path = path, !.pc = pc]]
    BY DEF Begin
<1>2. run' \in [Runs -> Locals] /\ \A s \in Runs \ {r} : run'[s] = run[s]
    BY <1>1 DEF Typed, Locals, Idle, Labels
<1>3. QED
    BY <1>2, Moving, FaultCounts DEF Begin, SameFiles

LEMMA FrameMove ==
  ASSUME Assumptions, Typed, NEW r \in Runs,
         OpenPool(r) \/ Preflight(r) \/ Postflight(r) \/ ClosePool(r) \/ Judge(r)
         \/ WriteMarkdown(r) \/ Crash(r)
  PROVE  Typed' /\ Frame(r)
<1>1. (\E label \in Labels : Goto(r, label)) \/ (\E recorded : Fail(r, recorded))
    BY DEF OpenPool, Preflight, Postflight, ClosePool, Judge, WriteMarkdown, Crash, Labels
<1>2. run' \in [Runs -> Locals] /\ \A s \in Runs \ {r} : run'[s] = run[s]
    BY <1>1, Moves, Fails
<1>3. Fault \/ NoFault
    BY DEF OpenPool, Preflight, Postflight, ClosePool, Judge, WriteMarkdown, Crash
<1>4. SameFiles /\ UNCHANGED <<release, served, deploys>>
    BY DEF OpenPool, Preflight, Postflight, ClosePool, Judge, WriteMarkdown, Crash, SameFiles
<1>5. QED
    BY <1>2, <1>3, <1>4, Moving, FaultCounts

LEMMA FrameCardinality ==
  ASSUME Assumptions, Typed, NEW r \in Runs, CheckCardinality(r)
  PROVE  Typed' /\ Frame(r)
  BY Counts, Moving, FaultCounts DEF CheckCardinality, SameFiles

LEMMA FrameAsk ==
  ASSUME Assumptions, Typed, NEW r \in Runs, Ask(r)
  PROVE  Typed' /\ Frame(r)
<1>1. PICK cost \in 0..MaxCost, outcome \in {"good", "flawed", "unpriced"}, rows \in {0, 1} :
        /\ Accounted(r, cost, outcome)
        /\ spent' = [spent EXCEPT ![r] = @ + cost]
        /\ traced' = [traced EXCEPT ![r] = @ + rows]
    BY DEF Ask
<1>2. run' \in [Runs -> Locals] /\ \A s \in Runs \ {r} : run'[s] = run[s]
    BY <1>1, Accounts
<1>3. /\ asked' \in [Runs -> Nat] /\ traced' \in [Runs -> Nat] /\ spent' \in [Runs -> Nat]
      /\ by' \in [Runs -> SUBSET Runtimes]
      /\ \A s \in Runs \ {r} : /\ asked'[s] = asked[s] /\ traced'[s] = traced[s]
                               /\ spent'[s] = spent[s] /\ by'[s] = by[s]
    BY <1>1, Constants DEF Ask, Typed
<1>4. QED
    BY <1>2, <1>3, FaultCounts DEF Ask, Typed, Frame, files

LEMMA FrameReserve ==
  ASSUME Assumptions, Typed, NEW r \in Runs, ReserveCost(r) \/ ReserveMarker(r) \/ Reject(r)
  PROVE  Typed' /\ Frame(r)
<1>1. (\E label \in Labels : Goto(r, label)) \/ (\E recorded : Fail(r, recorded))
    BY DEF ReserveCost, ReserveMarker, Reject, Labels
<1>2. run' \in [Runs -> Locals] /\ \A s \in Runs \ {r} : run'[s] = run[s]
    BY <1>1, Moves, Fails
<1>3. faults' \in 0..MaxFaults
    BY FaultCounts DEF ReserveCost, ReserveMarker, Reject
<1>4. /\ reserved' \in {reserved, reserved \cup {r}} /\ markers' \in {markers, markers \cup {r}}
      /\ rejected' \in {rejected, rejected \cup {r}}
      /\ UNCHANGED <<started, completed, report, release, served, deploys>>
    BY DEF ReserveCost, ReserveMarker, Reject
<1>5. QED
    BY <1>2, <1>3, <1>4 DEF Typed, Frame, served

LEMMA FrameWrite ==
  ASSUME Assumptions, Typed, NEW r \in Runs,
         run[r].path \in Paths,
         WriteReport(r) \/ (Key(r) \in Keys /\ (CreateStarted(r) \/ WriteCompleted(r)))
  PROVE  Typed' /\ Frame(r)
<1>1. (\E label \in Labels : Goto(r, label)) \/ (\E recorded : Fail(r, recorded))
    BY DEF CreateStarted, WriteReport, WriteCompleted, Labels
<1>2. run' \in [Runs -> Locals] /\ \A s \in Runs \ {r} : run'[s] = run[s]
    BY <1>1, Moves, Fails
<1>3. faults' \in 0..MaxFaults
    BY FaultCounts DEF CreateStarted, WriteReport, WriteCompleted
<1>4. UNCHANGED <<reserved, markers, rejected, release, served, deploys>>
    BY DEF CreateStarted, WriteReport, WriteCompleted
<1>5. /\ started' \in [Keys -> File] /\ completed' \in [Keys -> File]
      /\ report' \in [Paths -> File]
      /\ \A k \in Keys : started[k] # None => started'[k] = started[k]
      /\ \A k \in Keys : completed[k] # None => completed'[k] = completed[k]
      /\ \A p \in Paths : report[p] # None => report'[p] = report[p]
    BY Constants, Files DEF CreateStarted, WriteReport, WriteCompleted, Typed
<1>6. QED
    BY <1>2, <1>3, <1>4, <1>5 DEF Typed, Frame, served

-----------------------------------------------------------------------------
(* The runs that a step does not move.                                     *)

LEMMA Others ==
  ASSUME Assumptions, Safe, NEW r \in Runs, Frame(r), NEW s \in Runs \ {r}
  PROVE  Fit(s)'
<1>1. /\ run'[s] = run[s] /\ asked'[s] = asked[s] /\ traced'[s] = traced[s]
      /\ spent'[s] = spent[s] /\ by'[s] = by[s]
      /\ s \in reserved' <=> s \in reserved
      /\ s \in markers' <=> s \in markers
      /\ s \in rejected => s \in rejected'
    BY DEF Frame
<1>2. Key(s)' = Key(s) /\ IsPrivate(s)' = IsPrivate(s) /\ Whole(s)' = Whole(s)
      /\ Sound(s)' = Sound(s)
    BY <1>1 DEF Key, IsPrivate, Whole, Sound
<1>3. Begun(s)' /\ Counted(s)' /\ Going(s)'
    BY <1>1, <1>2 DEF Safe, Fit, Begun, Counted, Going
<1>4. Paid(s)'
  <2>1. IsPrivate(s) /\ started[Key(s)] = Whole(s) => started'[Key(s)] = Whole(s)
      BY KeyOf, Files, Constants DEF Frame
  <2>2. QED
      BY <1>1, <1>2, <2>1 DEF Safe, Fit, Paid
<1>5. Judged(s)' /\ Recorded(s)'
  <2>1. run[s].pc # "new" /\ report[run[s].path] = Whole(s) => report'[run[s].path] = Whole(s)
      BY Files, Constants DEF Frame, Safe, Fit, Begun
  <2>2. QED
      BY <1>1, <1>2, <2>1 DEF Safe, Fit, Judged, Recorded
<1>6. QED
    BY <1>3, <1>4, <1>5 DEF Fit

-----------------------------------------------------------------------------
(* The run that a step moves.                                              *)

\* What is on record of a run stays there.
LEMMA Keeps ==
  ASSUME Assumptions, Safe, NEW r \in Runs, Frame(r), Same(r)
  PROVE  /\ Key(r)' = Key(r) /\ IsPrivate(r)' = IsPrivate(r) /\ Whole(r)' = Whole(r)
         /\ IsPrivate(r) /\ started[Key(r)] = Whole(r) => started'[Key(r)] = Whole(r)
         /\ run[r].pc # "new" /\ report[run[r].path] = Whole(r) =>
              report'[run'[r].path] = Whole(r)
         /\ r \in rejected => r \in rejected'
<1>1. Key(r)' = Key(r) /\ IsPrivate(r)' = IsPrivate(r) /\ Whole(r)' = Whole(r)
    BY DEF Same, Key, IsPrivate, Whole
<1>2. IsPrivate(r) /\ started[Key(r)] = Whole(r) => started'[Key(r)] = Whole(r)
    BY KeyOf, Files, Constants DEF Frame
<1>3. run[r].pc # "new" /\ report[run[r].path] = Whole(r) =>
              report'[run'[r].path] = Whole(r)
    BY Files, Constants DEF Frame, Safe, Fit, Begun, Same
<1>4. QED
    BY <1>1, <1>2, <1>3 DEF Frame

LEMMA FitBegin ==
  ASSUME Assumptions, Safe, NEW r \in Runs, Begin(r), Frame(r)
  PROVE  Fit(r)'
<1>1. PICK mode \in Modes, runtime \in Runtimes, path \in Paths, pc \in {"reject", "pool"} :
        /\ run' = [run EXCEPT ![r] = [Idle EXCEPT !.mode = mode, !.runtime = runtime,
                                               !.path = path, !.pc = pc]]
    BY DEF Begin
<1>2. /\ run'[r].mode = mode /\ run'[r].runtime = runtime /\ run'[r].path = path
      /\ run'[r].pc = pc /\ run'[r].done = 0 /\ run'[r].seen = 0 /\ ~run'[r].flawed
      /\ ~run'[r].exact
    BY <1>1 DEF Safe, Typed, Idle
<1>3. /\ run[r] = Idle /\ run[r].pc = "new" /\ asked[r] = 0 /\ spent[r] = 0
      /\ r \notin reserved /\ r \notin markers
    BY DEF Begin, Safe, Fit, Begun, Going, Paid, Early
<1>4. UNCHANGED <<asked, traced, spent, by, reserved, markers>>
    BY DEF Begin, files, served
<1>5. Begun(r)'
    BY <1>2 DEF Begun
<1>6. Counted(r)' /\ Going(r)'
    BY <1>2, <1>3, <1>4, Constants DEF Safe, Fit, Counted, Going, Typed
<1>7. Paid(r)'
    BY <1>2, <1>3, <1>4 DEF Paid
<1>8. Judged(r)' /\ Recorded(r)'
    BY <1>2, <1>3, <1>4 DEF Judged, Recorded
<1>9. QED
    BY <1>5, <1>6, <1>7, <1>8 DEF Fit

\* A step that asks nothing and puts nothing on record but what it needs to go on.
LEMMA FitStill ==
  ASSUME Assumptions, Safe, NEW r \in Runs, Frame(r), Still(r),
         UNCHANGED <<asked, traced, spent, by>>,
         run[r].pc # "new", run'[r].pc # "new",
         run'[r].pc \in {"marker", "receipt", "complete"} => IsPrivate(r),
         run'[r].pc = "markdown" => run[r].mode # "phase0",
         run'[r].pc \in Early => run[r].pc \in Early,
         run'[r].pc = "ask" => run[r].pc \in Early
  PROVE  Begun(r)' /\ Counted(r)' /\ Going(r)'
  BY Keeps, Constants DEF Safe, Fit, Begun, Counted, Going, Still, Same, IsPrivate

LEMMA FitOpenPool ==
  ASSUME Assumptions, Safe, NEW r \in Runs, OpenPool(r), Frame(r)
  PROVE  Fit(r)'
<1>1. /\ Still(r)
      /\ run'[r].pc \in {"cost", "preflight", "reject", "ended"}
      /\ run'[r].pc = "cost" => IsPrivate(r)
      /\ run'[r].pc = "preflight" => ~IsPrivate(r)
      /\ run[r].pc = "pool"
    BY Moves, Fails DEF OpenPool, Safe, IsPrivate, Labels
<1>2. UNCHANGED <<asked, traced, spent, by, reserved, markers>>
    BY DEF OpenPool, files, served
<1>3. Begun(r)' /\ Counted(r)' /\ Going(r)'
    BY <1>1, <1>2, FitStill DEF Early
<1>4. Paid(r)'
    BY <1>1, <1>2, Keeps DEF Safe, Fit, Paid, Going, Early, Still
<1>5. Judged(r)' /\ Recorded(r)'
    BY <1>1, <1>2 DEF Safe, Fit, Paid, Judged, Recorded
<1>6. QED
    BY <1>3, <1>4, <1>5 DEF Fit

LEMMA FitReserveCost ==
  ASSUME Assumptions, Safe, NEW r \in Runs, ReserveCost(r), Frame(r)
  PROVE  Fit(r)'
<1>1. /\ Still(r)
      /\ \/ run'[r].pc = "marker" /\ IsPrivate(r) /\ reserved' = reserved \cup {r}
         \/ run'[r].pc = "ask" /\ ~IsPrivate(r) /\ reserved' = reserved \cup {r}
         \/ run'[r].pc \in {"reject", "ended"} /\ reserved' = reserved
      /\ run[r].pc = "cost"
    BY Moves, Fails DEF ReserveCost, Safe, IsPrivate, Labels
<1>2. UNCHANGED <<asked, traced, spent, by, markers>>
    BY DEF ReserveCost, files, served
<1>3. Begun(r)' /\ Counted(r)' /\ Going(r)'
    BY <1>1, <1>2, FitStill DEF Early
<1>4. Paid(r)'
    BY <1>1, <1>2, Keeps DEF Safe, Fit, Paid, Going, Early, Still
<1>5. Judged(r)' /\ Recorded(r)'
    BY <1>1, <1>2 DEF Safe, Fit, Paid, Judged, Recorded
<1>6. QED
    BY <1>3, <1>4, <1>5 DEF Fit

LEMMA FitReserveMarker ==
  ASSUME Assumptions, Safe, NEW r \in Runs, ReserveMarker(r), Frame(r)
  PROVE  Fit(r)'
<1>1. /\ Still(r)
      /\ \/ run'[r].pc = "preflight" /\ markers' = markers \cup {r}
         \/ run'[r].pc = "reject" /\ markers' = markers
      /\ run[r].pc = "marker" /\ IsPrivate(r)
    BY Moves, Fails DEF ReserveMarker, Safe, Fit, Begun, IsPrivate, Labels
<1>2. UNCHANGED <<asked, traced, spent, by, reserved>>
    BY DEF ReserveMarker, files, served
<1>3. Begun(r)' /\ Counted(r)' /\ Going(r)'
    BY <1>1, <1>2, FitStill DEF Early
<1>4. Paid(r)'
    BY <1>1, <1>2, Keeps DEF Safe, Fit, Paid, Going, Early, Still
<1>5. Judged(r)' /\ Recorded(r)'
    BY <1>1, <1>2 DEF Safe, Fit, Paid, Judged, Recorded
<1>6. QED
    BY <1>3, <1>4, <1>5 DEF Fit

LEMMA FitPreflight ==
  ASSUME Assumptions, Safe, NEW r \in Runs, Preflight(r), Frame(r)
  PROVE  Fit(r)'
<1>1. /\ Still(r)
      /\ \/ run'[r].pc = "receipt" /\ IsPrivate(r)
         \/ run'[r].pc = "cost" /\ ~IsPrivate(r)
         \/ run'[r].pc = "reject" /\ IsPrivate(r)
         \/ run'[r].pc = "ended" /\ ~IsPrivate(r)
      /\ run[r].pc = "preflight"
    BY Moves, Fails DEF Preflight, Fail, Safe, IsPrivate, Labels
<1>2. UNCHANGED <<asked, traced, spent, by, reserved, markers>>
    BY DEF Preflight, files, served
<1>3. Begun(r)' /\ Counted(r)' /\ Going(r)'
    BY <1>1, <1>2, FitStill DEF Early
<1>4. Paid(r)'
    BY <1>1, <1>2, Keeps DEF Safe, Fit, Paid, Going, Early, Still
<1>5. Judged(r)' /\ Recorded(r)'
    BY <1>1, <1>2 DEF Safe, Fit, Paid, Judged, Recorded
<1>6. QED
    BY <1>3, <1>4, <1>5 DEF Fit

LEMMA FitCreateStarted ==
  ASSUME Assumptions, Safe, NEW r \in Runs, CreateStarted(r), Frame(r)
  PROVE  Fit(r)'
<1>1. /\ Still(r)
      /\ \/ run'[r].pc = "ask" /\ started' = [started EXCEPT ![Key(r)] = Whole(r)]
         \/ run'[r].pc = "reject"
      /\ run[r].pc = "receipt" /\ IsPrivate(r) /\ Key(r) \in Keys
    BY Moves, Fails, KeyOf DEF CreateStarted, Safe, Fit, Begun, IsPrivate, Labels
<1>2. UNCHANGED <<asked, traced, spent, by, reserved, markers>>
    BY DEF CreateStarted, served
<1>3. Begun(r)' /\ Counted(r)' /\ Going(r)'
    BY <1>1, <1>2, FitStill DEF Early
<1>4. Paid(r)'
  <2>1. run'[r].pc = "ask" => started'[Key(r)] = Whole(r)
      BY <1>1 DEF Safe, Typed
  <2>2. QED
      BY <1>1, <1>2, <2>1, Keeps DEF Safe, Fit, Paid, Going, Early, Still
<1>5. Judged(r)' /\ Recorded(r)'
    BY <1>1, <1>2 DEF Safe, Fit, Paid, Judged, Recorded
<1>6. QED
    BY <1>3, <1>4, <1>5 DEF Fit

LEMMA FitAsk ==
  ASSUME Assumptions, Safe, NEW r \in Runs, Ask(r), Frame(r)
  PROVE  Fit(r)'
<1>1. PICK cost \in 0..MaxCost, outcome \in {"good", "flawed", "unpriced"}, rows \in {0, 1} :
        /\ outcome = "good" => rows = 1
        /\ Accounted(r, cost, outcome)
        /\ spent' = [spent EXCEPT ![r] = @ + cost]
        /\ traced' = [traced EXCEPT ![r] = @ + rows]
    BY DEF Ask
<1>2. /\ Same(r) /\ run'[r].exact = run[r].exact
      /\ run'[r].done = run[r].done + 1 /\ run'[r].seen = run[r].seen + cost
      /\ run'[r].flawed <=> (run[r].flawed \/ outcome # "good")
      /\ run'[r].pc \in {"ask", "postflight"}
      /\ run'[r].pc = "ask" => run'[r].done # CasesTotal /\ run'[r].seen <= Cap
                                  /\ (run'[r].done < CasesTotal => run'[r].seen < Cap)
    BY <1>1, Accounts DEF Safe
<1>3. /\ asked'[r] = asked[r] + 1 /\ spent'[r] = spent[r] + cost
      /\ traced'[r] = traced[r] + rows /\ by'[r] # {}
      /\ asked[r] \in Nat /\ spent[r] \in Nat /\ traced[r] \in Nat
      /\ UNCHANGED <<reserved, markers, started>>
    BY <1>1 DEF Ask, files, Safe, Typed
<1>4. run[r].pc = "ask" /\ asked[r] < CasesTotal /\ spent[r] < Cap /\ ~run[r].exact
    BY DEF Ask, Safe, Fit, Going
<1>5. Begun(r)'
    BY <1>2, <1>4, Constants DEF Safe, Fit, Begun, Same
<1>6. Counted(r)'
    BY <1>1, <1>2, <1>3, <1>4, Constants DEF Safe, Fit, Counted
<1>7. Going(r)'
    BY <1>2, <1>3, <1>4, Constants DEF Safe, Fit, Counted, Going, Early
<1>8. Paid(r)'
    BY <1>2, <1>3, <1>4, Keeps DEF Safe, Fit, Paid
<1>9. Judged(r)' /\ Recorded(r)'
    BY <1>2 DEF Judged, Recorded
<1>10. QED
    BY <1>5, <1>6, <1>7, <1>8, <1>9 DEF Fit

\* A step after the cases: what has been paid and counted stays.
LEMMA FitLate ==
  ASSUME Assumptions, Safe, NEW r \in Runs, Frame(r), Still(r),
         UNCHANGED <<asked, traced, spent, by, reserved, markers>>,
         run[r].pc # "new",
         run'[r].pc
           \in {"cardinality", "close", "judge", "report", "markdown", "complete"} \cup Over,
         run'[r].pc = "complete" => IsPrivate(r),
         run'[r].pc = "markdown" => run[r].mode # "phase0",
         Judged(r)', Recorded(r)'
  PROVE  Fit(r)'
<1>1. Begun(r)' /\ Counted(r)' /\ Going(r)'
    BY FitStill DEF Early, Over
<1>2. Paid(r)'
    BY Keeps DEF Safe, Fit, Paid, Still, Over
<1>3. QED
    BY <1>1, <1>2 DEF Fit

LEMMA FitPostflight ==
  ASSUME Assumptions, Safe, NEW r \in Runs, Postflight(r) \/ ClosePool(r), Frame(r)
  PROVE  Fit(r)'
<1>1. /\ Still(r)
      /\ run'[r].pc \in {"cardinality", "judge", "reject", "ended"}
      /\ run'[r].pc = "ended" => run[r].mode # "phase0"
      /\ run[r].pc \in {"postflight", "close"}
    BY Moves, Fails DEF Postflight, ClosePool, Safe, Labels
<1>2. UNCHANGED <<asked, traced, spent, by, reserved, markers>>
    BY DEF Postflight, ClosePool, files, served
<1>3. Judged(r)' /\ Recorded(r)'
    BY <1>1 DEF Judged, Recorded, Still, Same
<1>4. QED
    BY <1>1, <1>2, <1>3, FitLate DEF Over

LEMMA FitCardinality ==
  ASSUME Assumptions, Safe, NEW r \in Runs, CheckCardinality(r), Frame(r)
  PROVE  Fit(r)'
<1>1. /\ Same(r) /\ run'[r].done = run[r].done /\ run'[r].seen = run[r].seen
      /\ run'[r].flawed = run[r].flawed
      /\ run'[r].pc = "close" /\ run[r].pc = "cardinality"
      /\ run'[r].exact => traced[r] = CasesTotal
    BY Counts DEF CheckCardinality, Safe
<1>2. UNCHANGED <<asked, traced, spent, by, reserved, markers>>
    BY DEF CheckCardinality, files, served
<1>3. Begun(r)'
    BY <1>1, Constants DEF Safe, Fit, Begun, Same
<1>4. Counted(r)' /\ Going(r)'
    BY <1>1, <1>2 DEF Safe, Fit, Counted, Going, Early
<1>5. Paid(r)'
    BY <1>1, <1>2, Keeps DEF Safe, Fit, Paid
<1>6. Judged(r)' /\ Recorded(r)'
    BY <1>1 DEF Judged, Recorded
<1>7. QED
    BY <1>3, <1>4, <1>5, <1>6 DEF Fit

LEMMA FitJudge ==
  ASSUME Assumptions, Safe, NEW r \in Runs, Judge(r), Frame(r)
  PROVE  Fit(r)'
<1>1. /\ Still(r)
      /\ (run'[r].pc = "report" /\ ~Failures(r)) \/ run'[r].pc = "reject"
      /\ run[r].pc = "judge"
    BY Moves DEF Judge, Safe, Labels
<1>2. UNCHANGED <<asked, traced, spent, by, reserved, markers>>
    BY DEF Judge, files, served
<1>3. Judged(r)'
    BY <1>1 DEF Judged, Sound, Failures, Still
<1>4. Recorded(r)'
    BY <1>1 DEF Recorded
<1>5. QED
    BY <1>1, <1>2, <1>3, <1>4, FitLate DEF Over

LEMMA FitWriteReport ==
  ASSUME Assumptions, Safe, NEW r \in Runs, WriteReport(r), Frame(r)
  PROVE  Fit(r)'
<1>1. /\ Still(r) /\ run[r].pc = "report" /\ run[r].path \in Paths
      /\ \/ /\ run'[r].pc = IF run[r].mode = "phase0" THEN "ended" ELSE "markdown"
            /\ report' = [report EXCEPT ![run[r].path] = Whole(r)]
         \/ run'[r].pc = "reject"
         \/ run'[r].pc = "ended" /\ run[r].mode # "phase0"
    BY Moves, Fails DEF WriteReport, Safe, Fit, Begun, Labels
<1>2. UNCHANGED <<asked, traced, spent, by, reserved, markers>>
    BY DEF WriteReport, served
<1>3. Judged(r)' /\ Recorded(r)'
  <2>1. \/ report'[run'[r].path] = Whole(r)' /\ run'[r].pc \in {"ended", "markdown"}
        \/ run'[r].pc = "reject"
        \/ run'[r].pc = "ended" /\ run'[r].mode # "phase0"
      BY <1>1 DEF Safe, Typed, Still, Same, Whole
  <2>2. Sound(r)'
      BY <1>1 DEF Safe, Fit, Judged, Sound, Still
  <2>3. QED
      BY <2>1, <2>2 DEF Judged, Recorded
<1>4. QED
    BY <1>1, <1>2, <1>3, FitLate DEF Over

LEMMA FitWriteMarkdown ==
  ASSUME Assumptions, Safe, NEW r \in Runs, WriteMarkdown(r), Frame(r)
  PROVE  Fit(r)'
<1>1. /\ Still(r) /\ run[r].pc = "markdown" /\ run[r].mode # "phase0"
      /\ \/ run'[r].pc = "complete" /\ IsPrivate(r)
         \/ run'[r].pc \in {"reject", "ended"}
    BY Moves, Fails DEF WriteMarkdown, Safe, Fit, Begun, IsPrivate, Labels
<1>2. UNCHANGED <<asked, traced, spent, by, reserved, markers>>
    BY DEF WriteMarkdown, files, served
<1>3. Judged(r)' /\ Recorded(r)'
    BY <1>1, Keeps DEF Safe, Fit, Judged, Recorded, Sound, Still, Same
<1>4. QED
    BY <1>1, <1>2, <1>3, FitLate DEF Over

LEMMA FitWriteCompleted ==
  ASSUME Assumptions, Safe, NEW r \in Runs, WriteCompleted(r), Frame(r)
  PROVE  Fit(r)'
<1>1. /\ Still(r) /\ run[r].pc = "complete" /\ IsPrivate(r)
      /\ run'[r].pc \in {"reject", "ended"}
    BY Moves, Fails DEF WriteCompleted, Safe, Fit, Begun, IsPrivate, Labels
<1>2. UNCHANGED <<asked, traced, spent, by, reserved, markers>>
    BY DEF WriteCompleted, served
<1>3. Judged(r)' /\ Recorded(r)'
    BY <1>1 DEF Judged, Recorded, Still, Same, IsPrivate, Private
<1>4. QED
    BY <1>1, <1>2, <1>3, FitLate DEF Over

LEMMA FitEnd ==
  ASSUME Assumptions, Safe, NEW r \in Runs, Reject(r) \/ Crash(r), Frame(r)
  PROVE  Fit(r)'
<1>1. /\ Still(r) /\ run[r].pc # "new"
      /\ run'[r].pc = "lost" \/ (run'[r].pc = "ended" /\ r \in rejected')
    BY Moves DEF Reject, Crash, Safe, Labels
<1>2. UNCHANGED <<asked, traced, spent, by, reserved, markers>>
    BY DEF Reject, Crash, files, served
<1>3. Judged(r)' /\ Recorded(r)'
    BY <1>1 DEF Judged, Recorded
<1>4. QED
    BY <1>1, <1>2, <1>3, FitLate DEF Over

-----------------------------------------------------------------------------
(* A step of a run.                                                        *)

LEMMA Framed ==
  ASSUME Assumptions, Safe, NEW r \in Runs, Step(r)
  PROVE  Typed' /\ Frame(r)
<1> USE DEF Safe
<1>1. CASE CreateStarted(r) \/ WriteReport(r) \/ WriteCompleted(r)
  <2>1. run[r].path \in Paths
      BY <1>1 DEF Fit, Begun, CreateStarted, WriteReport, WriteCompleted
  <2>2. CreateStarted(r) \/ WriteCompleted(r) => IsPrivate(r)
      BY DEF Fit, Begun, CreateStarted, WriteCompleted
  <2>3. QED
      BY <1>1, <2>1, <2>2, KeyOf, FrameWrite
<1>2. QED
    BY <1>1, FrameBegin, FrameMove, FrameReserve, FrameCardinality, FrameAsk DEF Step

LEMMA FitStep ==
  ASSUME Assumptions, Safe, NEW r \in Runs, Step(r)
  PROVE  \A s \in Runs : Fit(s)'
<1>1. Frame(r)
    BY Framed
<1>2. Fit(r)'
    BY <1>1, FitBegin, FitOpenPool, FitReserveCost, FitReserveMarker, FitPreflight,
       FitCreateStarted, FitAsk, FitPostflight, FitCardinality, FitJudge, FitWriteReport,
       FitWriteMarkdown, FitWriteCompleted, FitEnd DEF Step
<1>3. QED
    BY <1>1, <1>2, Others

\* A run that has written a report, or is over, has nothing before it that it could change.
LEMMA Onward ==
  ASSUME Assumptions, Safe, NEW r \in Runs, Step(r), run[r].pc \in Reported
  PROVE  /\ Still(r) /\ run'[r].pc \in Reported
         /\ run[r].pc \in Over => run'[r].pc \in Over
<1> USE DEF Reported, Over, Safe
<1>1. CASE WriteMarkdown(r)
    BY <1>1, Moves, Fails DEF WriteMarkdown, Labels
<1>2. CASE WriteCompleted(r)
    BY <1>2, Moves, Fails DEF WriteCompleted, Labels
<1>3. CASE Reject(r) \/ Crash(r)
    BY <1>3, Moves DEF Reject, Crash, Labels
<1>4. QED
    BY <1>1, <1>2, <1>3 DEF Step, Begin, OpenPool, ReserveCost, ReserveMarker, Preflight,
       CreateStarted, Ask, Postflight, CheckCardinality, ClosePool, Judge, WriteReport

\* A run that has begun remains what it is.
LEMMA MovesOn ==
  ASSUME Assumptions, Safe, NEW r \in Runs, Step(r), run[r].pc # "new"
  PROVE  Same(r)
<1>1. CASE Ask(r)
    BY <1>1, Accounts DEF Ask, Safe
<1>2. CASE CheckCardinality(r)
    BY <1>2, Counts DEF Safe
<1>3. CASE (\E label \in Labels : Goto(r, label)) \/ (\E recorded : Fail(r, recorded))
    BY <1>3, Moves, Fails DEF Safe, Still
<1>4. QED
    BY <1>1, <1>2, <1>3 DEF Step, Begin, OpenPool, ReserveCost, ReserveMarker, Preflight,
       CreateStarted, Postflight, ClosePool, Judge, WriteReport, WriteMarkdown,
       WriteCompleted, Reject, Crash, Labels

\* What a step does to any run of which a file speaks.
LEMMA Owner ==
  ASSUME Assumptions, Safe, NEW r \in Runs, Step(r), NEW s \in Runs, run[s].pc # "new"
  PROVE  /\ IsPrivate(s)' = IsPrivate(s) /\ Key(s)' = Key(s) /\ run'[s].path = run[s].path
         /\ run[s].pc \in Reported => Sound(s)' = Sound(s) /\ run'[s].pc \in Reported
         /\ run[s].pc \in Over => run'[s].pc \in Over
<1>1. CASE s # r
  <2>1. run'[s] = run[s]
      BY <1>1, Framed DEF Frame
  <2>2. QED
      BY <2>1 DEF IsPrivate, Key, Sound
<1>2. CASE s = r
  <2>1. Same(r)
      BY <1>2, MovesOn
  <2>2. run[r].pc \in Reported => Sound(r)' = Sound(r)
      BY Onward DEF Still, Sound
  <2>3. IsPrivate(r)' = IsPrivate(r) /\ Key(r)' = Key(r) /\ run'[r].path = run[r].path
      BY <2>1 DEF Same, IsPrivate, Key
  <2>4. /\ run[r].pc \in Reported => run'[r].pc \in Reported
        /\ run[r].pc \in Over => run'[r].pc \in Over
      BY Onward DEF Reported
  <2>5. QED
      BY <1>2, <2>2, <2>3, <2>4, Zenon
<1>3. QED
    BY <1>1, <1>2

-----------------------------------------------------------------------------
(* The files.                                                              *)

LEMMA StartedStep ==
  ASSUME Assumptions, Safe, NEW r \in Runs, Step(r)
  PROVE  StartedFit'
<1>1. ASSUME NEW k \in Keys, started'[k] # None
      PROVE  \E s \in Runs : s = started'[k].run /\ IsPrivate(s)' /\ Key(s)' = k
  <2>1. CASE started[k] # None
    <3>1. started'[k] = started[k] /\ started[k] \in Receipts
        BY <2>1, Framed, Constants DEF Frame, Safe, Typed
    <3>2. PICK s \in Runs : s = started[k].run
        BY <3>1 DEF Receipts
    <3>3. IsPrivate(s) /\ Key(s) = k
        BY <2>1, <3>2 DEF Safe, StartedFit
    <3>4. IsPrivate(s)' /\ Key(s)' = k
        BY <3>3, KeyOf, Owner
    <3>5. QED
        BY <3>1, <3>2, <3>4
  <2>2. CASE started[k] = None
    <3>1. CreateStarted(r)
        BY <1>1, <2>2 DEF Step, Begin, OpenPool, ReserveCost, ReserveMarker, Preflight, Ask,
           Postflight, CheckCardinality, ClosePool, Judge, WriteReport, WriteMarkdown,
           WriteCompleted,
           Reject, Crash, files
    <3>2. IsPrivate(r) /\ run[r].pc = "receipt"
        BY <3>1 DEF CreateStarted, Safe, Fit, Begun
    <3>3. started' = [started EXCEPT ![Key(r)] = Whole(r)]
          \/ started' = [started EXCEPT ![Key(r)] = Torn(r)]
          \/ started' = started
        BY <3>1 DEF CreateStarted
    <3>4. k = Key(r) /\ started'[k].run = r
        BY <1>1, <2>2, <3>3, Files DEF Safe, Typed
    <3>5. IsPrivate(r)' /\ Key(r)' = Key(r)
        BY <3>2, Owner
    <3>6. QED
        BY <3>4, <3>5
  <2>3. QED
      BY <2>1, <2>2
<1>2. QED
    BY <1>1 DEF StartedFit

\* What a report says stays on disk.
LEMMA ReportStays ==
  ASSUME Assumptions, Safe, NEW r \in Runs, Step(r), NEW s \in Runs, run[s].pc # "new",
         report[run[s].path] = Whole(s)
  PROVE  report'[run'[s].path] = Whole(s)
<1>1. run[s].path \in Paths
    BY DEF Safe, Fit, Begun
<1>2. QED
    BY <1>1, Framed, Owner, Files, Constants DEF Frame

LEMMA CompletedStep ==
  ASSUME Assumptions, Safe, NEW r \in Runs, Step(r)
  PROVE  CompletedFit'
<1> DEFINE Good(s, k) == /\ IsPrivate(s)' /\ Key(s)' = k /\ run'[s].pc \in Over
                         /\ Sound(s)' /\ report'[run'[s].path] = Whole(s)
<1>1. ASSUME NEW k \in Keys, completed'[k] # None
      PROVE  \E s \in Runs : s = completed'[k].run /\ Good(s, k)
  <2>1. CASE completed[k] # None
    <3>1. completed'[k] = completed[k] /\ completed[k] \in Receipts
        BY <2>1, Framed, Constants DEF Frame, Safe, Typed
    <3>2. PICK s \in Runs : s = completed[k].run
        BY <3>1 DEF Receipts
    <3>3. /\ IsPrivate(s) /\ Key(s) = k /\ run[s].pc \in Over
          /\ Sound(s) /\ report[run[s].path] = Whole(s)
        BY <2>1, <3>2 DEF Safe, CompletedFit
    <3>4. IsPrivate(s)' /\ Key(s)' = k /\ run'[s].pc \in Over /\ Sound(s)'
        BY <3>3, Owner DEF Over, Reported
    <3>5. report'[run'[s].path] = Whole(s)
        BY <3>3, ReportStays DEF Over
    <3>6. QED
        BY <3>1, <3>2, <3>4, <3>5
  <2>2. CASE completed[k] = None
    <3>1. WriteCompleted(r)
        BY <1>1, <2>2 DEF Step, Begin, OpenPool, ReserveCost, ReserveMarker, Preflight,
           CreateStarted, Ask, Postflight, CheckCardinality, ClosePool, Judge, WriteReport,
           WriteMarkdown, Reject, Crash, files
    <3>2. /\ run[r].pc = "complete" /\ IsPrivate(r) /\ Sound(r)
          /\ report[run[r].path] = Whole(r)
        BY <3>1 DEF WriteCompleted, Safe, Fit, Begun, Judged
    <3>3. completed' = [completed EXCEPT ![Key(r)] = Whole(r)]
          \/ completed' = [completed EXCEPT ![Key(r)] = Torn(r)]
          \/ completed' = completed
        BY <3>1 DEF WriteCompleted
    <3>4. k = Key(r) /\ completed'[k].run = r
        BY <1>1, <2>2, <3>3, Files DEF Safe, Typed
    <3>5. IsPrivate(r)' /\ Key(r)' = k /\ Sound(r)'
        BY <3>2, <3>4, Owner DEF Reported
    <3>6. run'[r].pc \in Over
        BY <3>1, Moves, Fails DEF WriteCompleted, Safe, Over, Labels
    <3>7. report'[run'[r].path] = Whole(r)
        BY <3>2, ReportStays
    <3>8. QED
        BY <3>4, <3>5, <3>6, <3>7
  <2>3. QED
      BY <2>1, <2>2
<1>2. \A s : Whole(s)' = Whole(s)
    BY DEF Whole
<1>3. QED
    BY <1>1, <1>2 DEF CompletedFit

LEMMA ReportStep ==
  ASSUME Assumptions, Safe, NEW r \in Runs, Step(r)
  PROVE  ReportFit'
<1> DEFINE Good(s, p) ==
      /\ run'[s].path = p /\ run'[s].pc \in Reported /\ (report'[p].whole => Sound(s)')
<1>1. ASSUME NEW p \in Paths, report'[p] # None
      PROVE  \E s \in Runs : s = report'[p].run /\ Good(s, p)
  <2>1. CASE report[p] # None
    <3>1. report'[p] = report[p] /\ report[p] \in Receipts
        BY <2>1, Framed, Constants DEF Frame, Safe, Typed
    <3>2. PICK s \in Runs : s = report[p].run
        BY <3>1 DEF Receipts
    <3>3. run[s].path = p /\ run[s].pc \in Reported /\ (report[p].whole => Sound(s))
        BY <2>1, <3>2 DEF Safe, ReportFit
    <3>4. run'[s].path = p /\ run'[s].pc \in Reported /\ (report'[p].whole => Sound(s)')
        BY <3>1, <3>3, Owner DEF Over, Reported
    <3>5. QED
        BY <3>1, <3>2, <3>4
  <2>2. CASE report[p] = None
    <3>1. WriteReport(r)
        BY <1>1, <2>2 DEF Step, Begin, OpenPool, ReserveCost, ReserveMarker, Preflight,
           CreateStarted, Ask, Postflight, CheckCardinality, ClosePool, Judge, WriteCompleted,
           WriteMarkdown, Reject, Crash, files
    <3>2. run[r].pc = "report" /\ Sound(r)
        BY <3>1 DEF WriteReport, Safe, Fit, Judged
    <3>3. report' = [report EXCEPT ![run[r].path] = Whole(r)]
          \/ report' = [report EXCEPT ![run[r].path] = Torn(r)]
          \/ report' = report
        BY <3>1 DEF WriteReport
    <3>4. p = run[r].path /\ report'[p].run = r
        BY <1>1, <2>2, <3>3, Files DEF Safe, Typed
    <3>5. Still(r) /\ run'[r].pc \in {"ended", "markdown", "reject"}
        BY <3>1, Moves, Fails DEF WriteReport, Safe, Labels
    <3>6. QED
        BY <3>2, <3>4, <3>5 DEF Still, Same, Sound, Reported, Over
  <2>3. QED
      BY <2>1, <2>2
<1>2. QED
    BY <1>1 DEF ReportFit

LEMMA ReplayStep ==
  ASSUME Assumptions, Safe, NEW r \in Runs, Step(r)
  PROVE  ReplayFit'
<1>1. started["sealed"] # None => started'["sealed"] # None
    BY Framed, Constants DEF Frame
<1>2. ASSUME Begin(r), run'[r].mode = "replay" PROVE started["sealed"] # None
  <2>1. Exposure("replay")
      BY <1>2 DEF Begin, Safe, Typed, Idle
  <2>2. CASE completed["sealed"] # None
    <3>1. completed["sealed"] \in Receipts
        BY <2>2, Constants DEF Safe, Typed
    <3>2. PICK s \in Runs : s = completed["sealed"].run
        BY <3>1 DEF Receipts
    <3>3. IsPrivate(s) /\ Key(s) = "sealed" /\ Sound(s)
        BY <2>2, <3>2, Constants DEF Safe, CompletedFit
    <3>4. asked[s] > 0
        BY <3>3, Constants DEF Safe, Fit, Counted, Sound
    <3>5. started["sealed"] = Whole(s)
        BY <3>3, <3>4 DEF Safe, Fit, Paid
    <3>6. QED
        BY <3>5, Files, Constants
  <2>3. QED
      BY <2>1, <2>2 DEF Exposure
<1>3. \A s \in Runs : run'[s].mode # run[s].mode => s = r /\ Begin(r)
  <2>1. \A s \in Runs \ {r} : run'[s] = run[s]
      BY Framed DEF Frame
  <2>2. run[r].pc # "new" => run'[r].mode = run[r].mode
      BY MovesOn DEF Same
  <2>3. run[r].pc = "new" => Begin(r)
      BY DEF Step, OpenPool, ReserveCost, ReserveMarker, Preflight, CreateStarted,
         Ask, Postflight,
         CheckCardinality, ClosePool, Judge, WriteReport, WriteMarkdown, WriteCompleted,
         Reject, Crash
  <2>4. QED
      BY <2>1, <2>2, <2>3
<1>4. QED
    BY <1>1, <1>2, <1>3 DEF Safe, ReplayFit

LEMMA SafeStep ==
  ASSUME Assumptions, Safe, NEW r \in Runs, Step(r)
  PROVE  Safe'
<1>1. Typed'
    BY Framed
<1>2. \A s \in Runs : Fit(s)'
    BY FitStep
<1>3. QED
    BY <1>1, <1>2, StartedStep, CompletedStep, ReportStep, ReplayStep DEF Safe

-----------------------------------------------------------------------------
(* The invariant.                                                          *)

LEMMA SafeInit == ASSUME Assumptions, Init PROVE Safe
<1>1. Typed
    BY TypedInit
<1>2. StartedFit /\ CompletedFit /\ ReportFit
    BY DEF Init, StartedFit, CompletedFit, ReportFit
<1>3. ReplayFit
    BY Constants DEF Init, ReplayFit, Idle
<1>4. ASSUME NEW r \in Runs PROVE Fit(r)
  <2>1. /\ run[r] = Idle /\ run[r].pc = "new" /\ run[r].done = 0 /\ run[r].seen = 0
        /\ ~run[r].flawed /\ ~run[r].exact /\ run[r].mode # "phase0"
        /\ asked[r] = 0 /\ traced[r] = 0 /\ spent[r] = 0 /\ by[r] = {}
        /\ r \notin reserved /\ r \notin markers
      BY Constants DEF Init, Idle
  <2>2. Begun(r)
      BY <2>1 DEF Begun
  <2>3. Counted(r) /\ Going(r)
      BY <2>1, Constants DEF Counted, Going, Early
  <2>4. Paid(r) /\ Judged(r) /\ Recorded(r)
      BY <2>1 DEF Paid, Judged, Recorded
  <2>5. QED
      BY <2>2, <2>3, <2>4 DEF Fit
<1>5. QED
    BY <1>1, <1>2, <1>3, <1>4 DEF Safe

\* A deployment changes nothing of an evaluation.
LEMMA SafeAside ==
  ASSUME Safe, UNCHANGED <<files, run, served, faults>>, release' \in Runtimes,
         deploys' \in 0..MaxDeploys
  PROVE  Safe'
<1> USE DEF files, served, Safe
<1>1. Typed'
    BY DEF Typed
<1>2. StartedFit' /\ ReplayFit'
    BY DEF StartedFit, ReplayFit, IsPrivate, Key
<1>3. CompletedFit' /\ ReportFit'
    BY DEF CompletedFit, ReportFit, IsPrivate, Key, Sound, Whole
<1>4. ASSUME NEW r \in Runs PROVE Fit(r)'
  <2>1. Begun(r)' /\ Counted(r)' /\ Going(r)'
      BY DEF Fit, Begun, Counted, Going, IsPrivate
  <2>2. Paid(r)' /\ Judged(r)' /\ Recorded(r)'
      BY DEF Fit, Paid, Judged, Recorded, IsPrivate, Key, Sound, Whole
  <2>3. QED
      BY <2>1, <2>2 DEF Fit
<1>5. QED
    BY <1>1, <1>2, <1>3, <1>4

LEMMA SafeNext == ASSUME Assumptions, Safe, [Next]_vars PROVE Safe'
<1>1. CASE Deploy
    BY <1>1, SafeAside, Constants DEF Deploy, Safe, Typed
<1>2. CASE UNCHANGED vars
    BY <1>2, SafeAside DEF vars, Safe, Typed
<1>3. QED
    BY <1>1, <1>2, SafeStep DEF Next

-----------------------------------------------------------------------------
(* What is served by which release.                                        *)

\* Between its two looks at the runtime.
Verified(r) ==
  run[r].pc \in {"receipt", "ask", "postflight"} \/ (run[r].pc = "cost" /\ ~IsPrivate(r))

\* While nothing has been deployed the verified runtime answers, and as long as it is there
\* nothing else has answered.
Served(r) ==
  /\ Verified(r) => /\ deploys = 0 => release = run[r].runtime
                    /\ release = run[r].runtime => by[r] \subseteq {run[r].runtime}
  /\ run[r].pc \in {"cardinality", "close", "judge", "report", "markdown", "complete"} =>
       by[r] \subseteq {run[r].runtime}

ServedFit ==
  /\ \A r \in Runs : Served(r)
  /\ \A p \in Paths : (report[p] # None /\ report[p].whole) =>
       by[report[p].run] \subseteq {run[report[p].run].runtime}

LEMMA ServedInit == ASSUME Init PROVE ServedFit
  BY DEF Init, ServedFit, Served, Verified, Idle

LEMMA ServedDeploy ==
  ASSUME Assumptions, MaxDeploys <= 1, Safe, ServedFit, Deploy
  PROVE  ServedFit'
<1>1. deploys = 0 /\ deploys' = 1 /\ release' # release
    BY Constants DEF Deploy, Safe, Typed
<1>2. UNCHANGED <<run, by, report>>
    BY DEF Deploy, files, served
<1>3. ASSUME NEW r \in Runs PROVE Served(r)'
    BY <1>1, <1>2 DEF ServedFit, Served, Verified, IsPrivate
<1>4. QED
    BY <1>2, <1>3 DEF ServedFit

LEMMA ServedRun ==
  ASSUME Assumptions, Safe, ServedFit, NEW r \in Runs, Step(r)
  PROVE  Served(r)'
<1>1. UNCHANGED <<release, deploys>>
    BY DEF Step, Begin, OpenPool, ReserveCost, ReserveMarker, Preflight, CreateStarted, Ask,
       Postflight, CheckCardinality, ClosePool, Judge, WriteReport, WriteMarkdown, WriteCompleted,
       Reject, Crash
<1>2. Served(r) /\ Typed /\ Begun(r)
    BY DEF Safe, Fit, ServedFit
<1>3. CASE Begin(r)
  <2>1. run'[r].pc \in {"reject", "pool"}
      BY <1>2, <1>3 DEF Begin, Typed, Idle
  <2>2. QED
      BY <2>1 DEF Served, Verified
<1>4. CASE Ask(r)
  <2>1. PICK cost \in 0..MaxCost, outcome \in {"good", "flawed", "unpriced"}
        : Accounted(r, cost, outcome)
      BY <1>4 DEF Ask
  <2>2. Same(r) /\ run'[r].pc \in {"ask", "postflight"}
      BY <1>2, <2>1, Accounts
  <2>3. run[r].pc = "ask" /\ by'[r] = by[r] \cup {release}
      BY <1>2, <1>4 DEF Ask, Typed
  <2>4. QED
      BY <1>1, <1>2, <2>2, <2>3 DEF Served, Verified, Same
<1>5. CASE ~Begin(r) /\ ~Ask(r)
  <2>1. run[r].pc # "new" /\ by' = by
      BY <1>5 DEF Step, OpenPool, ReserveCost, ReserveMarker, Preflight, CreateStarted,
         Postflight, CheckCardinality, ClosePool, Judge, WriteReport, WriteMarkdown,
         WriteCompleted,
         Reject, Crash, served
  <2>2. Same(r) /\ IsPrivate(r)' = IsPrivate(r)
      BY <2>1, MovesOn DEF Same, IsPrivate
  <2>3. CASE Preflight(r)
    <3>1. release = run[r].runtime \/ run'[r].pc \in {"reject", "ended"}
        BY <1>2, <2>3, Fails DEF Preflight
    <3>2. by[r] = {} /\ run'[r].pc \in {"receipt", "cost", "reject", "ended"}
        BY <1>2, <2>3, Moves, Fails DEF Preflight, Safe, Fit, Counted, Going, Early, Labels
    <3>3. QED
        BY <1>1, <2>1, <2>2, <3>1, <3>2 DEF Served, Verified, Same
  <2>4. CASE Postflight(r)
    <3>1. /\ run[r].pc = "postflight"
          /\ (release = run[r].runtime /\ run'[r].pc = "cardinality")
             \/ run'[r].pc \in {"reject", "ended"}
        BY <1>2, <2>4, Moves, Fails DEF Postflight, Labels
    <3>2. QED
        BY <1>2, <2>1, <2>2, <3>1 DEF Served, Verified, Same
  <2>5. CASE ~Preflight(r) /\ ~Postflight(r)
    <3>1. \/ run'[r].pc \in {"reject", "ended", "lost", "preflight", "marker"}
          \/ run'[r].pc = "cost" /\ IsPrivate(r)
          \/ run'[r].pc = "ask" /\ Verified(r)
          \/ /\ run'[r].pc \in {"close", "judge", "report", "markdown", "complete"}
             /\ run[r].pc \in {"cardinality", "close", "judge", "report", "markdown"}
      <4>1. CASE OpenPool(r) \/ ReserveCost(r) \/ ReserveMarker(r) \/ CreateStarted(r)
          BY <1>2, <4>1, Moves, Fails DEF OpenPool, ReserveCost, ReserveMarker, CreateStarted,
             Verified, IsPrivate, Labels
      <4>2. CASE CheckCardinality(r)
          BY <1>2, <4>2, Counts DEF CheckCardinality
      <4>3. CASE ClosePool(r) \/ Judge(r) \/ WriteReport(r) \/ WriteMarkdown(r)
          BY <1>2, <4>3, Moves, Fails DEF ClosePool, Judge, WriteReport, WriteMarkdown, Labels
      <4>4. CASE WriteCompleted(r) \/ Reject(r) \/ Crash(r)
          BY <1>2, <4>4, Moves, Fails DEF WriteCompleted, Reject, Crash, Labels
      <4>5. QED
          BY <1>5, <2>5, <4>1, <4>2, <4>3, <4>4 DEF Step
    <3>2. QED
        BY <1>1, <1>2, <2>1, <2>2, <3>1 DEF Served, Verified, Same
  <2>6. QED
      BY <2>3, <2>4, <2>5
<1>6. QED
    BY <1>3, <1>4, <1>5

LEMMA ServedStep ==
  ASSUME Assumptions, Safe, ServedFit, NEW r \in Runs, Step(r)
  PROVE  ServedFit'
<1>1. UNCHANGED <<release, deploys>>
    BY DEF Step, Begin, OpenPool, ReserveCost, ReserveMarker, Preflight, CreateStarted, Ask,
       Postflight, CheckCardinality, ClosePool, Judge, WriteReport, WriteMarkdown, WriteCompleted,
       Reject, Crash
<1>2. ASSUME NEW s \in Runs PROVE Served(s)'
  <2>1. CASE s = r
      BY <2>1, ServedRun
  <2>2. CASE s # r
    <3>1. run'[s] = run[s] /\ by'[s] = by[s]
        BY <2>2, Framed DEF Frame
    <3>2. QED
        BY <1>1, <3>1 DEF ServedFit, Served, Verified, IsPrivate
  <2>3. QED
      BY <2>1, <2>2
<1>3. ASSUME NEW p \in Paths, report'[p] # None, report'[p].whole
      PROVE  by'[report'[p].run] \subseteq {run'[report'[p].run].runtime}
  <2>1. CASE report[p] # None
    <3>1. report'[p] = report[p] /\ report[p] \in Receipts
        BY <2>1, Framed, Constants DEF Frame, Safe, Typed
    <3>2. PICK s \in Runs : s = report[p].run
        BY <3>1 DEF Receipts
    <3>3. run[s].pc \in Reported /\ by[s] \subseteq {run[s].runtime}
        BY <1>3, <2>1, <3>1, <3>2 DEF Safe, ReportFit, ServedFit
    <3>4. by'[s] = by[s] /\ run'[s].runtime = run[s].runtime
      <4>1. CASE s # r
          BY <4>1, Framed DEF Frame
      <4>2. CASE s = r
        <5>1. ~Ask(r) /\ ~Begin(r) /\ run[r].pc # "new"
            BY <3>3, <4>2 DEF Ask, Begin, Reported, Over
        <5>2. by' = by
            BY <5>1 DEF Step, OpenPool, ReserveCost, ReserveMarker, Preflight, CreateStarted,
               Postflight, CheckCardinality, ClosePool, Judge, WriteReport, WriteMarkdown,
               WriteCompleted, Reject, Crash, served
        <5>3. QED
            BY <4>2, <5>1, <5>2, MovesOn DEF Same
      <4>3. QED
          BY <4>1, <4>2
    <3>5. QED
        BY <3>1, <3>2, <3>3, <3>4
  <2>2. CASE report[p] = None
    <3>1. WriteReport(r)
        BY <1>3, <2>2 DEF Step, Begin, OpenPool, ReserveCost, ReserveMarker, Preflight,
           CreateStarted, Ask, Postflight, CheckCardinality, ClosePool, Judge, WriteCompleted,
           WriteMarkdown, Reject, Crash, files
    <3>2. run[r].pc = "report" /\ by' = by /\ run'[r].runtime = run[r].runtime
        BY <3>1, MovesOn DEF WriteReport, served, Same
    <3>3. report' = [report EXCEPT ![run[r].path] = Whole(r)]
          \/ report' = [report EXCEPT ![run[r].path] = Torn(r)]
          \/ report' = report
        BY <3>1 DEF WriteReport
    <3>4. report'[p].run = r
        BY <1>3, <2>2, <3>3, Files DEF Safe, Typed
    <3>5. QED
        BY <3>2, <3>4 DEF ServedFit, Served
  <2>3. QED
      BY <2>1, <2>2
<1>4. QED
    BY <1>2, <1>3 DEF ServedFit

LEMMA ServedNext ==
  ASSUME Assumptions, MaxDeploys <= 1, Safe, ServedFit, [Next]_vars
  PROVE  ServedFit'
<1>1. CASE UNCHANGED vars
    BY <1>1 DEF vars, files, served, ServedFit, Served, Verified, IsPrivate
<1>2. QED
    BY <1>1, ServedDeploy, ServedStep DEF Next

-----------------------------------------------------------------------------
(* The theorems.                                                           *)

LEMMA SafeTypes == ASSUME Assumptions, Safe PROVE TypeOK
<1> USE DEF Safe, Typed
<1>1. \A r \in Runs :
       /\ run[r].mode \in Modes \cup {None} /\ run[r].pc \in Labels
       /\ run[r].runtime \in Runtimes \cup {None} /\ run[r].path \in Paths \cup {None}
    BY DEF Locals
<1>2. ASSUME NEW r \in Runs
      PROVE  /\ run[r].done = asked[r] /\ asked[r] \in 0..CasesTotal
             /\ traced[r] \in 0..asked[r]
             /\ by[r] \subseteq Runtimes
  <2>1. asked[r] \in Nat /\ traced[r] \in Nat /\ by[r] \in SUBSET Runtimes
      OBVIOUS
  <2>2. Counted(r)
      BY DEF Fit
  <2>3. QED
      BY <2>1, <2>2, Constants DEF Counted
<1>3. markers \subseteq {r \in reserved : run[r].mode \in Private}
    BY DEF Fit, Paid, IsPrivate
<1>4. \A k \in Keys : \A f \in {started[k], completed[k]} \ {None} : Key(f.run) = k
    BY DEF StartedFit, CompletedFit
<1>5. QED
    BY <1>1, <1>2, <1>3, <1>4 DEF TypeOK

LEMMA SafeOneShot == ASSUME Assumptions, Safe PROVE OneShot
<1> SUFFICES ASSUME NEW r \in Runs, NEW s \in Runs, IsPrivate(r), IsPrivate(s),
                    Key(r) = Key(s), asked[r] > 0, asked[s] > 0
             PROVE  r = s
    BY DEF OneShot, IsPrivate, Safe, Typed
<1>1. started[Key(r)] = Whole(r) /\ started[Key(s)] = Whole(s)
    BY DEF Safe, Fit, Paid
<1>2. QED
    BY <1>1, Files

\* run_ask.py: files, counters and evidence of every run have their types, receipts and
\* markers belong to private runs, and each receipt is one of its own key.
THEOREM TypeCorrect == ASSUME Assumptions PROVE Spec => []TypeOK
<1>1. Init => Safe
    BY SafeInit
<1>2. Safe /\ [Next]_vars => Safe'
    BY SafeNext
<1>3. Safe => TypeOK
    BY SafeTypes
<1>4. QED
    BY <1>1, <1>2, <1>3, PTL DEF Spec

\* run_ask.py, the exclusive started receipt: whatever crashes, fails or runs at the same
\* time, a selection is put to the bot by one run under seal and by one per runtime as a
\* replay, and not under seal once a replay has shown it.
THEOREM SelectionAskedOnce == ASSUME Assumptions PROVE Spec => AskedOnce
<1>1. Init => Safe
    BY SafeInit
<1>2. Safe /\ [Next]_vars => Safe'
    BY SafeNext
<1>3. Safe => OneShot
    BY SafeOneShot
<1>4. ASSUME Safe, [Next]_vars PROVE FreshStart
  <2>1. CASE started'["sealed"] = started["sealed"]
      BY <2>1 DEF FreshStart
  <2>2. CASE started'["sealed"] # started["sealed"]
    <3>1. PICK r \in Runs : Step(r)
        BY <1>4, <2>2 DEF Next, Deploy, vars, files
    <3>2. started["sealed"] = None
        BY <1>4, <2>2, <3>1, Framed, Constants DEF Frame
    <3>3. \A s \in Runs : run[s].mode # "replay"
        BY <1>4, <3>2 DEF Safe, ReplayFit
    <3>4. QED
        BY <3>3 DEF FreshStart
  <2>3. QED
      BY <2>1, <2>2
<1>5. QED
    BY <1>1, <1>2, <1>3, <1>4, PTL DEF Spec, AskedOnce

LEMMA SafeRecord ==
  ASSUME Assumptions, Safe
  PROVE  PaidOnRecord /\ SpendBounded /\ Phase0OnRecord /\ CompletedIsSound
<1>1. PaidOnRecord
    BY DEF Safe, Fit, Paid, PaidOnRecord, IsPrivate
<1>2. SpendBounded
    BY DEF Safe, Fit, Counted, SpendBounded
<1>3. Phase0OnRecord
    BY DEF Safe, Fit, Recorded, Phase0OnRecord
<1>4. ASSUME NEW k \in Keys, completed[k] # None, NEW r \in Runs, r = completed[k].run
      PROVE  /\ report[run[r].path] = Whole(r)
             /\ asked[r] = CasesTotal /\ traced[r] = CasesTotal
             /\ ~run[r].flawed /\ run[r].stop # "pricing"
    BY <1>4 DEF Safe, CompletedFit, Fit, Counted, Going, Sound
<1>5. \A k \in Keys : completed[k] # None => completed[k].run \in Runs
    BY Constants DEF Safe, Typed, Receipts
<1>6. QED
    BY <1>1, <1>2, <1>3, <1>4, <1>5 DEF CompletedIsSound

\* run_ask.py, run_eval: no case is asked that is not paid for and on record, the spending
\* exceeds the cap by less than one case, Phase 0 leaves a report or evidence of its failure,
\* and a completed receipt stands for a whole and sound report over every case, however many
\* runs meet, writes fail, processes die and releases are deployed.
THEOREM PaidAndRecorded ==
  ASSUME Assumptions
  PROVE  Spec => [](PaidOnRecord /\ SpendBounded /\ Phase0OnRecord /\ CompletedIsSound)
<1>1. Init => Safe
    BY SafeInit
<1>2. Safe /\ [Next]_vars => Safe'
    BY SafeNext
<1>3. Safe => PaidOnRecord /\ SpendBounded /\ Phase0OnRecord /\ CompletedIsSound
    BY SafeRecord
<1>4. QED
    BY <1>1, <1>2, <1>3, PTL DEF Spec

LEMMA SafeRuntime ==
  ASSUME Assumptions, Safe, ServedFit
  PROVE  ReportOfItsRuntime
<1> SUFFICES ASSUME NEW p \in Paths, report[p] # None, report[p].whole
             PROVE  by[report[p].run] = {run[report[p].run].runtime}
    BY DEF ReportOfItsRuntime
<1>1. report[p] \in Receipts
    BY Constants DEF Safe, Typed
<1>2. PICK r \in Runs : r = report[p].run
    BY <1>1 DEF Receipts
<1>3. Sound(r) /\ by[r] \subseteq {run[r].runtime}
    BY <1>2 DEF Safe, ReportFit, ServedFit
<1>4. by[r] # {}
    BY <1>3, Constants DEF Safe, Fit, Counted, Sound
<1>5. QED
    BY <1>2, <1>3, <1>4

\* run_ask.py, the two readiness checks: with one deployment at most while the runs last,
\* all of this, and a whole report was answered by the release it names.  (The checks do not
\* notice a release that is taken back in between.)
THEOREM RunsOnRecord ==
  ASSUME Assumptions, MaxDeploys <= 1
  PROVE  Spec => []RunIsOnRecord
<1>1. Init => Safe /\ ServedFit
    BY SafeInit, ServedInit
<1>2. Safe /\ ServedFit /\ [Next]_vars => (Safe /\ ServedFit)'
    BY SafeNext, ServedNext
<1>3. Safe /\ ServedFit => RunIsOnRecord
    BY SafeRecord, SafeRuntime DEF RunIsOnRecord
<1>4. QED
    BY <1>1, <1>2, <1>3, PTL DEF Spec

-----------------------------------------------------------------------------
(* The registry of private datasets (DatasetRegistry), for one command at  *)
(* a time and one edit of an artifact meanwhile.                           *)

CONSTANTS Refs, Supersedes, Contents, Sealed, Commands, Operations, MaxEdits, MaxCrashes
VARIABLES registry, disk, cmdPc, cmd, copy, edits, crashes

Registry == INSTANCE DatasetRegistry WITH pc <- cmdPc

OneAtATime == MaxEdits <= 1 /\ \A p, q \in Commands : p = q

\* What is bound is sealed, or the edit has been made and is what is bound; what is frozen is
\* sealed.
Trusted(e, v) ==
  /\ e # None /\ e.review = "complete" => e.bound \in Sealed \/ (edits > 0 /\ e.bound = disk[v])
  /\ Registry!Frozen(e) => e.bound \in Sealed /\ e.review = "complete"

\* What replaces a version is frozen and knows it.
Replaced(r) ==
  \A v \in Refs :
    r[v] # None /\ r[v].state = "superseded" =>
      /\ r[v].successor \in Refs /\ Registry!Frozen(r[r[v].successor])
      /\ Supersedes[r[v].successor] = v

\* From r to c nothing that is frozen changes but to be superseded.
FrozenKept(r, c) ==
  \A v \in Refs : Registry!Frozen(r[v]) =>
    /\ Registry!Frozen(c[v])
    /\ c[v].bound = r[v].bound
    /\ r[v].state = "superseded" => c[v] = r[v]

\* What a command has in hand.
Handled(p) ==
  /\ cmdPc[p] # "idle" => cmd[p] \in Operations
  /\ cmdPc[p] \in {"loaded", "read"} => copy[p] = registry
  /\ cmdPc[p] = "read" => cmd[p].name \in {"complete", "freeze"}
  /\ cmdPc[p] = "read" /\ cmd[p].name = "complete" =>
       /\ Registry!ReadyToComplete(registry[cmd[p].ref])
       /\ disk[cmd[p].ref] \in Sealed \/ edits > 0
  /\ cmdPc[p] = "read" /\ cmd[p].name = "freeze" =>
       Registry!ReadyToFreeze(registry[cmd[p].ref]) /\ registry[cmd[p].ref].bound \in Sealed
  /\ cmdPc[p] = "changed" =>
       /\ Registry!Valid(copy[p]) /\ Replaced(copy[p]) /\ FrozenKept(registry, copy[p])
       /\ \A v \in Refs : Trusted(copy[p][v], v)

Kept ==
  /\ Registry!TypeOK /\ edits \in Nat
  /\ Replaced(registry)
  /\ \A v \in Refs : Trusted(registry[v], v)
  /\ \A p \in Commands : Handled(p)

\* What each command makes of an entry.
LEMMA DraftEntry ==
  ASSUME NEW h \in Registry!Holds
  PROVE  /\ Registry!Draft(h) \in Registry!Entries
         /\ Registry!Draft(h).state = "draft" /\ Registry!Draft(h).review = "pending"
  BY DEF Registry!Entries, Registry!Draft

LEMMA ReviewedEntry ==
  ASSUME NEW e \in Registry!Entries
  PROVE  LET c == [e EXCEPT !.state = "reviewing"]
         IN /\ c \in Registry!Entries
            /\ c.state = "reviewing" /\ c.review = e.review /\ c.bound = e.bound
  BY DEF Registry!Entries

LEMMA CompletedEntry ==
  ASSUME NEW e \in Registry!Entries, NEW b \in Contents
  PROVE  LET c == [e EXCEPT !.bound = b, !.review = "complete", !.hold = "none"]
         IN c \in Registry!Entries /\ c.state = e.state /\ c.review = "complete" /\ c.bound = b
  BY DEF Registry!Entries, Registry!Holds

LEMMA FrozenEntry ==
  ASSUME NEW e \in Registry!Entries
  PROVE  LET c == [e EXCEPT !.state = "frozen", !.frozen = e.bound]
         IN /\ c \in Registry!Entries
            /\ c.state = "frozen" /\ c.review = e.review /\ c.bound = e.bound
  BY DEF Registry!Entries

LEMMA SupersededEntry ==
  ASSUME NEW e \in Registry!Entries, NEW w \in Refs
  PROVE  LET c == [e EXCEPT !.state = "superseded", !.successor = w]
         IN /\ c \in Registry!Entries /\ c.state = "superseded" /\ c.successor = w
            /\ c.review = e.review /\ c.bound = e.bound
  BY DEF Registry!Entries

-----------------------------------------------------------------------------
(* What a change of one entry makes of the registry.                       *)

\* The copy of a command after its change.
Good(c) ==
  /\ c \in [Refs -> Registry!Entries \cup {None}]
  /\ Replaced(c) /\ FrozenKept(registry, c) /\ \A u \in Refs : Trusted(c[u], u)

LEMMA EntryOf ==
  ASSUME Registry!Assumptions, Registry!TypeOK, NEW v \in Refs, registry[v] # None
  PROVE  registry[v] \in Registry!Entries
  BY DEF Registry!TypeOK

\* An entry that is not frozen may be replaced by any that can be trusted.
LEMMA GoodChange ==
  ASSUME Registry!Assumptions, Kept, NEW v \in Refs, ~Registry!Frozen(registry[v]),
         NEW e \in Registry!Entries, e.state # "superseded", Trusted(e, v)
  PROVE  Good([registry EXCEPT ![v] = e])
<1> DEFINE c == [registry EXCEPT ![v] = e]
<1>1. registry \in [Refs -> Registry!Entries \cup {None}]
  BY DEF Kept, Registry!TypeOK
<1>2. c \in [Refs -> Registry!Entries \cup {None}] /\ c[v] = e
      /\ \A u \in Refs \ {v} : c[u] = registry[u]
  BY <1>1
<1> HIDE DEF c
<1>3. \A u \in Refs : Trusted(c[u], u)
  BY <1>2 DEF Kept
<1>4. \A u \in Refs : Registry!Frozen(registry[u]) => c[u] = registry[u]
  BY <1>2
<1>5. FrozenKept(registry, c)
  BY <1>4 DEF FrozenKept
<1>6. Replaced(c)
  <2> SUFFICES ASSUME NEW u \in Refs, c[u] # None, c[u].state = "superseded"
               PROVE  /\ c[u].successor \in Refs /\ Registry!Frozen(c[c[u].successor])
                      /\ Supersedes[c[u].successor] = u
      BY DEF Replaced
  <2>1. c[u] = registry[u]
      BY <1>2
  <2>2. /\ registry[u].successor \in Refs /\ Registry!Frozen(registry[registry[u].successor])
        /\ Supersedes[registry[u].successor] = u
      BY <2>1 DEF Kept, Replaced
  <2>3. QED
      BY <1>4, <2>1, <2>2
<1>7. QED
  BY <1>2, <1>3, <1>5, <1>6 DEF Good, c

\* A frozen version is superseded by another frozen one that declares it.
LEMMA GoodSupersede ==
  ASSUME Registry!Assumptions, Kept, NEW v \in Refs, NEW w \in Refs, v # w,
         registry[v] # None, registry[w] # None,
         registry[v].state = "frozen", registry[w].state = "frozen", Supersedes[w] = v
  PROVE  Good([registry EXCEPT ![v].state = "superseded", ![v].successor = w])
<1> DEFINE e == [registry[v] EXCEPT !.state = "superseded", !.successor = w]
           c == [registry EXCEPT ![v] = e]
<1>1. registry \in [Refs -> Registry!Entries \cup {None}]
  BY DEF Kept, Registry!TypeOK
<1>2. [registry EXCEPT ![v].state = "superseded", ![v].successor = w] = c
  OBVIOUS
<1>3. /\ e \in Registry!Entries /\ e.state = "superseded" /\ e.successor = w
      /\ e.review = registry[v].review /\ e.bound = registry[v].bound
  BY EntryOf, SupersededEntry DEF Kept
<1> HIDE DEF e
<1>4. e # None
  BY <1>3 DEF Registry!Assumptions
<1>5. c \in [Refs -> Registry!Entries \cup {None}] /\ c[v] = e
      /\ \A u \in Refs \ {v} : c[u] = registry[u]
  BY <1>1, <1>3
<1> HIDE DEF c
<1>6. Registry!Frozen(registry[v]) /\ Registry!Frozen(registry[w]) /\ Registry!Frozen(e)
  BY <1>3, <1>4 DEF Registry!Frozen
<1>7. \A u \in Refs : Trusted(c[u], u)
  <2>1. Trusted(registry[v], v)
      BY DEF Kept
  <2>2. Trusted(e, v)
      BY <1>3, <1>6, <2>1 DEF Trusted
  <2>3. QED
      BY <1>5, <2>2 DEF Kept
<1>8. FrozenKept(registry, c)
  BY <1>3, <1>5, <1>6 DEF FrozenKept
<1>9. Replaced(c)
  <2> SUFFICES ASSUME NEW u \in Refs, c[u] # None, c[u].state = "superseded"
               PROVE  /\ c[u].successor \in Refs /\ Registry!Frozen(c[c[u].successor])
                      /\ Supersedes[c[u].successor] = u
      BY DEF Replaced
  <2>1. CASE u = v
      BY <1>3, <1>5, <1>6, <2>1
  <2>2. CASE u # v
    <3>1. /\ registry[u].successor \in Refs /\ Registry!Frozen(registry[registry[u].successor])
          /\ Supersedes[registry[u].successor] = u /\ c[u] = registry[u]
        BY <1>5, <2>2 DEF Kept, Replaced
    <3>2. QED
        BY <1>5, <1>6, <3>1
  <2>3. QED
      BY <2>1, <2>2
<1>10. QED
  BY <1>2, <1>5, <1>7, <1>8, <1>9 DEF Good

-----------------------------------------------------------------------------
(* The steps.                                                              *)

LEMMA KeptInit == ASSUME Registry!Assumptions, Registry!Init PROVE Kept
<1>1. registry = [v \in Refs |-> None] /\ edits = 0
  BY DEF Registry!Init
<1>2. Registry!TypeOK
  BY DEF Registry!Init, Registry!TypeOK
<1>3. Replaced(registry)
  BY <1>1 DEF Replaced
<1>4. \A v \in Refs : Trusted(registry[v], v)
  BY <1>1 DEF Trusted, Registry!Frozen
<1>5. \A p \in Commands : Handled(p)
  BY DEF Registry!Init, Handled
<1>6. QED
  BY <1>1, <1>2, <1>3, <1>4, <1>5 DEF Kept

\* A step of the command that is no change of the file or an artifact.
LEMMA KeptPrivate ==
  ASSUME Registry!Assumptions, OneAtATime, Kept, NEW p \in Commands,
        Registry!TypeOK', Handled(p)',
         UNCHANGED <<registry, disk, edits>>
  PROVE  Kept'
<1>1. \A q \in Commands : q = p
  BY DEF OneAtATime
<1>2. \A q \in Commands : Handled(q)'
  BY <1>1
<1>3. Replaced(registry)' /\ (\A v \in Refs : Trusted(registry[v], v)')
  BY DEF Kept, Replaced, Trusted
<1>4. QED
  BY <1>2, <1>3 DEF Kept

LEMMA KeptIdle ==
  ASSUME Registry!Assumptions, OneAtATime, Kept, NEW p \in Commands, Registry!Goto(p, "idle"),
         UNCHANGED <<registry, disk, cmd, copy, edits>>
  PROVE  Kept'
<1>1. Registry!TypeOK' /\ cmdPc'[p] = "idle"
  BY DEF Kept, Registry!TypeOK, Registry!Goto, OneAtATime
<1>2. Handled(p)'
  BY <1>1 DEF Handled
<1>3. QED
  BY <1>1, <1>2, KeptPrivate

LEMMA KeptChanged ==
  ASSUME Registry!Assumptions, OneAtATime, Kept, NEW p \in Commands, cmdPc[p] # "idle",
         NEW c, Good(c), Registry!Changed(p, c)
  PROVE  Kept'
<1>1. CASE Registry!Goto(p, "idle") /\ UNCHANGED copy
  BY <1>1, KeptIdle DEF Registry!Changed
<1>2. CASE Registry!Valid(c) /\ Registry!Goto(p, "changed") /\ copy' = [copy EXCEPT ![p] = c]
  <2>1. cmdPc'[p] = "changed" /\ copy'[p] = c /\ cmd'[p] = cmd[p] /\ \A q \in Commands : q = p
      BY <1>2 DEF Kept, Registry!TypeOK, Registry!Goto, Registry!Changed, OneAtATime
  <2>2. Registry!TypeOK'
    <3>1. copy' \in [Commands -> [Refs -> Registry!Entries \cup {None}]]
        BY <1>2 DEF Kept, Registry!TypeOK, Good
    <3>2. cmdPc' \in [Commands -> {"idle", "loaded", "read", "changed"}]
        BY <1>2 DEF Kept, Registry!TypeOK, Registry!Goto
    <3>3. QED
        BY <1>2, <2>1, <3>1, <3>2 DEF Kept, Registry!TypeOK, Registry!Changed
  <2>3. FrozenKept(registry', copy'[p]) /\ \A u \in Refs : Trusted(copy[p][u], u)'
      BY <2>1 DEF Good, Registry!Changed, FrozenKept, Trusted
  <2>4. Handled(p)'
      BY <1>2, <2>1, <2>3 DEF Handled, Good, Kept
  <2>5. QED
      BY <2>2, <2>4, KeptPrivate DEF Registry!Changed
<1>3. QED
  BY <1>1, <1>2 DEF Registry!Changed

\* Where a command goes by what it has loaded.
LEMMA InHand ==
  ASSUME Registry!Assumptions, Kept, NEW p \in Commands, cmdPc[p] \in {"loaded", "read"}
  PROVE  /\ copy[p] = registry /\ cmd[p] \in Operations /\ cmd[p].ref \in Refs
         /\ cmd[p].name = "supersede" => cmd[p].successor \in Refs
         /\ registry \in [Refs -> Registry!Entries \cup {None}]
  BY DEF Kept, Handled, Registry!Assumptions, Registry!TypeOK

LEMMA KeptLoad ==
  ASSUME Registry!Assumptions, OneAtATime, Kept, NEW p \in Commands, Registry!Load(p)
  PROVE  Kept'
<1>1. PICK op \in Operations : cmd' = [cmd EXCEPT ![p] = op]
  BY DEF Registry!Load
<1>2. Registry!TypeOK'
  <2>1. copy' \in [Commands -> [Refs -> Registry!Entries \cup {None}]]
      BY DEF Registry!Load, Kept, Registry!TypeOK
  <2>2. cmd' \in [Commands -> Operations \cup {None}]
      BY <1>1 DEF Kept, Registry!TypeOK
  <2>3. cmdPc' \in [Commands -> {"idle", "loaded", "read", "changed"}] /\ cmdPc'[p] = "loaded"
        /\ \A q \in Commands : q = p
      BY DEF Registry!Load, Registry!Goto, Kept, Registry!TypeOK, OneAtATime
  <2>4. QED
      BY <2>1, <2>2, <2>3 DEF Registry!Load, Kept, Registry!TypeOK
<1>3. cmdPc'[p] = "loaded" /\ copy'[p] = registry /\ cmd'[p] \in Operations
  BY <1>1 DEF Registry!Load, Registry!Goto, Kept, Registry!TypeOK
<1>4. Handled(p)'
  BY <1>3 DEF Handled, Registry!Load
<1>5. QED
  BY <1>2, <1>4, KeptPrivate DEF Registry!Load

LEMMA KeptRefused ==
  ASSUME Registry!Assumptions, OneAtATime, Kept, NEW p \in Commands, Registry!Refused(p)
  PROVE  Kept'
  BY KeptIdle DEF Registry!Refused

LEMMA KeptRegister ==
  ASSUME Registry!Assumptions, OneAtATime, Kept, NEW p \in Commands, Registry!Register(p)
  PROVE  Kept'
<1> DEFINE v == cmd[p].ref
<1>1. copy[p] = registry /\ v \in Refs /\ cmdPc[p] = "loaded"
  BY InHand DEF Registry!Register
<1>2. ASSUME registry[v] = None, NEW h \in Registry!Holds,
             Registry!Changed(p, [registry EXCEPT ![v] = Registry!Draft(h)])
      PROVE  Kept'
  <2>1. ~Registry!Frozen(registry[v])
      BY <1>2 DEF Registry!Frozen
  <2>2. /\ Registry!Draft(h) \in Registry!Entries
        /\ Registry!Draft(h).state = "draft" /\ Registry!Draft(h).review = "pending"
      BY <1>2, DraftEntry
  <2>3. Trusted(Registry!Draft(h), v)
      BY <2>2 DEF Trusted, Registry!Frozen
  <2>4. Good([registry EXCEPT ![v] = Registry!Draft(h)])
      BY <1>1, <2>1, <2>2, <2>3, GoodChange
  <2>5. QED
      BY <1>1, <1>2, <2>4, KeptChanged
<1>3. QED
  BY <1>1, <1>2, KeptRefused DEF Registry!Register

LEMMA KeptStartReview ==
  ASSUME Registry!Assumptions, OneAtATime, Kept, NEW p \in Commands, Registry!StartReview(p)
  PROVE  Kept'
<1> DEFINE v == cmd[p].ref
           e == [registry[v] EXCEPT !.state = "reviewing"]
<1>1. copy[p] = registry /\ v \in Refs /\ cmdPc[p] = "loaded"
      /\ registry \in [Refs -> Registry!Entries \cup {None}]
  BY InHand DEF Registry!StartReview
<1>2. ASSUME registry[v] # None, registry[v].state = "draft",
             Registry!Changed(p, [registry EXCEPT ![v].state = "reviewing"])
      PROVE  Kept'
  <2>1. ~Registry!Frozen(registry[v])
      BY <1>2 DEF Registry!Frozen
  <2>2. /\ e \in Registry!Entries /\ e.state = "reviewing" /\ e.review = registry[v].review
        /\ e.bound = registry[v].bound
      BY <1>1, <1>2, EntryOf, ReviewedEntry DEF Kept
  <2>3. [registry EXCEPT ![v].state = "reviewing"] = [registry EXCEPT ![v] = e]
      OBVIOUS
  <2> HIDE DEF e
  <2>4. Trusted(e, v)
      BY <1>1, <1>2, <2>2 DEF Trusted, Registry!Frozen, Kept
  <2>5. Good([registry EXCEPT ![v] = e])
      BY <1>1, <2>1, <2>2, <2>4, GoodChange
  <2>6. QED
      BY <1>1, <1>2, <2>3, <2>5, KeptChanged
<1>3. QED
  BY <1>1, <1>2, KeptRefused DEF Registry!StartReview

\* The bytes that were bound after the only edit are those that are read now.
LEMMA KeptReadRecords ==
  ASSUME Registry!Assumptions, OneAtATime, Kept, NEW p \in Commands, Registry!ReadRecords(p)
  PROVE  Kept'
<1> DEFINE v == cmd[p].ref
<1>1. copy[p] = registry /\ v \in Refs /\ cmdPc[p] = "loaded" /\ cmd[p] \in Operations
  BY InHand DEF Registry!ReadRecords
<1>2. CASE Registry!Goto(p, "idle")
  BY <1>2, KeptIdle DEF Registry!ReadRecords
<1>3. CASE /\ Registry!Goto(p, "read") /\ disk[v] \in Sealed
           /\ cmd[p].name = "complete" => Registry!ReadyToComplete(registry[v])
           /\ cmd[p].name = "freeze" => Registry!ReadyToFreeze(registry[v])
  <2>1. Registry!TypeOK' /\ cmdPc'[p] = "read" /\ cmd'[p] = cmd[p] /\ copy'[p] = copy[p]
    <3>1. cmdPc'[p] = "read" /\ cmdPc' \in [Commands -> {"idle", "loaded", "read", "changed"}]
          /\ \A q \in Commands : q = p
        BY <1>3 DEF Registry!Goto, Kept, Registry!TypeOK, OneAtATime
    <3>2. QED
        BY <3>1 DEF Kept, Registry!TypeOK, Registry!ReadRecords
  <2>2. ASSUME cmd[p].name = "freeze" PROVE registry[v].bound \in Sealed
    <3>1. Trusted(registry[v], v)
        BY <1>1 DEF Kept
    <3>2. registry[v] # None /\ registry[v].review = "complete"
        BY <1>3, <2>2 DEF Registry!ReadyToFreeze
    <3>3. QED
        BY <1>3, <3>1, <3>2 DEF Trusted
  <2>3. Handled(p)'
      BY <1>1, <1>3, <2>1, <2>2 DEF Handled, Registry!ReadRecords
  <2>4. QED
      BY <2>1, <2>3, KeptPrivate DEF Registry!ReadRecords
<1>4. QED
  BY <1>1, <1>2, <1>3 DEF Registry!ReadRecords

LEMMA KeptCompleteReview ==
  ASSUME Registry!Assumptions, OneAtATime, Kept, NEW p \in Commands, Registry!CompleteReview(p)
  PROVE  Kept'
<1> DEFINE v == cmd[p].ref
           b == disk[v]
           e == [registry[v] EXCEPT !.bound = b, !.review = "complete", !.hold = "none"]
<1>1. copy[p] = registry /\ v \in Refs /\ cmdPc[p] = "read"
  BY InHand DEF Registry!CompleteReview
<1>2. Registry!ReadyToComplete(registry[v]) /\ (b \in Sealed \/ edits > 0)
  BY DEF Kept, Handled, Registry!CompleteReview
<1>3. b \in Contents /\ registry[v] \in Registry!Entries
  BY <1>1, <1>2, EntryOf DEF Kept, Registry!TypeOK, Registry!ReadyToComplete
<1>4. e \in Registry!Entries /\ e.state = registry[v].state /\ e.review = "complete"
      /\ e.bound = b
  BY <1>3, CompletedEntry
<1>5. registry[v].state = "reviewing" /\ ~Registry!Frozen(registry[v])
  BY <1>2 DEF Registry!ReadyToComplete, Registry!Frozen
<1>6. [registry EXCEPT ![v].bound = b, ![v].review = "complete", ![v].hold = "none"]
        = [registry EXCEPT ![v] = e]
  OBVIOUS
<1>7. Registry!Changed(p, [registry EXCEPT ![v].bound = b, ![v].review = "complete",
                                  ![v].hold = "none"])
  BY <1>1 DEF Registry!CompleteReview
<1> HIDE DEF e
<1>8. Trusted(e, v)
  BY <1>2, <1>4, <1>5 DEF Trusted, Registry!Frozen
<1>9. Good([registry EXCEPT ![v] = e])
  BY <1>1, <1>4, <1>5, <1>8, GoodChange
<1>10. QED
  BY <1>1, <1>6, <1>7, <1>9, KeptChanged

LEMMA KeptFreeze ==
  ASSUME Registry!Assumptions, OneAtATime, Kept, NEW p \in Commands, Registry!Freeze(p)
  PROVE  Kept'
<1> DEFINE v == cmd[p].ref
           b == registry[v].bound
           e == [registry[v] EXCEPT !.state = "frozen", !.frozen = b]
<1>1. copy[p] = registry /\ v \in Refs /\ cmdPc[p] = "read"
  BY InHand DEF Registry!Freeze
<1>2. Registry!ReadyToFreeze(registry[v]) /\ b \in Sealed
  BY DEF Kept, Handled, Registry!Freeze
<1>3. registry[v] \in Registry!Entries
  BY <1>1, <1>2, EntryOf DEF Kept, Registry!ReadyToFreeze
<1>4. e \in Registry!Entries /\ e.state = "frozen" /\ e.review = registry[v].review /\ e.bound = b
  BY <1>3, FrozenEntry
<1>5. registry[v].review = "complete" /\ ~Registry!Frozen(registry[v])
  BY <1>2 DEF Registry!ReadyToFreeze, Registry!Frozen
<1>6. [registry EXCEPT ![v].state = "frozen", ![v].frozen = b] = [registry EXCEPT ![v] = e]
  OBVIOUS
<1>7. \/ Registry!Changed(p, [registry EXCEPT ![v].state = "frozen", ![v].frozen = b])
      \/ Registry!Refused(p)
  BY <1>1 DEF Registry!Freeze
<1> HIDE DEF e
<1>8. Trusted(e, v)
  BY <1>2, <1>4, <1>5 DEF Trusted, Registry!Frozen
<1>9. Good([registry EXCEPT ![v] = e])
  BY <1>1, <1>4, <1>5, <1>8, GoodChange
<1>10. QED
  BY <1>1, <1>6, <1>7, <1>9, KeptChanged, KeptRefused

LEMMA KeptSupersede ==
  ASSUME Registry!Assumptions, OneAtATime, Kept, NEW p \in Commands, Registry!Supersede(p)
  PROVE  Kept'
<1> DEFINE v == cmd[p].ref
           w == cmd[p].successor
           c == [registry EXCEPT ![v].state = "superseded", ![v].successor = w]
<1>1. copy[p] = registry /\ v \in Refs /\ w \in Refs /\ cmdPc[p] = "loaded"
  BY InHand DEF Registry!Supersede
<1>2. ASSUME v # w, registry[v] # None, registry[w] # None, registry[v].state = "frozen",
             registry[w].state = "frozen", Supersedes[w] = v, Registry!Changed(p, c)
      PROVE  Kept'
  <2>1. Good(c)
      BY <1>1, <1>2, GoodSupersede
  <2> HIDE DEF c
  <2>2. QED
      BY <1>1, <1>2, <2>1, KeptChanged
<1>3. QED
  BY <1>1, <1>2, KeptRefused DEF Registry!Supersede

LEMMA KeptSave ==
  ASSUME Registry!Assumptions, OneAtATime, Kept, NEW p \in Commands, Registry!Save(p)
  PROVE  Kept'
<1>1. /\ registry' = copy[p] /\ cmdPc'[p] = "idle" /\ \A q \in Commands : q = p
      /\ UNCHANGED <<disk, cmd, copy, edits>>
  BY DEF Registry!Save, Registry!Goto, Kept, Registry!TypeOK, OneAtATime
<1>2. Replaced(copy[p]) /\ \A v \in Refs : Trusted(copy[p][v], v)
  BY DEF Registry!Save, Kept, Handled
<1>3. Replaced(registry)' /\ (\A v \in Refs : Trusted(registry[v], v)')
  BY <1>1, <1>2 DEF Replaced, Trusted
<1>4. Registry!TypeOK'
  BY <1>1 DEF Registry!Save, Registry!Goto, Kept, Registry!TypeOK
<1>5. \A q \in Commands : Handled(q)'
  BY <1>1 DEF Handled
<1>6. QED
  BY <1>1, <1>3, <1>4, <1>5 DEF Kept

\* The only edit comes when everything that is bound is sealed.
LEMMA KeptEdit ==
  ASSUME Registry!Assumptions, OneAtATime, Kept, Registry!Edit
  PROVE  Kept'
<1>1. edits = 0 /\ edits' = 1
  BY DEF Registry!Edit, Kept, OneAtATime, Registry!Assumptions
<1>2. Registry!TypeOK'
  BY DEF Registry!Edit, Kept, Registry!TypeOK
<1>3. Replaced(registry)'
  BY DEF Registry!Edit, Kept, Replaced
<1>4. \A v \in Refs : Trusted(registry[v], v)'
  BY <1>1 DEF Registry!Edit, Kept, Trusted
<1>5. ASSUME NEW p \in Commands PROVE Handled(p)'
  <2>1. Handled(p)
      BY DEF Kept
  <2>2. \A v \in Refs : Trusted(copy[p][v], v) => Trusted(copy[p][v], v)'
      BY <1>1 DEF Registry!Edit, Trusted
  <2>3. QED
      BY <1>1, <2>1, <2>2 DEF Registry!Edit, Handled, FrozenKept
<1>6. QED
  BY <1>1, <1>2, <1>3, <1>4, <1>5 DEF Kept

-----------------------------------------------------------------------------

LEMMA KeptNext ==
  ASSUME Registry!Assumptions, OneAtATime, Kept, [Registry!Next]_(Registry!vars)
  PROVE  Kept'
<1>1. ASSUME NEW p \in Commands, Registry!Step(p) PROVE Kept'
  <2>1. CASE Registry!Crash(p)
      BY <2>1, KeptIdle DEF Registry!Crash
  <2>2. QED
      BY <1>1, <2>1, KeptLoad, KeptRegister, KeptStartReview, KeptReadRecords,
         KeptCompleteReview, KeptFreeze, KeptSupersede, KeptSave DEF Registry!Step
<1>2. CASE UNCHANGED Registry!vars
  <2>1. Registry!TypeOK' /\ Replaced(registry)' /\ (\A v \in Refs : Trusted(registry[v], v)')
      BY <1>2 DEF Registry!vars, Kept, Registry!TypeOK, Replaced, Trusted
  <2>2. ASSUME NEW p \in Commands PROVE Handled(p)'
    <3>1. Handled(p)
        BY DEF Kept
    <3>2. \A v \in Refs : Trusted(copy[p][v], v) => Trusted(copy[p][v], v)'
        BY <1>2 DEF Registry!vars, Trusted
    <3>3. QED
        BY <1>2, <3>1, <3>2 DEF Registry!vars, Handled, FrozenKept
  <2>3. QED
      BY <1>2, <2>1, <2>2 DEF Registry!vars, Kept
<1>3. QED
  BY <1>1, <1>2, KeptEdit DEF Registry!Next

\* Only a command that saves changes the registry.
LEMMA SavedOnly ==
  ASSUME Registry!Assumptions, Kept, [Registry!Next]_(Registry!vars)
  PROVE  registry' = registry \/ \E p \in Commands : Registry!Save(p)
  BY DEF Registry!Next, Registry!Step, Registry!Load, Registry!Register, Registry!StartReview,
     Registry!ReadRecords, Registry!CompleteReview, Registry!Freeze, Registry!Supersede,
     Registry!Crash, Registry!Edit, Registry!Changed, Registry!Refused, Registry!vars

LEMMA KeptFrozen ==
  ASSUME Registry!Assumptions, Kept, [Registry!Next]_(Registry!vars)
  PROVE  FrozenKept(registry, registry')
<1>1. FrozenKept(registry, registry)
  BY DEF FrozenKept
<1>2. ASSUME NEW p \in Commands, Registry!Save(p) PROVE FrozenKept(registry, registry')
  BY <1>2 DEF Registry!Save, Kept, Handled
<1>3. QED
  BY <1>1, <1>2, SavedOnly

\* private_dataset_registry.py, freeze and supersede: for one command at a time and one edit of
\* an artifact meanwhile, what is frozen is bound to bytes that passed every check, is replaced
\* by a frozen version only that declares it, and does not change otherwise, whatever is edited
\* between the readings of an artifact and whatever commands fail or die.
THEOREM FrozenForGood ==
  ASSUME Registry!Assumptions, OneAtATime
  PROVE  Registry!Spec => []Registry!TypeOK /\ Registry!FreezeIsFinal
<1>1. Registry!Init => Kept
  BY KeptInit
<1>2. Kept /\ [Registry!Next]_(Registry!vars) => Kept'
  BY KeptNext
<1>3. Kept => Registry!TypeOK /\ Registry!FrozenIsSealed /\ Registry!SupersededByFrozen
  BY DEF Kept, Trusted, Replaced, Registry!FrozenIsSealed, Registry!SupersededByFrozen
<1>4. Kept /\ [Registry!Next]_(Registry!vars) =>
        \A v \in Refs : Registry!Frozen(registry[v]) =>
          /\ Registry!Frozen(registry'[v])
          /\ registry'[v].bound = registry[v].bound
          /\ registry[v].state = "superseded" => registry'[v] = registry[v]
  BY KeptFrozen DEF FrozenKept
<1>5. QED
  BY <1>1, <1>2, <1>3, <1>4, PTL DEF Registry!Spec, Registry!FreezeIsFinal, Registry!FrozenStays

-----------------------------------------------------------------------------
(* The launchers of candidates.                                            *)

CONSTANTS Jobs, Shas, MaxRestarts, MaxReindex, MaxFailures
VARIABLES container, receipt, runStarted, runCompleted, evidence, prod, index, secrets, staging,
          job, jobAsked, jobFaults

Run == INSTANCE CandidateRunner WITH
  started <- runStarted, completed <- runCompleted, report <- evidence,
  asked <- jobAsked, faults <- jobFaults, MaxFaults <- MaxFailures

\* A launcher before it starts its container, and after its work.
Unstarted == {"new", "check", "prod", "index", "stage", "start"}
Ended == {"exit", "temp", "done", "killed"}
Entered == {"new", "check"} \cup Ended     \* its run directory is not known to be there
Marked == {"ask", "asking", "answered", "recheck", "recheck_index", "remove", "complete"}
Gone(j) == container # None => container.id # j

JobSet == [mode : {"preflight", "run", None}, sha : Shas \cup {None}, pc : Run!Pcs,
           id : Run!MaybeJob, prod : 0..MaxRestarts, index : 0..MaxReindex, dirty : BOOLEAN]

\* What a launcher is where it is, and whose its container may be.
Placed(j) ==
  /\ job[j].pc # "new" => job[j].mode \in {"preflight", "run"} /\ job[j].sha \in Shas
  /\ job[j].pc \in {"mark", "ask", "asking", "answered", "complete"} => job[j].mode = "run"
  /\ job[j].pc = "publish" => job[j].mode = "preflight"
  /\ job[j].id \in {None, j}
  /\ job[j].prod <= prod /\ job[j].index <= index

\* A run goes on with the receipt of its directory, for the production it names.
Received(j) ==
  job[j].mode = "run" /\ job[j].pc \notin Entered =>
    /\ receipt[job[j].sha] # None
    /\ job[j].pc # "prod" => job[j].prod = receipt[job[j].sha].prod
    /\ job[j].pc \notin {"prod", "index"} => job[j].index = receipt[job[j].sha].index

\* A run that has marked its directory has asked amid what it has found there.
Asking(j) ==
  LET s == job[j].sha IN
  job[j].mode = "run" /\ job[j].pc \in Marked =>
    /\ runStarted[s] = j
    /\ \A a \in jobAsked[s] : job[j].prod <= a.prod /\ job[j].index <= a.index
    /\ job[j].pc # "ask" => jobAsked[s] # {}
    /\ job[j].pc \notin {"ask", "asking"} => evidence[s] = j
    /\ job[j].pc \in {"recheck_index", "remove", "complete"} =>
         \A a \in jobAsked[s] : a.prod = job[j].prod
    /\ job[j].pc \in {"remove", "complete"} => \A a \in jobAsked[s] : a.index = job[j].index

\* Where the container of a launcher is not there, and what its exit leaves.
Removed(j) ==
  /\ job[j].pc \in Unstarted \cup {"publish", "complete"} => Gone(j)
  /\ job[j].mode = "preflight" /\ job[j].pc \in {"recheck", "recheck_index"} => Gone(j)
  /\ job[j].pc \in {"temp", "done"} /\ ~job[j].dirty => Gone(j) \/ job[j].id = None
  /\ job[j].pc = "done" /\ ~job[j].dirty => j \notin secrets /\ j \notin staging

JobFit(j) == Placed(j) /\ Received(j) /\ Asking(j) /\ Removed(j)

\* What is in the run directory of a commit.
DirFit(s) ==
  /\ \A a \in jobAsked[s] : a.by = runStarted[s] /\ a.prod <= prod /\ a.index <= index
  /\ receipt[s] # None =>
       /\ job[receipt[s].by].pc \in Ended
       /\ Gone(receipt[s].by) /\ receipt[s].by \notin staging
  /\ runCompleted[s] # None =>
       /\ job[runCompleted[s]].pc \in Ended /\ Gone(runCompleted[s])
       /\ runStarted[s] = runCompleted[s] /\ evidence[s] = runCompleted[s] /\ jobAsked[s] # {}
       /\ \A a \in jobAsked[s] : a.prod = receipt[s].prod /\ a.index = receipt[s].index

Launched == Run!TypeOK /\ (\A j \in Jobs : JobFit(j)) /\ (\A s \in Shas : DirFit(s))

\* What a step of j leaves of the others, and what is never undone.
LaunchFrame(j) ==
  /\ \A k \in Jobs \ {j} : /\ job'[k] = job[k]
                           /\ k \in secrets' => k \in secrets
                           /\ k \in staging' => k \in staging
  /\ \A s \in Shas : /\ receipt[s] # None => receipt'[s] = receipt[s]
                     /\ runStarted[s] # None => runStarted'[s] = runStarted[s]
                     /\ \/ jobAsked'[s] = jobAsked[s] /\ evidence'[s] = evidence[s]
                        \/ runStarted[s] = j /\ j \in Jobs
  /\ prod' \in Nat /\ index' \in Nat /\ prod <= prod' /\ index <= index'
  /\ container' # None => container'.id = j \/ (container # None /\ container'.id = container.id)

\* A launcher that is over stays so.
Settles(j) ==
  j \in Jobs /\ job[j].pc \in Ended =>
    /\ job'[j].pc \in Ended
    /\ j \in staging' => j \in staging
    /\ Gone(j) => Gone(j)'

LEMMA Fields ==
  ASSUME Run!TypeOK
  PROVE  /\ job \in [Jobs -> JobSet]
         /\ \A j \in Jobs : job[j] \in JobSet
         /\ prod \in Nat /\ index \in Nat
         /\ receipt \in [Shas -> Run!Amid \cup {None}]
         /\ \A s \in Shas : receipt[s] # None => receipt[s] \in Run!Amid
         /\ container # None => container \in [id : Jobs, sha : Shas, up : BOOLEAN]
  BY DEF Run!TypeOK, JobSet

LEMMA LaunchInit == ASSUME Run!Assumptions, Run!Init PROVE Launched
<1>1. Run!TypeOK
  BY DEF Run!Assumptions, Run!Init, Run!TypeOK, Run!Idle, Run!Pcs, Run!MaybeJob
<1>2. ASSUME NEW j \in Jobs PROVE JobFit(j)
  BY DEF Run!Init, JobFit, Placed, Received, Asking, Removed, Run!Idle, Gone, Entered, Marked,
     Unstarted
<1>3. ASSUME NEW s \in Shas PROVE DirFit(s)
  BY DEF Run!Init, DirFit
<1>4. QED
  BY <1>1, <1>2, <1>3 DEF Launched

LEMMA OthersFit ==
  ASSUME Run!Assumptions, Launched, NEW j, LaunchFrame(j), NEW k \in Jobs, k # j
  PROVE  JobFit(k)'
<1>1. /\ job'[k] = job[k]
      /\ k \in secrets' => k \in secrets
      /\ k \in staging' => k \in staging
      /\ JobFit(k) /\ job[k] \in JobSet /\ k # None
  BY Fields DEF LaunchFrame, Launched, Run!Assumptions
<1>2. Gone(k) => Gone(k)'
  BY <1>1 DEF LaunchFrame, Gone
<1>3. Placed(k)'
  <2>1. /\ job[k].prod \in Nat /\ job[k].index \in Nat /\ prod \in Nat /\ index \in Nat
      BY <1>1, Fields DEF JobSet, Launched, LaunchFrame, Run!Assumptions, Run!TypeOK
  <2>2. QED
      BY <1>1, <2>1 DEF Placed, JobFit, LaunchFrame
<1>4. Received(k)'
  BY <1>1 DEF JobFit, Placed, Received, LaunchFrame, Entered
<1>5. Asking(k)'
  <2>1. CASE job[k].mode = "run" /\ job[k].pc \in Marked
    <3>1. job[k].sha \in Shas /\ runStarted[job[k].sha] = k
        BY <1>1, <2>1 DEF JobFit, Placed, Asking, Marked
    <3>2. /\ runStarted'[job[k].sha] = k /\ jobAsked'[job[k].sha] = jobAsked[job[k].sha]
          /\ evidence'[job[k].sha] = evidence[job[k].sha]
        BY <1>1, <3>1 DEF LaunchFrame
    <3>3. QED
        BY <1>1, <2>1, <3>2 DEF JobFit, Asking
  <2>2. CASE ~ (job[k].mode = "run" /\ job[k].pc \in Marked)
      BY <1>1, <2>2 DEF Asking
  <2>3. QED
      BY <2>1, <2>2
<1>6. Removed(k)'
  BY <1>1, <1>2 DEF JobFit, Removed
<1>7. QED
  BY <1>3, <1>4, <1>5, <1>6 DEF JobFit

LEMMA DirKept ==
  ASSUME Run!Assumptions, Launched, NEW j, LaunchFrame(j), Settles(j), NEW s \in Shas,
         receipt'[s] = receipt[s], runCompleted'[s] = runCompleted[s], jobAsked'[s] = jobAsked[s],
         evidence'[s] = evidence[s]
  PROVE  DirFit(s)'
<1>1. DirFit(s) /\ Run!TypeOK
  BY DEF Launched
<1>2. ASSUME NEW k \in Jobs, job[k].pc \in Ended
      PROVE  /\ job'[k].pc \in Ended /\ (k \in staging' => k \in staging)
             /\ Gone(k) => Gone(k)'
  <2>1. CASE k = j
      BY <1>2, <2>1 DEF Settles
  <2>2. CASE k # j
      BY <1>2, <2>2 DEF LaunchFrame, Gone
  <2>3. QED
      BY <2>1, <2>2
<1>3. /\ receipt[s] # None => receipt[s].by \in Jobs
      /\ runCompleted[s] # None => runCompleted[s] \in Jobs
      /\ runCompleted[s] # None \/ jobAsked[s] # {} => runStarted[s] # None
  BY <1>1 DEF Run!TypeOK, Run!Amid, Run!MaybeJob, DirFit
<1>4. \A a \in jobAsked'[s] : a.by = runStarted'[s] /\ a.prod <= prod' /\ a.index <= index'
  <2>1. ASSUME NEW a \in jobAsked[s]
        PROVE a.by = runStarted'[s] /\ a.prod <= prod' /\ a.index <= index'
    <3>1. a.prod \in Nat /\ a.index \in Nat /\ prod \in Nat /\ index \in Nat
        BY <1>1 DEF Run!TypeOK, Run!Amid
    <3>2. a.by = runStarted[s] /\ a.prod <= prod /\ a.index <= index
          /\ runStarted'[s] = runStarted[s]
        BY <1>1, <1>3 DEF DirFit, LaunchFrame
    <3>3. QED
        BY <3>1, <3>2 DEF LaunchFrame
  <2>2. QED
      BY <2>1
<1>5. QED
  BY <1>1, <1>2, <1>3, <1>4 DEF DirFit, LaunchFrame

\* What each step of a launcher shows of itself.
Shows(j) == Run!TypeOK' /\ LaunchFrame(j) /\ Settles(j) /\ JobFit(j)'

\* The name of the container is given to j or taken away.
Docked(j) ==
  /\ container' \in [id : Jobs, sha : Shas, up : BOOLEAN] \cup {None}
  /\ container' # None => container'.id = j \/ (container # None /\ container'.id = container.id)

\* Outside the run directories j changes its own place, files and container.
LEMMA LaunchMoves ==
  ASSUME Run!Assumptions, Launched, NEW j \in Jobs, NEW r \in JobSet,
         job' = [job EXCEPT ![j] = r], Docked(j), UNCHANGED <<Run!runDir, Run!server, jobAsked>>,
         secrets' \subseteq secrets \cup {j}, staging' \subseteq staging \cup {j},
         jobFaults' \in 0..MaxFailures
  PROVE  /\ Run!TypeOK' /\ LaunchFrame(j) /\ job'[j] = r
         /\ job[j].pc \notin Ended => Settles(j)
         /\ /\ r.pc \in Ended
            /\ (j \in staging' => j \in staging) /\ (Gone(j) => Gone(j)')
            => Settles(j)
<1> USE DEF Run!runDir, Run!server
<1>1. Run!TypeOK /\ job \in [Jobs -> JobSet] /\ prod \in Nat /\ index \in Nat
  BY Fields DEF Launched
<1>2. job' \in [Jobs -> JobSet] /\ job'[j] = r /\ \A k \in Jobs \ {j} : job'[k] = job[k]
  BY <1>1
<1>3. Run!TypeOK'
  BY <1>1, <1>2 DEF Run!TypeOK, JobSet, Docked
<1>4. LaunchFrame(j)
  BY <1>1, <1>2 DEF LaunchFrame, Docked
<1>5. /\ job[j].pc \notin Ended => Settles(j)
      /\ /\ r.pc \in Ended
         /\ (j \in staging' => j \in staging) /\ (Gone(j) => Gone(j)')
         => Settles(j)
  BY <1>2 DEF Settles
<1>6. QED
  BY <1>2, <1>3, <1>4, <1>5

LEMMA Docks ==
  ASSUME Run!TypeOK, NEW j
  PROVE  /\ container' = container => Docked(j) /\ (Gone(j) <=> Gone(j)')
         /\ container' = None => Docked(j) /\ Gone(j)'
  BY DEF Run!TypeOK, Docked, Gone

\* j is at label, and has its commit, its container and what it had taken down.
Went(j, label) ==
  /\ job'[j].pc = label /\ job'[j].mode = job[j].mode /\ job'[j].sha = job[j].sha
  /\ job'[j].id = job[j].id /\ job'[j].prod = job[j].prod /\ job'[j].index = job[j].index

LEMMA GoesTo ==
  ASSUME Run!Assumptions, Launched, NEW j \in Jobs, NEW label \in Run!Pcs, Run!Goto(j, label)
  PROVE  \E r \in JobSet :
           /\ job' = [job EXCEPT ![j] = r]
           /\ r.pc = label /\ r.mode = job[j].mode /\ r.sha = job[j].sha /\ r.id = job[j].id
           /\ r.prod = job[j].prod /\ r.index = job[j].index /\ r.dirty = job[j].dirty
<1> DEFINE r == [job[j] EXCEPT !.pc = label]
<1>1. job[j] \in JobSet
  BY Fields DEF Launched
<1>2. /\ r \in JobSet /\ r.pc = label /\ r.mode = job[j].mode /\ r.sha = job[j].sha
      /\ r.id = job[j].id /\ r.prod = job[j].prod /\ r.index = job[j].index
      /\ r.dirty = job[j].dirty
  BY <1>1 DEF JobSet
<1>3. job' = [job EXCEPT ![j] = r]
  BY <1>1 DEF Run!Goto, JobSet
<1> HIDE DEF r
<1>4. QED
  BY <1>2, <1>3

\* Failing, being interrupted and being killed.
LEMMA StopFit ==
  ASSUME Run!Assumptions, Launched, NEW j \in Jobs, NEW label \in {"exit", "killed"},
         Run!Goto(j, label), job[j].pc # "new", Docked(j),
         container' = container \/ job[j].pc \notin Ended,
         UNCHANGED <<Run!runDir, Run!server, secrets, staging, jobAsked>>,
         jobFaults' \in 0..MaxFailures
  PROVE  Shows(j)
<1>1. PICK r \in JobSet :
        /\ job' = [job EXCEPT ![j] = r]
        /\ r.pc = label /\ r.mode = job[j].mode /\ r.sha = job[j].sha /\ r.id = job[j].id
        /\ r.prod = job[j].prod /\ r.index = job[j].index
  BY GoesTo DEF Run!Pcs
<1>2. r.pc \in Ended /\ (container' = container => (Gone(j) => Gone(j)'))
  BY <1>1 DEF Ended, Gone
<1>3. Run!TypeOK' /\ LaunchFrame(j) /\ Settles(j) /\ job'[j] = r
  BY <1>1, <1>2, LaunchMoves
<1>4. JobFit(j)
  BY DEF Launched
<1>5. JobFit(j)'
  BY <1>1, <1>3, <1>4 DEF Went, JobFit, Placed, Received, Asking, Removed, Entered, Marked,
     Unstarted, Ended, Run!server
<1>6. QED
  BY <1>3, <1>5 DEF Shows

LEMMA BeginFit == ASSUME Run!Assumptions, Launched, NEW j \in Jobs, Run!Begin(j) PROVE Shows(j)
<1>1. PICK mode \in {"preflight", "run"}, s \in Shas :
        job' = [job EXCEPT ![j] = [Run!Idle EXCEPT !.mode = mode, !.sha = s, !.pc = "check"]]
  BY DEF Run!Begin
<1> DEFINE r == [Run!Idle EXCEPT !.mode = mode, !.sha = s, !.pc = "check"]
<1>2. /\ r.pc = "check" /\ r.mode = mode /\ r.sha = s /\ r.id = None /\ r.prod = 0 /\ r.index = 0
      /\ r \in JobSet
  <2>1. Run!Idle \in JobSet /\ Run!Idle.id = None /\ Run!Idle.prod = 0 /\ Run!Idle.index = 0
      BY DEF Run!Idle, JobSet, Run!Pcs, Run!MaybeJob, Run!Assumptions
  <2> HIDE DEF Run!Idle
  <2>2. QED
      BY <2>1 DEF JobSet, Run!Pcs
<1> HIDE DEF r
<1>3. /\ Docked(j) /\ job[j].pc \notin Ended /\ jobFaults' \in 0..MaxFailures
      /\ UNCHANGED <<container, Run!runDir, Run!server, secrets, staging, jobAsked>>
  BY Docks DEF Run!Begin, Run!NoFault, Ended, Launched, Run!TypeOK
<1>4. Run!TypeOK' /\ LaunchFrame(j) /\ Settles(j) /\ job'[j] = r
  BY <1>1, <1>2, <1>3, LaunchMoves DEF r
<1>5. Gone(j)' /\ prod \in Nat /\ index \in Nat /\ UNCHANGED Run!server
  BY Fields DEF Run!Begin, Launched, JobFit, Removed, Unstarted, Gone
<1>6. JobFit(j)'
  BY <1>2, <1>4, <1>5 DEF Went, JobFit, Placed, Received, Asking, Removed, Entered, Marked,
     Unstarted, Run!server
<1>7. QED
  BY <1>4, <1>6 DEF Shows

\* Looking at production and at the index, for the first time.
LEMMA SnapshotFit ==
  ASSUME Run!Assumptions, Launched, NEW j \in Jobs, Run!SnapshotProd(j) \/ Run!SnapshotIndex(j)
  PROVE  Shows(j)
<1>1. /\ Run!TypeOK /\ JobFit(j) /\ job[j] \in JobSet /\ prod \in Nat /\ index \in Nat
      /\ prod \in 0..MaxRestarts /\ index \in 0..MaxReindex
      /\ jobFaults \in 0..MaxFailures
      /\ job[j].pc \in {"prod", "index"} /\ UNCHANGED jobFaults
      /\ UNCHANGED <<container, Run!runDir, Run!server, secrets, staging, jobAsked>> /\ Docked(j)
  BY Fields, Docks DEF Launched, Run!TypeOK, Run!SnapshotProd, Run!SnapshotIndex, Run!NoFault
<1>2. CASE Run!Fail(j)
  BY <1>1, <1>2, StopFit DEF Run!Fail
<1>3. CASE Run!SnapshotProd(j) /\ ~Run!Fail(j)
  <2> DEFINE r == [job[j] EXCEPT !.prod = prod, !.pc = "index"]
  <2>1. /\ job[j].pc = "prod" /\ (job[j].mode = "run" => receipt[job[j].sha].prod = prod)
        /\ job' = [job EXCEPT ![j] = r]
      BY <1>3, <1>1 DEF Run!SnapshotProd, JobSet
  <2>2. /\ r \in JobSet /\ r.pc = "index" /\ r.mode = job[j].mode /\ r.sha = job[j].sha
        /\ r.id = job[j].id /\ r.prod = prod /\ r.index = job[j].index
      BY <1>1 DEF JobSet, Run!Pcs
  <2> HIDE DEF r
  <2>3. Run!TypeOK' /\ LaunchFrame(j) /\ Settles(j) /\ job'[j] = r
      BY <1>1, <2>1, <2>2, LaunchMoves DEF Ended
  <2>4. JobFit(j)'
      BY <1>1, <2>1, <2>2, <2>3 DEF Went, JobFit, Placed, Received, Asking, Removed, Entered,
         Marked, Unstarted, Ended, Gone, Run!server, Run!runDir
  <2>5. QED
      BY <2>3, <2>4 DEF Shows
<1>4. CASE Run!SnapshotIndex(j) /\ ~Run!Fail(j)
  <2> DEFINE r == [job[j] EXCEPT !.index = index, !.pc = "stage"]
  <2>1. /\ job[j].pc = "index" /\ (job[j].mode = "run" => receipt[job[j].sha].index = index)
        /\ job' = [job EXCEPT ![j] = r]
      BY <1>4, <1>1 DEF Run!SnapshotIndex, JobSet
  <2>2. /\ r \in JobSet /\ r.pc = "stage" /\ r.mode = job[j].mode /\ r.sha = job[j].sha
        /\ r.id = job[j].id /\ r.prod = job[j].prod /\ r.index = index
      BY <1>1 DEF JobSet, Run!Pcs
  <2> HIDE DEF r
  <2>3. Run!TypeOK' /\ LaunchFrame(j) /\ Settles(j) /\ job'[j] = r
      BY <1>1, <2>1, <2>2, LaunchMoves DEF Ended
  <2>4. JobFit(j)'
      BY <1>1, <2>1, <2>2, <2>3 DEF Went, JobFit, Placed, Received, Asking, Removed, Entered,
         Marked, Unstarted, Ended, Gone, Run!server, Run!runDir
  <2>5. QED
      BY <2>3, <2>4 DEF Shows
<1>5. QED
  BY <1>2, <1>3, <1>4

LEMMA Here ==
  ASSUME Run!Assumptions, Launched, NEW j \in Jobs
  PROVE  /\ Run!TypeOK /\ JobFit(j) /\ job[j] \in JobSet /\ prod \in Nat /\ index \in Nat
         /\ job[j].prod \in Nat /\ job[j].index \in Nat
         /\ Run!Fault \/ Run!NoFault => jobFaults' \in 0..MaxFailures
         /\ container' = container => Docked(j) /\ (Gone(j) <=> Gone(j)')
         /\ container' = None => Docked(j) /\ Gone(j)'
<1>1. Run!TypeOK /\ JobFit(j) /\ job[j] \in JobSet /\ prod \in Nat /\ index \in Nat
  BY Fields DEF Launched
<1>2. job[j].prod \in Nat /\ job[j].index \in Nat
  BY <1>1 DEF JobSet, Run!Assumptions
<1>3. Run!Fault \/ Run!NoFault => jobFaults' \in 0..MaxFailures
  BY <1>1 DEF Run!TypeOK, Run!Fault, Run!NoFault, Run!Assumptions
<1>4. QED
  BY <1>1, <1>2, <1>3, Docks

\* Going on in the script.
LEMMA Walks ==
  ASSUME Run!Assumptions, Launched, NEW j \in Jobs, NEW label \in Run!Pcs, Run!Goto(j, label),
         job[j].pc \notin Ended, Docked(j), UNCHANGED <<Run!runDir, Run!server, jobAsked>>,
         secrets' \subseteq secrets \cup {j}, staging' \subseteq staging \cup {j},
         Run!Fault \/ Run!NoFault
  PROVE  /\ Run!TypeOK' /\ LaunchFrame(j) /\ Settles(j)
         /\ Went(j, label)
<1>1. PICK r \in JobSet :
        /\ job' = [job EXCEPT ![j] = r]
        /\ r.pc = label /\ r.mode = job[j].mode /\ r.sha = job[j].sha /\ r.id = job[j].id
        /\ r.prod = job[j].prod /\ r.index = job[j].index
  BY GoesTo
<1>2. jobFaults' \in 0..MaxFailures
  BY Here
<1>3. Run!TypeOK' /\ LaunchFrame(j) /\ Settles(j) /\ job'[j] = r
  BY <1>1, <1>2, LaunchMoves
<1>4. QED
  BY <1>1, <1>3 DEF Went

LEMMA FailFit ==
  ASSUME Run!Assumptions, Launched, NEW j \in Jobs, Run!Fail(j),
         job[j].pc \notin Ended \cup {"new"}, Docked(j), Run!Fault \/ Run!NoFault,
         UNCHANGED <<Run!runDir, Run!server, secrets, staging, jobAsked>>
  PROVE  Shows(j)
  BY Here, StopFit DEF Run!Fail

LEMMA CheckFit ==
  ASSUME Run!Assumptions, Launched, NEW j \in Jobs, Run!Check(j) PROVE Shows(j)
<1>1. /\ Run!TypeOK /\ JobFit(j) /\ Docked(j) /\ (Gone(j) <=> Gone(j)')
      /\ job[j].pc = "check" /\ job[j].pc \notin Ended \cup {"new"}
      /\ Run!NoFault /\ UNCHANGED <<container, Run!runDir, Run!server, staging, jobAsked>>
  BY Here DEF Run!Check, Ended
<1>2. CASE Run!Fail(j) /\ UNCHANGED secrets
  BY <1>1, <1>2, FailFit
<1>3. CASE /\ container = None /\ Run!Goto(j, "prod") /\ secrets' \subseteq secrets \cup {j}
           /\ job[j].mode = "run" => receipt[job[j].sha] # None
  <2>1. /\ Run!TypeOK' /\ LaunchFrame(j) /\ Settles(j)
        /\ Went(j, "prod")
      BY <1>1, <1>3, Walks DEF Run!Pcs
  <2>2. JobFit(j)'
      BY <1>1, <1>3, <2>1 DEF Went, JobFit, Placed, Received, Asking, Removed, Entered, Marked,
         Unstarted, Ended, Gone, Run!server, Run!runDir
  <2>3. QED
      BY <2>1, <2>2 DEF Shows
<1>4. QED
  BY <1>2, <1>3 DEF Run!Check

LEMMA StageFit ==
  ASSUME Run!Assumptions, Launched, NEW j \in Jobs, Run!Stage(j) PROVE Shows(j)
<1>1. /\ Run!TypeOK /\ JobFit(j) /\ Docked(j) /\ (Gone(j) <=> Gone(j)')
      /\ job[j].pc = "stage" /\ job[j].pc \notin Ended \cup {"new"}
      /\ Run!NoFault /\ UNCHANGED <<container, Run!runDir, Run!server, jobAsked>>
  BY Here DEF Run!Stage, Ended
<1>2. CASE Run!Fail(j) /\ UNCHANGED <<staging, secrets>>
  BY <1>1, <1>2, FailFit
<1>3. CASE /\ Run!Goto(j, "start") /\ secrets' \subseteq secrets \cup {j}
           /\ staging' \subseteq staging \cup {j}
  <2>1. /\ Run!TypeOK' /\ LaunchFrame(j) /\ Settles(j)
        /\ Went(j, "start")
      BY <1>1, <1>3, Walks DEF Run!Pcs
  <2>2. JobFit(j)'
      BY <1>1, <2>1 DEF Went, JobFit, Placed, Received, Asking, Removed, Entered, Marked,
         Unstarted, Ended, Run!server, Run!runDir
  <2>3. QED
      BY <2>1, <2>2 DEF Shows
<1>4. QED
  BY <1>2, <1>3 DEF Run!Stage

LEMMA ReadyFit ==
  ASSUME Run!Assumptions, Launched, NEW j \in Jobs, Run!Ready(j) PROVE Shows(j)
<1>1. /\ Run!TypeOK /\ JobFit(j) /\ Docked(j) /\ (Gone(j) <=> Gone(j)')
      /\ job[j].pc \in {"ready", "answered"} /\ job[j].pc \notin Ended \cup {"new"}
      /\ Run!NoFault
      /\ UNCHANGED <<container, Run!runDir, Run!server, secrets, staging, jobAsked>>
  BY Here DEF Run!Ready, Ended
<1>2. CASE Run!Fail(j)
  BY <1>1, <1>2, FailFit
<1> DEFINE label == IF job[j].pc = "answered" THEN "recheck"
                    ELSE IF job[j].mode = "run" THEN "mark" ELSE "remove"
<1>3. CASE Run!Goto(j, label)
  <2>1. label \in Run!Pcs
      BY DEF Run!Pcs
  <2>2. /\ Run!TypeOK' /\ LaunchFrame(j) /\ Settles(j)
        /\ Went(j, label)
    <3> HIDE DEF label
    <3> QED
        BY <1>1, <1>3, <2>1, Walks
  <2>3. JobFit(j)'
      BY <1>1, <2>2 DEF Went, JobFit, Placed, Received, Asking, Removed, Entered, Marked,
         Unstarted, Ended, Run!server, Run!runDir
  <2>4. QED
      BY <2>2, <2>3 DEF Shows
<1>4. QED
  BY <1>2, <1>3 DEF Run!Ready

\* A step that gives j's id a value goes to another place as well.
LEMMA StartFit ==
  ASSUME Run!Assumptions, Launched, NEW j \in Jobs, Run!Start(j) PROVE Shows(j)
<1>1. /\ Run!TypeOK /\ JobFit(j) /\ job[j] \in JobSet
      /\ container' = container => Docked(j)
      /\ job[j].pc = "start" /\ job[j].pc \notin Ended \cup {"new"} /\ job[j].sha \in Shas
      /\ UNCHANGED <<Run!runDir, Run!server, secrets, staging, jobAsked>>
  BY Here DEF Run!Start, Ended, JobFit, Placed
<1>2. CASE Run!Fail(j) /\ Run!NoFault /\ UNCHANGED container
  BY <1>1, <1>2, FailFit
<1>3. CASE /\ \E up \in BOOLEAN : container' = [id |-> j, sha |-> job[j].sha, up |-> up]
           /\ Run!Fail(j) /\ Run!Fault
  <2>1. Docked(j)
      BY <1>1, <1>3 DEF Docked
  <2>2. QED
      BY <1>1, <1>3, <2>1, FailFit
<1>4. CASE /\ container' = [id |-> j, sha |-> job[j].sha, up |-> TRUE]
           /\ job' = [job EXCEPT ![j].id = j, ![j].pc = "ready"]
           /\ Run!NoFault
  <2> DEFINE r == [job[j] EXCEPT !.id = j, !.pc = "ready"]
  <2>1. job' = [job EXCEPT ![j] = r]
      BY <1>1, <1>4 DEF JobSet
  <2>2. /\ r \in JobSet /\ r.pc = "ready" /\ r.mode = job[j].mode /\ r.sha = job[j].sha
        /\ r.id = j /\ r.prod = job[j].prod /\ r.index = job[j].index
      BY <1>1 DEF JobSet, Run!Pcs, Run!MaybeJob
  <2> HIDE DEF r
  <2>3. Docked(j) /\ jobFaults' \in 0..MaxFailures
      BY <1>1, <1>4, Here DEF Docked
  <2>4. Run!TypeOK' /\ LaunchFrame(j) /\ Settles(j) /\ job'[j] = r
      BY <1>1, <2>1, <2>2, <2>3, LaunchMoves
  <2>5. JobFit(j)'
      BY <1>1, <2>2, <2>4 DEF Went, JobFit, Placed, Received, Asking, Removed, Entered, Marked,
         Unstarted, Ended, Run!server, Run!runDir
  <2>6. QED
      BY <2>4, <2>5 DEF Shows
<1>5. QED
  BY <1>2, <1>3, <1>4 DEF Run!Start

LEMMA RemoveFit ==
  ASSUME Run!Assumptions, Launched, NEW j \in Jobs, Run!Remove(j) PROVE Shows(j)
<1>1. /\ Run!TypeOK /\ JobFit(j) /\ job[j] \in JobSet
      /\ container' = container => Docked(j)
      /\ container' = None => Docked(j) /\ Gone(j)'
      /\ job[j].pc = "remove" /\ job[j].pc \notin Ended \cup {"new"}
      /\ UNCHANGED <<Run!runDir, Run!server, secrets, staging, jobAsked>>
  BY Here DEF Run!Remove, Ended
<1>2. CASE Run!Fail(j) /\ Run!NoFault /\ UNCHANGED container
  BY <1>1, <1>2, FailFit
<1>3. CASE /\ Run!Owned(j)
           /\ \E up \in {container.up, FALSE} : container' = [container EXCEPT !.up = up]
           /\ Run!Fail(j) /\ Run!Fault
  <2>1. container \in [id : Jobs, sha : Shas, up : BOOLEAN]
      BY <1>1, <1>3 DEF Run!TypeOK, Run!Owned
  <2>2. Docked(j)
      BY <1>3, <2>1 DEF Docked, Run!Owned
  <2>3. QED
      BY <1>1, <1>3, <2>2, FailFit
<1> DEFINE label == IF job[j].mode = "run" THEN "complete" ELSE "recheck"
<1>4. CASE /\ container' = None
           /\ job' = [job EXCEPT ![j].id = None, ![j].pc = label]
           /\ Run!NoFault
  <2> DEFINE r == [job[j] EXCEPT !.id = None, !.pc = label]
  <2>1. job' = [job EXCEPT ![j] = r]
      BY <1>1, <1>4 DEF JobSet
  <2>2. label \in Run!Pcs
      BY DEF Run!Pcs
  <2>3. /\ r \in JobSet /\ r.pc = label /\ r.mode = job[j].mode /\ r.sha = job[j].sha
        /\ r.id = None /\ r.prod = job[j].prod /\ r.index = job[j].index
    <3> HIDE DEF label
    <3> QED
        BY <1>1, <2>2 DEF JobSet, Run!MaybeJob
  <2>4. Docked(j) /\ Gone(j)' /\ jobFaults' \in 0..MaxFailures
      BY <1>1, <1>4, Here
  <2>5. Run!TypeOK' /\ LaunchFrame(j) /\ Settles(j) /\ job'[j] = r
    <3> HIDE DEF r
    <3> QED
        BY <1>1, <2>1, <2>3, <2>4, LaunchMoves
  <2>6. /\ job'[j].pc \in {"complete", "recheck"}
        /\ job'[j].pc = "complete" <=> job[j].mode = "run"
      BY <2>3, <2>5
  <2> HIDE DEF r, label
  <2>7. JobFit(j)'
      BY <1>1, <2>3, <2>4, <2>5, <2>6 DEF Went, JobFit, Placed, Received, Asking, Removed,
         Entered, Marked, Unstarted, Ended, Run!server, Run!runDir
  <2>8. QED
      BY <2>5, <2>7 DEF Shows
<1>5. QED
  BY <1>2, <1>3, <1>4 DEF Run!Remove

\* What was asked of the commit of a run was asked after it had looked at production, and
\* before now.
LEMMA RecheckFit ==
  ASSUME Run!Assumptions, Launched, NEW j \in Jobs, Run!Recheck(j) PROVE Shows(j)
<1>1. /\ Run!TypeOK /\ JobFit(j) /\ Docked(j) /\ (Gone(j) <=> Gone(j)')
      /\ job[j].pc \in {"recheck", "recheck_index"} /\ job[j].pc \notin Ended \cup {"new"}
      /\ Run!NoFault
      /\ UNCHANGED <<container, Run!runDir, Run!server, secrets, staging, jobAsked>>
  BY Here DEF Run!Recheck, Ended
<1>2. CASE Run!Fail(j)
  BY <1>1, <1>2, FailFit
<1>3. CASE ~Run!Fail(j)
  <2> DEFINE label == IF job[j].pc = "recheck" THEN "recheck_index"
                      ELSE IF job[j].mode = "run" THEN "remove" ELSE "publish"
  <2>1. Run!Goto(j, label) /\ label \in Run!Pcs
      BY <1>3 DEF Run!Recheck, Run!Pcs
  <2>2. /\ Run!TypeOK' /\ LaunchFrame(j) /\ Settles(j)
        /\ Went(j, label)
    <3> HIDE DEF label
    <3> QED
        BY <1>1, <2>1, Walks
  <2>3. IF job[j].pc = "recheck" THEN prod = job[j].prod ELSE index = job[j].index
      BY <1>3 DEF Run!Recheck
  <2>4. ASSUME job[j].mode = "run", NEW a \in jobAsked[job[j].sha]
        PROVE  /\ job[j].pc = "recheck" => a.prod = job[j].prod
               /\ job[j].pc = "recheck_index" => a.index = job[j].index
    <3>1. job[j].sha \in Shas /\ a \in Run!Amid
        BY <1>1, <2>4 DEF JobFit, Placed, Run!TypeOK
    <3>2. a.prod \in Nat /\ a.index \in Nat /\ prod \in Nat /\ index \in Nat
          /\ job[j].prod \in Nat /\ job[j].index \in Nat
        BY <3>1, Here DEF Run!Amid
    <3>3. a.prod <= prod /\ a.index <= index
        BY <3>1 DEF Launched, DirFit
    <3>4. job[j].prod <= a.prod /\ job[j].index <= a.index
        BY <1>1, <2>4 DEF JobFit, Asking, Marked
    <3>5. QED
        BY <1>1, <2>3, <3>2, <3>3, <3>4
  <2>5. JobFit(j)'
      BY <1>1, <2>2, <2>4 DEF Went, JobFit, Placed, Received, Asking, Removed, Entered, Marked,
         Unstarted, Ended, Run!server, Run!runDir
  <2>6. QED
      BY <2>2, <2>5 DEF Shows
<1>4. QED
  BY <1>2, <1>3

\* Writing to a run directory.
LEMMA Writes ==
  ASSUME Run!Assumptions, Launched, NEW j \in Jobs, NEW label \in Run!Pcs, Run!Goto(j, label),
         job[j].pc \notin Ended, UNCHANGED <<container, Run!server, secrets>>, Run!NoFault,
         staging' \subseteq staging,
         \A k \in Jobs \ {j} : k \in staging' <=> k \in staging,
         receipt' \in [Shas -> Run!Amid \cup {None}], runStarted' \in [Shas -> Run!MaybeJob],
         runCompleted' \in [Shas -> Run!MaybeJob], evidence' \in [Shas -> Run!MaybeJob],
         jobAsked' \in [Shas -> SUBSET Run!Amid],
         \A s \in Shas : /\ receipt[s] # None => receipt'[s] = receipt[s]
                         /\ runStarted[s] # None => runStarted'[s] = runStarted[s]
                         /\ runStarted'[s] # None => receipt'[s] # None
                         /\ jobAsked'[s] # {} => runStarted'[s] # None
                         /\ \/ jobAsked'[s] = jobAsked[s] /\ evidence'[s] = evidence[s]
                            \/ runStarted[s] = j
  PROVE  /\ Run!TypeOK' /\ LaunchFrame(j) /\ Settles(j)
         /\ Went(j, label)
         /\ Gone(j) <=> Gone(j)'
<1> USE DEF Run!server
<1>1. PICK r \in JobSet :
        /\ job' = [job EXCEPT ![j] = r]
        /\ r.pc = label /\ r.mode = job[j].mode /\ r.sha = job[j].sha /\ r.id = job[j].id
        /\ r.prod = job[j].prod /\ r.index = job[j].index
  BY GoesTo
<1>2. /\ Run!TypeOK /\ job \in [Jobs -> JobSet] /\ prod \in Nat /\ index \in Nat
      /\ (Gone(j) <=> Gone(j)')
  BY Fields, Here DEF Launched
<1>3. job' \in [Jobs -> JobSet] /\ job'[j] = r /\ \A k \in Jobs \ {j} : job'[k] = job[k]
  BY <1>1, <1>2
<1>4. Run!TypeOK'
  BY <1>2, <1>3 DEF Run!TypeOK, JobSet, Run!NoFault
<1>5. LaunchFrame(j)
  BY <1>2, <1>3 DEF LaunchFrame
<1>6. Settles(j)
  BY DEF Settles
<1>7. QED
  BY <1>1, <1>2, <1>3, <1>4, <1>5, <1>6 DEF Went

\* The directories that a step of j does not touch.
LEMMA OtherDirs ==
  ASSUME Run!Assumptions, Launched, NEW j, LaunchFrame(j), Settles(j), NEW t,
         \A s \in Shas \ {t} : /\ receipt'[s] = receipt[s] /\ runCompleted'[s] = runCompleted[s]
                               /\ jobAsked'[s] = jobAsked[s] /\ evidence'[s] = evidence[s]
  PROVE  \A s \in Shas \ {t} : DirFit(s)'
  BY DirKept

LEMMA MarkFit ==
  ASSUME Run!Assumptions, Launched, NEW j \in Jobs, Run!Mark(j)
  PROVE  Shows(j) /\ \A s \in Shas : DirFit(s)'
<1> DEFINE t == job[j].sha
<1>1. /\ Run!TypeOK /\ JobFit(j) /\ job[j].pc = "mark" /\ job[j].pc \notin Ended \cup {"new"}
      /\ job[j].mode = "run" /\ t \in Shas /\ receipt[t] # None /\ (Gone(j) <=> Gone(j)')
      /\ runStarted[t] = None => jobAsked[t] = {} /\ runCompleted[t] = None
      /\ Run!NoFault /\ Docked(j) /\ UNCHANGED <<container, Run!server, secrets, staging>>
      /\ UNCHANGED <<receipt, runCompleted, evidence, jobAsked>>
  <2>1. /\ Run!TypeOK /\ JobFit(j) /\ job[j].pc = "mark" /\ (Gone(j) <=> Gone(j)')
        /\ Run!NoFault /\ Docked(j) /\ UNCHANGED <<container, Run!server, secrets, staging>>
        /\ UNCHANGED <<receipt, runCompleted, evidence, jobAsked>>
      BY Here DEF Run!Mark
  <2>2. job[j].pc \notin Ended \cup {"new"} /\ job[j].mode = "run" /\ t \in Shas
      BY <2>1 DEF Ended, JobFit, Placed
  <2>3. receipt[t] # None
      BY <2>1, <2>2 DEF JobFit, Received, Entered
  <2>4. runStarted[t] = None => jobAsked[t] = {} /\ runCompleted[t] = None
      BY <2>1, <2>2 DEF Run!TypeOK, Launched, DirFit
  <2>5. QED
      BY <2>1, <2>2, <2>3, <2>4
<1>2. CASE Run!Fail(j) /\ UNCHANGED runStarted
  <2>1. Shows(j)
      BY <1>1, <1>2, FailFit DEF Run!runDir
  <2>2. QED
      BY <1>1, <2>1, DirKept DEF Shows
<1>3. ASSUME runStarted[t] = None, runStarted' = [runStarted EXCEPT ![t] = j],
             NEW label \in {"ask", "exit"}, Run!Goto(j, label)
      PROVE  Shows(j) /\ \A s \in Shas : DirFit(s)'
  <2>1. /\ runStarted' \in [Shas -> Run!MaybeJob] /\ runStarted'[t] = j
        /\ \A s \in Shas \ {t} : runStarted'[s] = runStarted[s]
      BY <1>1, <1>3 DEF Run!TypeOK, Run!MaybeJob
  <2>2. j # None /\ label \in Run!Pcs
      BY <1>3 DEF Run!Assumptions, Run!Pcs
  <2>3. /\ Run!TypeOK' /\ LaunchFrame(j) /\ Settles(j)
        /\ Went(j, label)
      BY <1>1, <1>3, <2>1, <2>2, Writes DEF Run!TypeOK
  <2>4. JobFit(j)'
      BY <1>1, <1>3, <2>1, <2>3 DEF Went, JobFit, Placed, Received, Asking, Removed, Entered,
         Marked, Unstarted, Ended, Run!server
  <2>5. QED
      BY <1>1, <2>3, <2>4, DirKept DEF Shows
<1>4. QED
  BY <1>2, <1>3 DEF Run!Mark, Run!Fail

\* Asking and answering add to what was asked of the commit, amid what there is now.
Answers(j) == jobAsked' = [jobAsked EXCEPT ![job[j].sha] =
                          @ \cup {[by |-> j, prod |-> prod, index |-> index]}]

LEMMA AskedMore ==
  ASSUME Run!Assumptions, Launched, NEW j \in Jobs, job[j].pc \in {"ask", "asking"}, Answers(j)
  PROVE  /\ job[j].mode = "run" /\ job[j].sha \in Shas
         /\ runStarted[job[j].sha] = j /\ receipt[job[j].sha] # None
         /\ jobAsked' \in [Shas -> SUBSET Run!Amid]
         /\ \A s \in Shas \ {job[j].sha} : jobAsked'[s] = jobAsked[s]
         /\ jobAsked'[job[j].sha] # {}
         /\ \A a \in jobAsked'[job[j].sha] :
              /\ job[j].prod <= a.prod /\ job[j].index <= a.index
              /\ a.by = j /\ a.prod <= prod /\ a.index <= index
<1> DEFINE t == job[j].sha
           new == [by |-> j, prod |-> prod, index |-> index]
<1>1. /\ Run!TypeOK /\ JobFit(j) /\ prod \in Nat /\ index \in Nat
      /\ prod \in 0..MaxRestarts /\ index \in 0..MaxReindex
  BY Here DEF Run!TypeOK
<1>2. job[j].mode = "run" /\ t \in Shas /\ runStarted[t] = j /\ receipt[t] # None
  <2>1. job[j].mode = "run" /\ t \in Shas /\ runStarted[t] = j
      BY <1>1 DEF JobFit, Placed, Asking, Marked
  <2>2. j # None
      BY DEF Run!Assumptions
  <2>3. QED
      BY <1>1, <2>1, <2>2 DEF Run!TypeOK
<1>3. new \in Run!Amid /\ new.by = j /\ new.prod = prod /\ new.index = index
  BY <1>1 DEF Run!Amid
<1> HIDE DEF new
<1>4. jobAsked \in [Shas -> SUBSET Run!Amid] /\ jobAsked' = [jobAsked EXCEPT ![t] = @ \cup {new}]
  BY <1>1 DEF Run!TypeOK, Answers, new
<1>5. /\ jobAsked' \in [Shas -> SUBSET Run!Amid] /\ jobAsked'[t] = jobAsked[t] \cup {new}
      /\ \A s \in Shas \ {t} : jobAsked'[s] = jobAsked[s]
  BY <1>2, <1>3, <1>4
<1>6. ASSUME NEW a \in jobAsked'[t]
      PROVE  /\ job[j].prod <= a.prod /\ job[j].index <= a.index
             /\ a.by = j /\ a.prod <= prod /\ a.index <= index
  <2>1. CASE a = new
      BY <1>1, <1>3, <2>1 DEF JobFit, Placed
  <2>2. CASE a \in jobAsked[t]
      BY <1>1, <1>2, <2>2 DEF JobFit, Asking, Marked, Launched, DirFit
  <2>3. QED
      BY <1>5, <2>1, <2>2
<1>7. QED
  BY <1>2, <1>5, <1>6

\* The directory of a commit that is asked: nothing is completed there.
LEMMA Asked ==
  ASSUME Run!Assumptions, Launched, NEW j \in Jobs, job[j].pc \in {"ask", "asking"}, Answers(j),
         LaunchFrame(j), Settles(j), Run!TypeOK', job[j].pc \notin Ended,
         runStarted' = runStarted,
         UNCHANGED <<Run!server, container, staging>>,
         runCompleted' = runCompleted, receipt' = receipt,
         \A s \in Shas \ {job[j].sha} : evidence'[s] = evidence[s]
  PROVE  \A s \in Shas : DirFit(s)'
<1>0. PICK t : t = job[j].sha
  OBVIOUS
<1>1. /\ t \in Shas /\ runStarted[t] = j /\ receipt[t] # None
      /\ \A s \in Shas \ {t} : jobAsked'[s] = jobAsked[s]
      /\ \A a \in jobAsked'[t] : a.by = j /\ a.prod <= prod /\ a.index <= index
  BY <1>0, AskedMore
<1>2. DirFit(t) /\ Run!TypeOK
  BY <1>1 DEF Launched
<1>3. runCompleted[t] = None
  BY <1>1, <1>2 DEF DirFit
<1>4. DirFit(t)'
  <2>1. receipt[t].by \in Jobs /\ job[receipt[t].by].pc \in Ended /\ Gone(receipt[t].by)
        /\ receipt[t].by \notin staging
      BY <1>1, <1>2 DEF DirFit, Run!TypeOK, Run!Amid
  <2>2. job'[receipt[t].by] = job[receipt[t].by]
      BY <2>1 DEF LaunchFrame
  <2>3. QED
      BY <1>1, <1>3, <2>1, <2>2 DEF DirFit, Gone, Run!server
<1>5. \A s \in Shas \ {t} : DirFit(s)'
  BY <1>0, <1>1, OtherDirs
<1>6. QED
  BY <1>4, <1>5

LEMMA AskFit ==
  ASSUME Run!Assumptions, Launched, NEW j \in Jobs, Run!Ask(j)
  PROVE  Shows(j) /\ \A s \in Shas : DirFit(s)'
<1>1. /\ Run!TypeOK /\ JobFit(j) /\ job[j].pc = "ask" /\ job[j].pc \notin Ended \cup {"new"}
      /\ (Gone(j) <=> Gone(j)') /\ Docked(j)
      /\ Run!NoFault /\ UNCHANGED <<container, Run!server, secrets, staging>>
      /\ UNCHANGED <<receipt, runStarted, runCompleted, evidence>>
  BY Here DEF Run!Ask, Ended, Run!runDir
<1>2. CASE Run!Fail(j) /\ UNCHANGED jobAsked
  <2>1. Shows(j)
      BY <1>1, <1>2, FailFit DEF Run!runDir
  <2>2. QED
      BY <1>1, <1>2, <2>1, DirKept DEF Shows
<1>3. CASE Answers(j) /\ Run!Goto(j, "asking")
  <2>1. /\ job[j].mode = "run" /\ job[j].sha \in Shas /\ j # None
        /\ runStarted[job[j].sha] = j /\ receipt[job[j].sha] # None
        /\ jobAsked' \in [Shas -> SUBSET Run!Amid]
        /\ \A s \in Shas \ {job[j].sha} : jobAsked'[s] = jobAsked[s]
        /\ jobAsked'[job[j].sha] # {}
        /\ \A a \in jobAsked'[job[j].sha] : job[j].prod <= a.prod /\ job[j].index <= a.index
      BY <1>1, <1>3, AskedMore DEF Run!Assumptions
  <2>2. /\ Run!TypeOK' /\ LaunchFrame(j) /\ Settles(j)
        /\ Went(j, "asking")
      BY <1>1, <1>3, <2>1, Writes DEF Run!TypeOK, Run!Pcs
  <2>3. JobFit(j)'
      BY <1>1, <2>1, <2>2 DEF Went, JobFit, Placed, Received, Asking, Removed, Entered, Marked,
         Unstarted, Ended, Run!server
  <2>4. QED
      BY <1>1, <1>3, <2>2, <2>3, Asked DEF Shows
<1>4. QED
  BY <1>2, <1>3 DEF Run!Ask, Answers

LEMMA AnsweredFit ==
  ASSUME Run!Assumptions, Launched, NEW j \in Jobs, Run!Answered(j)
  PROVE  Shows(j) /\ \A s \in Shas : DirFit(s)'
<1>1. /\ Run!TypeOK /\ JobFit(j) /\ job[j].pc = "asking" /\ job[j].pc \notin Ended \cup {"new"}
      /\ (Gone(j) <=> Gone(j)') /\ Docked(j)
      /\ Run!NoFault /\ UNCHANGED <<container, Run!server, secrets, staging>>
      /\ UNCHANGED <<receipt, runStarted, runCompleted>>
  BY Here DEF Run!Answered, Ended
<1>2. CASE Run!Fail(j) /\ UNCHANGED <<jobAsked, evidence>>
  <2>1. Shows(j)
      BY <1>1, <1>2, FailFit DEF Run!runDir
  <2>2. QED
      BY <1>1, <1>2, <2>1, DirKept DEF Shows
<1>3. ASSUME Answers(j), evidence' = [evidence EXCEPT ![job[j].sha] = j],
             NEW label \in {"answered", "exit"}, Run!Goto(j, label)
      PROVE  Shows(j) /\ \A s \in Shas : DirFit(s)'
  <2>1. /\ job[j].mode = "run" /\ job[j].sha \in Shas /\ j # None
        /\ runStarted[job[j].sha] = j /\ receipt[job[j].sha] # None
        /\ jobAsked' \in [Shas -> SUBSET Run!Amid]
        /\ \A s \in Shas \ {job[j].sha} : jobAsked'[s] = jobAsked[s]
        /\ jobAsked'[job[j].sha] # {}
        /\ \A a \in jobAsked'[job[j].sha] : job[j].prod <= a.prod /\ job[j].index <= a.index
      BY <1>1, <1>3, AskedMore DEF Run!Assumptions
  <2>2. /\ evidence' \in [Shas -> Run!MaybeJob] /\ evidence'[job[j].sha] = j
        /\ \A s \in Shas \ {job[j].sha} : evidence'[s] = evidence[s]
      BY <1>1, <1>3, <2>1 DEF Run!TypeOK, Run!MaybeJob
  <2>3. label \in Run!Pcs
      BY DEF Run!Pcs
  <2>4. /\ Run!TypeOK' /\ LaunchFrame(j) /\ Settles(j)
        /\ Went(j, label)
      BY <1>1, <1>3, <2>1, <2>2, <2>3, Writes DEF Run!TypeOK
  <2>5. JobFit(j)'
      BY <1>1, <2>1, <2>2, <2>4 DEF Went, JobFit, Placed, Received, Asking, Removed, Entered,
         Marked, Unstarted, Ended, Run!server
  <2>6. QED
      BY <1>1, <1>3, <2>2, <2>4, <2>5, Asked DEF Shows
<1>4. QED
  BY <1>2, <1>3 DEF Run!Answered, Answers, Run!Fail

\* run.completed names a run whose container is gone and whose answers were all given amid
\* what the receipt says.
LEMMA CompleteFit ==
  ASSUME Run!Assumptions, Launched, NEW j \in Jobs, Run!Complete(j)
  PROVE  Shows(j) /\ \A s \in Shas : DirFit(s)'
<1>1. /\ Run!TypeOK /\ JobFit(j) /\ job[j].pc = "complete" /\ job[j].pc \notin Ended \cup {"new"}
      /\ (Gone(j) <=> Gone(j)') /\ Docked(j) /\ Run!Goto(j, "exit")
      /\ Run!NoFault /\ UNCHANGED <<container, Run!server, secrets, staging>>
      /\ UNCHANGED <<receipt, runStarted, evidence, jobAsked>>
  BY Here DEF Run!Complete, Ended
<1>2. CASE UNCHANGED runCompleted
  <2>1. Shows(j)
      BY <1>1, <1>2, FailFit DEF Run!runDir, Run!Fail
  <2>2. QED
      BY <1>1, <1>2, <2>1, DirKept DEF Shows
<1>3. CASE runCompleted' = [runCompleted EXCEPT ![job[j].sha] = j]
  <2>1. PICK t : t = job[j].sha
      OBVIOUS
  <2>2. job[j].mode = "run" /\ t \in Shas /\ runStarted[t] = j /\ evidence[t] = j
        /\ jobAsked[t] # {}
        /\ j # None
      BY <1>1, <2>1 DEF JobFit, Placed, Asking, Marked, Run!Assumptions
  <2>3. runCompleted' \in [Shas -> Run!MaybeJob] /\ runCompleted'[t] = j
        /\ \A s \in Shas \ {t} : runCompleted'[s] = runCompleted[s]
      BY <1>1, <1>3, <2>1, <2>2 DEF Run!TypeOK, Run!MaybeJob
  <2>4. /\ Run!TypeOK' /\ LaunchFrame(j) /\ Settles(j) /\ Went(j, "exit")
      BY <1>1, <2>3, Writes DEF Run!TypeOK, Run!Pcs
  <2>5. JobFit(j)'
      BY <1>1, <2>4 DEF Went, JobFit, Placed, Received, Asking, Removed, Entered, Marked,
         Unstarted, Ended, Run!server
  <2>6. /\ receipt[t] # None
        /\ \A a \in jobAsked[t] : a.prod = receipt[t].prod /\ a.index = receipt[t].index
      BY <1>1, <2>1, <2>2 DEF JobFit, Received, Asking, Entered, Marked, Ended
  <2>7. DirFit(t)'
    <3>1. receipt[t].by \in Jobs /\ job[receipt[t].by].pc \in Ended /\ Gone(receipt[t].by)
          /\ receipt[t].by \notin staging /\ DirFit(t)
        BY <2>2, <2>6 DEF Launched, DirFit, Run!TypeOK, Run!Amid
    <3>2. job'[receipt[t].by] = job[receipt[t].by]
        BY <1>1, <2>4, <3>1 DEF LaunchFrame
    <3>3. Gone(j)
        BY <1>1 DEF JobFit, Removed
    <3>4. QED
        BY <1>1, <2>2, <2>3, <2>4, <2>6, <3>1, <3>2, <3>3 DEF Went, DirFit, Gone, Run!server,
           Ended
  <2>8. \A s \in Shas \ {t} : DirFit(s)'
      BY <1>1, <2>3, <2>4, OtherDirs
  <2>9. QED
      BY <2>4, <2>5, <2>7, <2>8 DEF Shows
<1>4. QED
  BY <1>2, <1>3 DEF Run!Complete

\* A directory is published by a preflight whose container is gone and whose staging it was.
LEMMA PublishFit ==
  ASSUME Run!Assumptions, Launched, NEW j \in Jobs, Run!Publish(j)
  PROVE  Shows(j) /\ \A s \in Shas : DirFit(s)'
<1>1. /\ Run!TypeOK /\ JobFit(j) /\ job[j].pc = "publish" /\ job[j].pc \notin Ended \cup {"new"}
      /\ (Gone(j) <=> Gone(j)') /\ Docked(j) /\ Run!Goto(j, "exit")
      /\ Run!NoFault /\ UNCHANGED <<container, Run!server, secrets>>
      /\ UNCHANGED <<runStarted, runCompleted, evidence, jobAsked>>
  BY Here DEF Run!Publish, Ended
<1>2. CASE UNCHANGED <<receipt, staging>>
  <2>1. Shows(j)
      BY <1>1, <1>2, FailFit DEF Run!runDir, Run!Fail
  <2>2. QED
      BY <1>1, <1>2, <2>1, DirKept DEF Shows
<1>3. CASE /\ receipt[job[j].sha] = None
           /\ receipt' = [receipt EXCEPT ![job[j].sha] =
                [by |-> j, prod |-> job[j].prod, index |-> job[j].index]]
           /\ staging' = staging \ {j}
  <2>1. PICK t : t = job[j].sha
      OBVIOUS
  <2>2. job[j].mode = "preflight" /\ t \in Shas /\ j # None
      BY <1>1, <2>1 DEF JobFit, Placed, Run!Assumptions
  <2> DEFINE new == [by |-> j, prod |-> job[j].prod, index |-> job[j].index]
  <2>3. new \in Run!Amid /\ new.by = j
      BY Here DEF Run!Amid, JobSet
  <2> HIDE DEF new
  <2>4. receipt' = [receipt EXCEPT ![t] = new]
      BY <1>3, <2>1 DEF new
  <2>5. receipt' \in [Shas -> Run!Amid \cup {None}] /\ receipt'[t] = new
        /\ \A s \in Shas \ {t} : receipt'[s] = receipt[s]
      BY <1>1, <2>2, <2>3, <2>4 DEF Run!TypeOK
  <2>6. runStarted[t] = None /\ jobAsked[t] = {} /\ runCompleted[t] = None
      BY <1>1, <1>3, <2>1, <2>2 DEF Run!TypeOK, Launched, DirFit
  <2>7. /\ Run!TypeOK' /\ LaunchFrame(j) /\ Settles(j) /\ Went(j, "exit")
    <3>1. \A s \in Shas : /\ receipt[s] # None => receipt'[s] = receipt[s]
                          /\ runStarted'[s] # None => receipt'[s] # None
                          /\ jobAsked'[s] # {} => runStarted'[s] # None
        BY <1>1, <1>3, <2>1, <2>5, <2>6 DEF Run!TypeOK
    <3>2. QED
        BY <1>1, <1>3, <2>5, <3>1, Writes DEF Run!TypeOK, Run!Pcs
  <2>8. JobFit(j)'
      BY <1>1, <2>2, <2>7 DEF Went, JobFit, Placed, Received, Asking, Removed, Entered, Marked,
         Unstarted, Ended, Run!server
  <2>9. DirFit(t)'
    <3>1. Gone(j)' /\ j \notin staging'
        BY <1>1, <1>3 DEF JobFit, Removed
    <3>2. QED
        BY <1>1, <2>2, <2>3, <2>5, <2>6, <2>7, <3>1 DEF Went, DirFit, Ended, Gone
  <2>10. \A s \in Shas \ {t} : DirFit(s)'
      BY <1>1, <2>5, <2>7, OtherDirs
  <2>11. QED
      BY <2>7, <2>8, <2>9, <2>10 DEF Shows
<1>4. QED
  BY <1>2, <1>3 DEF Run!Publish

LEMMA ExitFit ==
  ASSUME Run!Assumptions, Launched, NEW j \in Jobs, Run!Exit(j) PROVE Shows(j)
<1>1. /\ Run!TypeOK /\ JobFit(j) /\ job[j] \in JobSet /\ job[j].pc = "exit"
      /\ jobFaults' \in 0..MaxFailures
      /\ UNCHANGED <<Run!runDir, Run!server, secrets, staging, jobAsked>>
      /\ container' = container \/ container' = None
  BY Here DEF Run!Exit
<1>2. Docked(j) /\ (Gone(j) => Gone(j)') /\ (container' = None => Gone(j)')
  BY <1>1, Here
<1> DEFINE left == [job[j] EXCEPT !.pc = "temp"]
           soiled == [job[j] EXCEPT !.pc = "temp", !.dirty = TRUE]
<1>3. /\ left \in JobSet /\ left.pc = "temp" /\ left.mode = job[j].mode /\ left.sha = job[j].sha
      /\ left.id = job[j].id /\ left.prod = job[j].prod /\ left.index = job[j].index
  BY <1>1 DEF JobSet, Run!Pcs
<1>4. /\ soiled \in JobSet /\ soiled.pc = "temp" /\ soiled.mode = job[j].mode /\ soiled.dirty
      /\ soiled.sha = job[j].sha
      /\ soiled.id = job[j].id /\ soiled.prod = job[j].prod /\ soiled.index = job[j].index
  BY <1>1 DEF JobSet, Run!Pcs
<1>5. \/ job' = [job EXCEPT ![j] = left] /\ (Gone(j)' \/ job[j].id = None)
      \/ job' = [job EXCEPT ![j] = soiled]
  BY <1>1, <1>2 DEF Run!Exit, JobSet
<1> HIDE DEF left, soiled
<1>6. ASSUME NEW r \in JobSet, job' = [job EXCEPT ![j] = r], r.pc = "temp", r.mode = job[j].mode,
             r.sha = job[j].sha, r.id = job[j].id, r.prod = job[j].prod, r.index = job[j].index,
             ~r.dirty => Gone(j)' \/ job[j].id = None
      PROVE  Shows(j)
  <2>1. Run!TypeOK' /\ LaunchFrame(j) /\ Settles(j) /\ job'[j] = r
      BY <1>1, <1>2, <1>6, LaunchMoves DEF Ended
  <2>2. JobFit(j)'
      BY <1>1, <1>6, <2>1 DEF Went, JobFit, Placed, Received, Asking, Removed, Entered, Marked,
         Unstarted, Ended, Run!server
  <2>3. QED
      BY <2>1, <2>2 DEF Shows
<1>7. QED
  BY <1>3, <1>4, <1>5, <1>6

LEMMA ExitTempFit ==
  ASSUME Run!Assumptions, Launched, NEW j \in Jobs, Run!ExitTemp(j) PROVE Shows(j)
<1>1. /\ Run!TypeOK /\ JobFit(j) /\ job[j] \in JobSet /\ job[j].pc = "temp"
      /\ jobFaults' \in 0..MaxFailures
      /\ secrets' \subseteq secrets /\ staging' \subseteq staging
      /\ UNCHANGED <<container, Run!runDir, Run!server, jobAsked>>
  BY Here DEF Run!ExitTemp
<1>2. Docked(j) /\ (Gone(j) <=> Gone(j)')
  BY <1>1, Here
<1> DEFINE clean == [job[j] EXCEPT !.pc = "done"]
           soiled == [job[j] EXCEPT !.pc = "done", !.dirty = TRUE]
<1>3. /\ clean \in JobSet /\ clean.pc = "done" /\ clean.mode = job[j].mode
      /\ clean.sha = job[j].sha /\ clean.id = job[j].id
      /\ clean.prod = job[j].prod /\ clean.index = job[j].index
      /\ clean.dirty = job[j].dirty
  BY <1>1 DEF JobSet, Run!Pcs
<1>4. /\ soiled \in JobSet /\ soiled.pc = "done" /\ soiled.mode = job[j].mode /\ soiled.dirty
      /\ soiled.sha = job[j].sha
      /\ soiled.id = job[j].id /\ soiled.prod = job[j].prod /\ soiled.index = job[j].index
  BY <1>1 DEF JobSet, Run!Pcs
<1>5. \/ job' = [job EXCEPT ![j] = clean] /\ j \notin secrets' /\ j \notin staging'
      \/ job' = [job EXCEPT ![j] = soiled]
  BY <1>1 DEF Run!ExitTemp, JobSet
<1> HIDE DEF clean, soiled
<1>6. ASSUME NEW r \in JobSet, job' = [job EXCEPT ![j] = r], r.pc = "done", r.mode = job[j].mode,
             r.sha = job[j].sha, r.id = job[j].id, r.prod = job[j].prod, r.index = job[j].index,
             ~r.dirty => ~job[j].dirty /\ j \notin secrets' /\ j \notin staging'
      PROVE  Shows(j)
  <2>1. Run!TypeOK' /\ LaunchFrame(j) /\ Settles(j) /\ job'[j] = r
      BY <1>1, <1>2, <1>6, LaunchMoves DEF Ended
  <2>2. JobFit(j)'
      BY <1>1, <1>2, <1>6, <2>1 DEF Went, JobFit, Placed, Received, Asking, Removed, Entered,
         Marked, Unstarted, Ended, Run!server
  <2>3. QED
      BY <2>1, <2>2 DEF Shows
<1>7. QED
  BY <1>3, <1>4, <1>5, <1>6

LEMMA StoppedFit ==
  ASSUME Run!Assumptions, Launched, NEW j \in Jobs, Run!Interrupt(j) \/ Run!Kill(j) PROVE Shows(j)
<1>1. /\ job[j].pc # "new" /\ Docked(j) /\ jobFaults' \in 0..MaxFailures
      /\ UNCHANGED <<container, Run!runDir, Run!server, secrets, staging, jobAsked>>
  BY Here DEF Run!Interrupt, Run!Kill, Run!Ended
<1>2. \E label \in {"exit", "killed"} : Run!Goto(j, label)
  BY DEF Run!Interrupt, Run!Kill
<1>3. QED
  BY <1>1, <1>2, StopFit

-----------------------------------------------------------------------------
\* The invariant.

\* A step of a launcher.
LEMMA JobStep ==
  ASSUME Run!Assumptions, Launched, NEW j \in Jobs, Run!Step(j) \/ Run!Interrupt(j) \/ Run!Kill(j)
  PROVE  Launched'
<1>1. Shows(j) /\ \A s \in Shas : DirFit(s)'
  <2>1. CASE Run!Mark(j) \/ Run!Ask(j) \/ Run!Answered(j) \/ Run!Complete(j) \/ Run!Publish(j)
      BY <2>1, MarkFit, AskFit, AnsweredFit, CompleteFit, PublishFit
  <2>2. CASE ~(Run!Mark(j) \/ Run!Ask(j) \/ Run!Answered(j) \/ Run!Complete(j) \/ Run!Publish(j))
    <3>1. Shows(j)
        BY <2>2, BeginFit, CheckFit, SnapshotFit, StageFit, StartFit, ReadyFit, RemoveFit,
           RecheckFit, ExitFit, ExitTempFit, StoppedFit DEF Run!Step
    <3>2. UNCHANGED <<Run!runDir, jobAsked>>
        BY <2>2 DEF Run!Step, Run!Begin, Run!Check, Run!SnapshotProd, Run!SnapshotIndex,
           Run!Stage, Run!Start, Run!Ready, Run!Remove, Run!Recheck, Run!Exit, Run!ExitTemp,
           Run!Interrupt, Run!Kill
    <3>3. QED
        BY <3>1, <3>2, DirKept DEF Shows, Run!runDir
  <2>3. QED
      BY <2>1, <2>2
<1>2. \A k \in Jobs \ {j} : JobFit(k)'
  BY <1>1, OthersFit DEF Shows
<1>3. QED
  BY <1>1, <1>2 DEF Shows, Launched

\* A step of nobody's.
LEMMA OutsideStep ==
  ASSUME Run!Assumptions, Launched, UNCHANGED <<Run!runDir, secrets, staging, job, jobAsked>>,
         jobFaults' \in 0..MaxFailures, prod' \in 0..MaxRestarts, index' \in 0..MaxReindex,
         prod <= prod', index <= index',
         container' \in [id : Jobs, sha : Shas, up : BOOLEAN] \cup {None},
         container' # None => container # None /\ container'.id = container.id
  PROVE  Launched'
<1>1. Run!TypeOK /\ prod \in Nat /\ index \in Nat /\ prod' \in Nat /\ index' \in Nat
  BY Fields DEF Launched, Run!Assumptions
<1>2. Run!TypeOK'
  BY <1>1 DEF Run!TypeOK, Run!runDir
<1>3. LaunchFrame(None) /\ Settles(None)
  BY <1>1 DEF LaunchFrame, Settles, Run!Assumptions, Run!runDir
<1>4. \A k \in Jobs : JobFit(k)'
  BY <1>3, OthersFit DEF Run!Assumptions
<1>5. \A s \in Shas : DirFit(s)'
  BY <1>3, DirKept DEF Run!runDir
<1>6. QED
  BY <1>2, <1>4, <1>5 DEF Launched

LEMMA LaunchedNext == ASSUME Run!Assumptions, Launched, [Run!Next]_(Run!vars) PROVE Launched'
<1> USE DEF Run!server
<1>1. /\ Run!TypeOK /\ prod \in Nat /\ index \in Nat
      /\ container # None => container \in [id : Jobs, sha : Shas, up : BOOLEAN]
      /\ Run!Fault \/ Run!NoFault => jobFaults' \in 0..MaxFailures
  BY Fields DEF Launched, Run!TypeOK, Run!Fault, Run!NoFault, Run!Assumptions
<1>2. ASSUME NEW j \in Jobs, Run!Step(j) \/ Run!Interrupt(j) \/ Run!Kill(j) PROVE Launched'
  BY <1>2, JobStep
<1>3. ASSUME NEW s \in Shas, Run!Cleanup(s) PROVE Launched'
  BY <1>1, <1>3, OutsideStep DEF Run!Cleanup, Run!TypeOK
<1>4. CASE Run!ContainerStops
  <2>1. container' \in [id : Jobs, sha : Shas, up : BOOLEAN] /\ container'.id = container.id
      BY <1>1, <1>4 DEF Run!ContainerStops
  <2>2. QED
      BY <1>1, <1>4, <2>1, OutsideStep DEF Run!ContainerStops, Run!TypeOK
<1>5. CASE Run!RestartProduction
  <2>1. prod' \in 0..MaxRestarts /\ prod <= prod'
      BY <1>1, <1>5 DEF Run!RestartProduction, Run!Assumptions
  <2>2. QED
      BY <1>1, <1>5, <2>1, OutsideStep DEF Run!RestartProduction, Run!TypeOK
<1>6. CASE Run!Reindex
  <2>1. index' \in 0..MaxReindex /\ index <= index'
      BY <1>1, <1>6 DEF Run!Reindex, Run!Assumptions
  <2>2. QED
      BY <1>1, <1>6, <2>1, OutsideStep DEF Run!Reindex, Run!TypeOK
<1>7. CASE UNCHANGED Run!vars
  BY <1>1, <1>7, OutsideStep DEF Run!vars, Run!TypeOK
<1>8. QED
  BY <1>2, <1>3, <1>4, <1>5, <1>6, <1>7 DEF Run!Next

LEMMA LaunchedIsSound ==
  ASSUME Run!Assumptions, Launched
  PROVE  Run!OneAsk /\ Run!CompletedSound /\ Run!PublishedGone /\ Run!NothingLeft
<1>1. Run!TypeOK /\ (\A s \in Shas : DirFit(s)) /\ (\A j \in Jobs : JobFit(j))
  BY DEF Launched
<1>2. Run!OneAsk
  BY <1>1 DEF Run!OneAsk, DirFit
<1>3. Run!CompletedSound
  <2> SUFFICES ASSUME NEW s \in Shas, runCompleted[s] # None
               PROVE  /\ runStarted[s] = runCompleted[s] /\ evidence[s] = runCompleted[s]
                      /\ jobAsked[s] = {[by |-> runCompleted[s], prod |-> receipt[s].prod,
                                      index |-> receipt[s].index]}
                      /\ container # None => container.id # runCompleted[s]
      BY DEF Run!CompletedSound
  <2>1. /\ runStarted[s] = runCompleted[s] /\ evidence[s] = runCompleted[s] /\ jobAsked[s] # {}
        /\ Gone(runCompleted[s])
        /\ \A a \in jobAsked[s] : a.by = runCompleted[s] /\ a.prod = receipt[s].prod
                               /\ a.index = receipt[s].index
      BY <1>1 DEF DirFit
  <2>2. \A a \in jobAsked[s] : a = [by |-> a.by, prod |-> a.prod, index |-> a.index]
      BY <1>1 DEF Run!TypeOK, Run!Amid
  <2>3. QED
      BY <2>1, <2>2 DEF Gone
<1>4. Run!PublishedGone
  BY <1>1 DEF Run!PublishedGone, DirFit, Gone
<1>5. Run!NothingLeft
  BY <1>1 DEF Run!NothingLeft, JobFit, Removed, Gone
<1>6. QED
  BY <1>2, <1>3, <1>4, <1>5

\* Whoever takes the container away has given it the id that it has.
LEMMA ForeignKept == ASSUME Run!Assumptions, Launched, [Run!Next]_(Run!vars)
  PROVE Run!KeepsForeign
<1>1. ASSUME NEW j \in Jobs, Run!Step(j), container # None, container' = None
      PROVE  container.id = j
  <2>1. Run!Owned(j)
      BY <1>1 DEF Run!Step, Run!Begin, Run!Check, Run!SnapshotProd, Run!SnapshotIndex,
         Run!Stage, Run!Start, Run!Ready, Run!Remove, Run!Recheck, Run!Publish, Run!Mark,
         Run!Ask, Run!Answered, Run!Complete, Run!Exit, Run!ExitTemp
  <2>2. container.id \in Jobs /\ container.id = job[j].id /\ job[j].id \in {None, j}
      BY <1>1, <2>1 DEF Run!Owned, Launched, JobFit, Placed, Run!TypeOK
  <2>3. QED
      BY <2>2 DEF Run!Assumptions
<1>2. QED
  BY <1>1 DEF Run!KeepsForeign

\* Where every launcher is, its container and the run directories have their types.
THEOREM LaunchesTyped == ASSUME Run!Assumptions PROVE Run!Spec => []Run!TypeOK
<1>1. Run!Init => Launched
  BY LaunchInit
<1>2. Launched /\ [Run!Next]_(Run!vars) => Launched'
  BY LaunchedNext
<1>3. Launched => Run!TypeOK
  BY DEF Launched
<1>4. QED
  BY <1>1, <1>2, <1>3, PTL DEF Run!Spec

\* CandidateRunner: launchers of one commit share a name and a directory and keep out of each
\* other's way: one of them asks the paid cases, what is completed was asked of its own
\* container amid the production its preflight saw, and nobody removes another's container.
THEOREM LaunchesSound == ASSUME Run!Assumptions PROVE Run!Spec => Run!LaunchIsSound
<1>1. Run!Init => Launched
  BY LaunchInit
<1>2. Launched /\ [Run!Next]_(Run!vars) => Launched'
  BY LaunchedNext
<1>3. Launched => Run!OneAsk /\ Run!CompletedSound /\ Run!PublishedGone /\ Run!NothingLeft
  BY LaunchedIsSound
<1>4. Launched /\ [Run!Next]_(Run!vars) => [Run!KeepsForeign]_(Run!vars)
  BY ForeignKept
<1>5. QED
  BY <1>1, <1>2, <1>3, <1>4, PTL DEF Run!Spec, Run!LaunchIsSound

-----------------------------------------------------------------------------
(* The reservation of an evaluation's cost (CostLedger).                   *)

CONSTANTS
  Runners, Requests, Window, RollingCap, RoutineMaxCost, RoutineMaxCases, CaseCosts,
  LastDay
VARIABLES day, lock, ledger, pc, req, at, place, costAsked, costSpent, last

Cost == INSTANCE CostLedger WITH
  now <- day, asked <- costAsked, spent <- costSpent, MaxTime <- LastDay

-----------------------------------------------------------------------------
(* Sums over finite sets.                                                  *)

Some(s) == CHOOSE x \in s : TRUE

\* The function that a sum over S is taken from, for the weights w.
IsSum(g, w, S) ==
  g = [s \in SUBSET S |-> IF s = {} THEN 0 ELSE w[Some(s)] + g[s \ {Some(s)}]]

Total(w, S) == (CHOOSE g : IsSum(g, w, S))[S]

LEMMA Smallest ==
  ASSUME NEW D, IsFiniteSet(D), NEW P \in SUBSET (SUBSET D), P # {}
  PROVE  \E s \in P : \A t \in P : t \subseteq s => t = s
<1> DEFINE R == StrictSubsetOrdering(D)
<1>0. IsWellFoundedOn(R, SUBSET D)
  BY FS_StrictSubsetOrderingWellFounded, FS_FiniteSubsetsOfFinite
<1> HIDE DEF R
<1>1. PICK s \in P : \A t \in P : ~ (<<t, s>> \in R)
  BY <1>0, WFMin
<1>2. QED
  BY <1>1, Zenon DEF StrictSubsetOrdering, R

LEMMA Taken == ASSUME NEW s, s # {} PROVE Some(s) \in s
  BY DEF Some

LEMMA SumsAgree ==
  ASSUME NEW D, IsFiniteSet(D), NEW w, NEW S \in SUBSET D, NEW T \in SUBSET D,
         NEW g, IsSum(g, w, S), NEW h, IsSum(h, w, T)
  PROVE  \A s \in SUBSET S : s \subseteq T => g[s] = h[s]
<1> DEFINE P == {s \in SUBSET S : s \subseteq T /\ g[s] # h[s]}
<1>1. SUFFICES ASSUME P # {} PROVE FALSE
  OBVIOUS
<1>2. PICK s \in P : \A t \in P : t \subseteq s => t = s
  <2>1. P \in SUBSET (SUBSET D)
      OBVIOUS
  <2> HIDE DEF P
  <2>2. QED
      BY <1>1, <2>1, Smallest
<1>3. CASE s = {}
  BY <1>2, <1>3 DEF IsSum
<1>4. CASE s # {}
  <2> DEFINE t == s \ {Some(s)}
  <2>1. t \subseteq s /\ t # s
      BY <1>4, Taken
  <2>2. g[t] = h[t]
      BY <1>2, <2>1
  <2>3. g[s] = w[Some(s)] + g[t] /\ h[s] = w[Some(s)] + h[t]
      BY <1>2, <1>4, Zenon DEF IsSum
  <2>4. QED
      BY <1>2, <2>2, <2>3
<1>5. QED
  BY <1>3, <1>4

LEMMA SumExists ==
  ASSUME NEW D, IsFiniteSet(D), NEW w
  PROVE  \A S \in SUBSET D : \E g : IsSum(g, w, S)
<1> DEFINE P == {S \in SUBSET D : \A g : ~IsSum(g, w, S)}
<1>1. SUFFICES ASSUME P # {} PROVE FALSE
  OBVIOUS
<1>2. PICK S \in P : \A t \in P : t \subseteq S => t = S
  <2>1. P \in SUBSET (SUBSET D)
      OBVIOUS
  <2> HIDE DEF P
  <2>2. QED
      BY <1>1, <2>1, Smallest
<1> DEFINE f(s) == CHOOSE g : IsSum(g, w, s)
           h == [s \in SUBSET S |->
                   IF s = {} THEN 0 ELSE w[Some(s)] + f(s \ {Some(s)})[s \ {Some(s)}]]
<1>3. ASSUME NEW s \in SUBSET S, s # S PROVE IsSum(f(s), w, s)
  BY <1>2, <1>3
<1>4. ASSUME NEW s \in SUBSET S, s # S PROVE h[s] = f(s)[s]
  <2>1. IsSum(f(s), w, s)
      BY <1>3, <1>4
  <2>2. CASE s = {}
      BY <2>1, <2>2 DEF IsSum
  <2>3. CASE s # {}
    <3> DEFINE t == s \ {Some(s)}
    <3>1. t \in SUBSET s /\ t # s /\ t \in SUBSET S /\ t # S
        BY <2>3, Taken
    <3>2. IsSum(f(t), w, t)
        BY <1>3, <3>1
    <3> HIDE DEF f
    <3>3. f(s)[t] = f(t)[t]
        BY <1>2, <2>1, <3>1, <3>2, SumsAgree
    <3>4. f(s)[s] = w[Some(s)] + f(s)[t]
        BY <2>1, <2>3, Zenon DEF IsSum
    <3>5. h[s] = w[Some(s)] + f(t)[t]
        BY <2>3, Zenon
    <3>6. QED
        BY <3>3, <3>4, <3>5
  <2>4. QED
      BY <2>2, <2>3
<1>5. \A s \in SUBSET S : s # {} => s \ {Some(s)} \in SUBSET S /\ s \ {Some(s)} # S
  BY Taken
<1> HIDE DEF f
<1>6. h = [s \in SUBSET S |-> IF s = {} THEN 0 ELSE w[Some(s)] + h[s \ {Some(s)}]]
  <2>1. \A s \in SUBSET S : (IF s = {} THEN 0 ELSE w[Some(s)] + f(s \ {Some(s)})[s \ {Some(s)}])
                            = (IF s = {} THEN 0 ELSE w[Some(s)] + h[s \ {Some(s)}])
      BY <1>4, <1>5
  <2>2. QED
      BY <2>1
<1>7. IsSum(h, w, S)
  BY <1>6 DEF IsSum
<1>8. QED
  BY <1>2, <1>7

LEMMA TotalSteps ==
  ASSUME NEW D, IsFiniteSet(D), NEW w, NEW S \in SUBSET D
  PROVE  /\ Total(w, {}) = 0
         /\ S # {} => Total(w, S) = w[Some(S)] + Total(w, S \ {Some(S)})
<1> DEFINE f(s) == CHOOSE g : IsSum(g, w, s)
<1>1. \A s \in SUBSET D : IsSum(f(s), w, s)
  BY SumExists
<1>2. Total(w, {}) = f({})[{}] /\ Total(w, S) = f(S)[S]
      /\ Total(w, S \ {Some(S)}) = f(S \ {Some(S)})[S \ {Some(S)}]
  BY DEF Total
<1> HIDE DEF f
<1>3. f({})[{}] = 0
  BY <1>1, Zenon DEF IsSum
<1>4. ASSUME S # {} PROVE f(S)[S] = w[Some(S)] + f(S \ {Some(S)})[S \ {Some(S)}]
  <2> DEFINE t == S \ {Some(S)}
  <2>1. t \in SUBSET D /\ t \in SUBSET S
      BY DEF Some
  <2>2. f(S)[S] = w[Some(S)] + f(S)[t]
      BY <1>1, <1>4, Zenon DEF IsSum
  <2>3. f(S)[t] = f(t)[t]
      BY <1>1, <2>1, SumsAgree
  <2>4. QED
      BY <2>2, <2>3
<1>5. QED
  BY <1>2, <1>3, <1>4

LEMMA TotalNat ==
  ASSUME NEW D, IsFiniteSet(D), NEW w \in [D -> Nat]
  PROVE  \A S \in SUBSET D : Total(w, S) \in Nat
<1> DEFINE P == {S \in SUBSET D : Total(w, S) \notin Nat}
<1>1. SUFFICES ASSUME P # {} PROVE FALSE
  OBVIOUS
<1>2. PICK s \in P : \A t \in P : t \subseteq s => t = s
  <2>1. P \in SUBSET (SUBSET D)
      OBVIOUS
  <2> HIDE DEF P
  <2>2. QED
      BY <1>1, <2>1, Smallest
<1>3. s # {}
  <2>1. Total(w, {}) = 0
      BY TotalSteps, Zenon
  <2>2. 0 \in Nat /\ Total(w, s) \notin Nat
      OBVIOUS
  <2>3. QED
      BY <2>1, <2>2, Zenon
<1>4. Some(s) \in s
  BY <1>3, Taken
<1> DEFINE t == s \ {Some(s)}
<1>5. t \in SUBSET D /\ t # s /\ t \subseteq s
  BY <1>2, <1>4
<1>6. Total(w, t) \in Nat
  BY <1>2, <1>5
<1>7. Total(w, s) = w[Some(s)] + Total(w, t)
  BY <1>2, <1>3, TotalSteps
<1>8. w[Some(s)] \in Nat
  BY <1>2, <1>4
<1>9. QED
  BY <1>2, <1>6, <1>7, <1>8

\* Any member may be added last.
LEMMA TotalAny ==
  ASSUME NEW D, IsFiniteSet(D), NEW w \in [D -> Nat]
  PROVE  \A S \in SUBSET D : \A y \in S : Total(w, S) = w[y] + Total(w, S \ {y})
<1> DEFINE P == {S \in SUBSET D : \E y \in S : Total(w, S) # w[y] + Total(w, S \ {y})}
<1>1. SUFFICES ASSUME P # {} PROVE FALSE
  OBVIOUS
<1>2. PICK s \in P : \A t \in P : t \subseteq s => t = s
  <2>1. P \in SUBSET (SUBSET D)
      OBVIOUS
  <2> HIDE DEF P
  <2>2. QED
      BY <1>1, <2>1, Smallest
<1>3. PICK y \in s : Total(w, s) # w[y] + Total(w, s \ {y})
  BY <1>2
<1> DEFINE x == Some(s)
<1>4. x \in s
  BY <1>3, Taken
<1> HIDE DEF x
<1>5. Total(w, s) = w[x] + Total(w, s \ {x})
  BY <1>2, <1>3, TotalSteps DEF x
<1>6. x # y
  BY <1>3, <1>5
<1> DEFINE r == (s \ {x}) \ {y}
<1>7. /\ s \ {x} \in SUBSET D /\ s \ {x} # s /\ y \in s \ {x}
      /\ s \ {y} \in SUBSET D /\ s \ {y} # s /\ x \in s \ {y}
      /\ r \in SUBSET D /\ r = (s \ {y}) \ {x}
  BY <1>2, <1>3, <1>4, <1>6
<1>8. s \ {x} \notin P /\ s \ {y} \notin P
  BY <1>2, <1>7
<1> HIDE DEF r
<1>9. Total(w, s \ {x}) = w[y] + Total(w, r)
  BY <1>7, <1>8 DEF r
<1>10. Total(w, s \ {y}) = w[x] + Total(w, r)
  BY <1>7, <1>8
<1>11. w[x] \in Nat /\ w[y] \in Nat /\ Total(w, r) \in Nat
  BY <1>2, <1>3, <1>4, <1>7, TotalNat
<1>12. QED
  BY <1>3, <1>5, <1>9, <1>10, <1>11

LEMMA TotalGrows ==
  ASSUME NEW D, IsFiniteSet(D), NEW w \in [D -> Nat]
  PROVE  \A S \in SUBSET D : \A T \in SUBSET S : Total(w, T) <= Total(w, S)
<1> DEFINE P == {S \in SUBSET D : \E T \in SUBSET S : ~ (Total(w, T) <= Total(w, S))}
<1>1. SUFFICES ASSUME P # {} PROVE FALSE
  OBVIOUS
<1>2. PICK s \in P : \A t \in P : t \subseteq s => t = s
  <2>1. P \in SUBSET (SUBSET D)
      OBVIOUS
  <2> HIDE DEF P
  <2>2. QED
      BY <1>1, <2>1, Smallest
<1>3. PICK T \in SUBSET s : ~ (Total(w, T) <= Total(w, s))
  BY <1>2
<1>4. Total(w, T) \in Nat /\ Total(w, s) \in Nat
  BY <1>2, <1>3, TotalNat
<1>5. PICK y \in s : y \notin T
  BY <1>3, <1>4
<1>6. s \ {y} \in SUBSET D /\ T \in SUBSET (s \ {y}) /\ s \ {y} # s
  BY <1>2, <1>3, <1>5
<1>7. Total(w, T) <= Total(w, s \ {y})
  BY <1>2, <1>6
<1>8. Total(w, s) = w[y] + Total(w, s \ {y}) /\ w[y] \in Nat /\ Total(w, s \ {y}) \in Nat
  BY <1>2, <1>5, <1>6, TotalAny, TotalNat
<1>9. QED
  BY <1>3, <1>4, <1>7, <1>8

\* Only the weights of the members count.
LEMMA TotalSame ==
  ASSUME NEW S, NEW w, NEW v, \A x \in S : w[x] = v[x]
  PROVE  Total(w, S) = Total(v, S)
<1>1. \A s \in SUBSET S : s # {} => Some(s) \in S
  BY Taken
<1>2. ASSUME NEW g PROVE IsSum(g, w, S) <=> IsSum(g, v, S)
  <2>1. \A s \in SUBSET S :
          (IF s = {} THEN 0 ELSE w[Some(s)] + g[s \ {Some(s)}]) =
          (IF s = {} THEN 0 ELSE v[Some(s)] + g[s \ {Some(s)}])
      BY <1>1
  <2>2. QED
      BY <2>1 DEF IsSum
<1>3. QED
  BY <1>2 DEF Total

Caps(l) == [i \in DOMAIN l |-> l[i].cap]
RoutineOf(l, S) == {i \in S : ~l[i].full}

LEMMA RoutineTotal ==
  ASSUME NEW l, NEW S \in SUBSET DOMAIN l
  PROVE  Cost!RoutineSum(l, S) = Total(Caps(l), RoutineOf(l, S))
<1> DEFINE T == RoutineOf(l, S)
           IsSumOf(g) == g = [s \in SUBSET T |->
                                IF s = {} THEN 0
                                ELSE l[CHOOSE x \in s : TRUE].cap
                                       + g[s \ {CHOOSE x \in s : TRUE}]]
<1>1. Cost!RoutineSum(l, S) = (CHOOSE g : IsSumOf(g))[T]
  BY DEF Cost!RoutineSum, Cost!MapThenSumSet, Cost!MapThenFoldSet, RoutineOf
<1>2. \A x \in T : x \in DOMAIN l /\ Caps(l)[x] = l[x].cap
  BY DEF RoutineOf, Caps
<1>3. ASSUME NEW g PROVE IsSumOf(g) <=> IsSum(g, Caps(l), T)
  <2>1. \A s \in SUBSET T :
          (IF s = {} THEN 0 ELSE l[Some(s)].cap + g[s \ {Some(s)}]) =
          (IF s = {} THEN 0 ELSE Caps(l)[Some(s)] + g[s \ {Some(s)}])
    <3> HIDE DEF T
    <3> QED
        BY <1>2, Taken
  <2>2. QED
      BY <2>1 DEF IsSum, Some
<1> HIDE DEF T, IsSumOf
<1>4. (CHOOSE g : IsSumOf(g)) = (CHOOSE g : IsSum(g, Caps(l), T))
  BY <1>3
<1>5. QED
  BY <1>1, <1>4 DEF Total, T

-----------------------------------------------------------------------------
(* The invariant of the ledger and its runners.                            *)

\* Whoever is at one of these holds the lock, and at one of these has a record of its own.
Holding == {"locked", "allowed", "writing", "reserved", "leaving"}
Filing  == {"writing", "reserved", "asking", "done"}

LedgerTyped ==
  /\ day \in 0..LastDay
  /\ lock \in Runners \cup {None}
  /\ ledger \in Seq(Cost!EntryShape)
  /\ pc \in [Runners -> Holding \cup Filing \cup {"idle", "timed", "refused", "dead"}]
  /\ req \in [Runners -> Requests \cup {None}]
  /\ at \in [Runners -> 0..LastDay]
  /\ place \in [Runners -> 0..Len(ledger)]
  /\ costAsked \in [Runners -> Nat]
  /\ costSpent \in [Runners -> Nat]
  /\ last \in [Runners -> Nat]
  /\ \A r \in Runners : last[r] \in CaseCosts \cup {0}

Holds(r)   == pc[r] \in Holding => lock = r
Started(r) == pc[r] # "idle" => req[r] \in Requests /\ Cost!Acceptable(req[r])

\* From the scan to the record nothing can be written: what the scan allowed is allowed.
Granted(r) ==
  pc[r] = "allowed" => Cost!Readable(ledger, at[r]) /\ Cost!Allowed(ledger, req[r], at[r])

Filed(r) ==
  pc[r] \in Filing =>
    /\ place[r] \in DOMAIN ledger
    /\ ledger[place[r]].cap = req[r].cap
    /\ pc[r] # "writing" => ledger[place[r]].whole

Spending(r) ==
  /\ pc[r] \notin {"asking", "done"} => costAsked[r] = 0 /\ costSpent[r] = 0
  /\ pc[r] = "asking" => costAsked[r] < req[r].cases /\ costSpent[r] < req[r].cap
  /\ costAsked[r] > 0 => costAsked[r] <= req[r].cases /\ costSpent[r] - last[r] < req[r].cap

Runner(r) == Holds(r) /\ Started(r) /\ Granted(r) /\ Filed(r) /\ Spending(r)

OwnPlaces ==
  \A r, s \in Runners : r # s /\ place[r] = place[s] => place[r] = 0

\* The limits hold of all the records, complete or not: an incomplete one may be completed.
RoutineKept ==
  \A t \in 0..LastDay :
    Cost!RoutineSum(ledger, {i \in DOMAIN ledger : ledger[i].at \in t..(t + Window)})
      <= RollingCap

FullKept ==
  \A i, j \in DOMAIN ledger :
    i < j /\ ledger[i].full /\ ledger[j].full =>
      /\ ledger[i].sha # ledger[j].sha
      /\ ledger[j].at - ledger[i].at <= Window => ledger[j].waived = i

Reserved ==
  /\ LedgerTyped
  /\ \A r \in Runners : Runner(r)
  /\ OwnPlaces /\ RoutineKept /\ FullKept /\ Cost!ReferenceOnce

LEMMA LedgerConstants ==
  ASSUME Cost!Assumptions
  PROVE  /\ Window \in Nat /\ RollingCap \in Nat /\ LastDay \in Nat
         /\ CaseCosts \subseteq Nat /\ None \notin Runners
         /\ \A q \in Requests : q.full \in BOOLEAN /\ q.cap \in Nat /\ q.cap > 0
                                /\ q.cases \in Nat /\ q.cases > 0
  BY DEF Cost!Assumptions

\* What is read of a record.
LEMMA EntryFields ==
  ASSUME NEW e \in Cost!EntryShape
  PROVE  /\ e.full \in BOOLEAN /\ e.whole \in BOOLEAN /\ e.cap \in Nat
         /\ e.at \in 0..LastDay /\ e.waived \in Nat
  BY DEF Cost!EntryShape

LEMMA EntriesTyped ==
  ASSUME Cost!Assumptions, LedgerTyped
  PROVE  /\ Len(ledger) \in Nat /\ DOMAIN ledger = 1..Len(ledger)
         /\ \A i \in DOMAIN ledger :
              /\ i \in Nat /\ ledger[i] \in Cost!EntryShape
              /\ ledger[i].full \in BOOLEAN /\ ledger[i].whole \in BOOLEAN
              /\ ledger[i].cap \in Nat /\ ledger[i].at \in Nat
<1>1. LastDay \in Nat
  BY LedgerConstants
<1> DEFINE E == Cost!EntryShape
<1>2. ledger \in Seq(E)
  BY DEF LedgerTyped
<1> HIDE DEF E
<1>3. Len(ledger) \in Nat /\ DOMAIN ledger = 1..Len(ledger)
      /\ \A i \in DOMAIN ledger : i \in Nat /\ ledger[i] \in E
  BY <1>2
<1>4. QED
  BY <1>1, <1>3, EntryFields DEF E

LEMMA RunnerTyped ==
  ASSUME Cost!Assumptions, LedgerTyped, NEW r \in Runners
  PROVE  /\ at[r] \in Nat /\ at[r] <= LastDay /\ costAsked[r] \in Nat /\ costSpent[r] \in Nat
         /\ last[r] \in Nat /\ place[r] \in 0..Len(ledger)
  BY LedgerConstants DEF LedgerTyped

-----------------------------------------------------------------------------
(* What a step leaves alone.                                               *)

Stands(r) ==
  /\ pc'[r] = pc[r] /\ req'[r] = req[r] /\ at'[r] = at[r] /\ place'[r] = place[r]
  /\ costAsked'[r] = costAsked[r] /\ costSpent'[r] = costSpent[r] /\ last'[r] = last[r]

\* Records are neither removed nor changed, but completed.
Grows ==
  /\ DOMAIN ledger \subseteq DOMAIN ledger'
  /\ \A i \in DOMAIN ledger :
       ledger'[i].cap = ledger[i].cap /\ (ledger[i].whole => ledger'[i].whole)

\* Only the holder of the lock writes, and only to a lock that nobody holds is it given.
Alone(r) ==
  /\ \A s \in Runners \ {r} : Stands(s)
  /\ Grows
  /\ lock \notin {r, None} => lock' = lock /\ ledger' = ledger

LEMMA RunnerStill ==
  ASSUME NEW s \in Runners, Stands(s), Runner(s), Grows,
         lock = s => lock' = s /\ ledger' = ledger
  PROVE  Runner(s)'
<1>1. Holds(s)'
  BY DEF Runner, Holds, Stands
<1>2. Started(s)'
  BY DEF Runner, Started, Stands
<1>3. Granted(s)'
  <2>1. SUFFICES ASSUME pc'[s] = "allowed"
                 PROVE  Cost!Readable(ledger', at'[s]) /\ Cost!Allowed(ledger', req'[s], at'[s])
      BY DEF Granted
  <2>2. pc[s] = "allowed" /\ at'[s] = at[s] /\ req'[s] = req[s]
      BY <2>1 DEF Stands
  <2>3. lock = s
      BY <2>2 DEF Runner, Holds, Holding
  <2>4. ledger' = ledger
      BY <2>3
  <2>5. QED
      BY <2>2, <2>4 DEF Runner, Granted
<1>4. Filed(s)'
  BY DEF Runner, Filed, Stands, Grows
<1>5. Spending(s)'
  BY DEF Runner, Spending, Stands
<1>6. QED
  BY <1>1, <1>2, <1>3, <1>4, <1>5 DEF Runner

LEMMA OtherRunners ==
  ASSUME Cost!Assumptions, NEW r \in Runners, Alone(r), \A s \in Runners : Runner(s), Runner(r)'
  PROVE  \A s \in Runners : Runner(s)'
<1> SUFFICES ASSUME NEW s \in Runners, s # r PROVE Runner(s)'
  OBVIOUS
<1>1. s # None
  BY DEF Cost!Assumptions
<1>2. Stands(s) /\ Grows /\ (lock = s => lock' = s /\ ledger' = ledger)
  BY <1>1 DEF Alone
<1>3. QED
  BY <1>2, RunnerStill

\* A step that leaves the ledger alone leaves it within its limits.
LEMMA KeptAlike ==
  ASSUME RoutineKept, FullKept, Cost!ReferenceOnce, ledger' = ledger
  PROVE  (RoutineKept /\ FullKept /\ Cost!ReferenceOnce)'
  BY DEF RoutineKept, FullKept, Cost!ReferenceOnce

LEMMA PlacesAlike ==
  ASSUME OwnPlaces, place' = place
  PROVE  OwnPlaces'
  BY DEF OwnPlaces

LEMMA ReservedInit == ASSUME Cost!Assumptions, Cost!Init PROVE Reserved
<1>1. LedgerTyped
  BY LedgerConstants DEF Cost!Init, LedgerTyped, Holding, Filing
<1>2. \A r \in Runners : Runner(r)
  BY DEF Cost!Init, Runner, Holds, Started, Granted, Filed, Spending, Holding, Filing
<1>3. OwnPlaces /\ FullKept /\ Cost!ReferenceOnce
  BY DEF Cost!Init, OwnPlaces, FullKept, Cost!ReferenceOnce
<1>4. RoutineKept
  <2>1. \A t : {i \in DOMAIN ledger : ledger[i].at \in t..(t + Window)} = {}
      BY DEF Cost!Init
  <2>2. RoutineOf(ledger, {}) = {}
      BY DEF RoutineOf
  <2>3. Cost!RoutineSum(ledger, {}) = Total(Caps(ledger), {})
      BY <2>2, RoutineTotal
  <2>4. Total(Caps(ledger), {}) = 0
      BY FS_EmptySet, TotalSteps, Zenon
  <2>5. 0 <= RollingCap
      BY LedgerConstants
  <2>6. Cost!RoutineSum(ledger, {}) <= RollingCap
      BY <2>3, <2>4, <2>5
  <2>7. QED
      BY <2>1, <2>6, Zenon DEF RoutineKept
<1>5. QED
  BY <1>1, <1>2, <1>3, <1>4 DEF Reserved

-----------------------------------------------------------------------------
(* The steps that write no record.                                         *)

\* A step of r that leaves the ledger and the places alone needs to be looked at for r only.
LEMMA NoRecord ==
  ASSUME Cost!Assumptions, Reserved, NEW r \in Runners, LedgerTyped', Runner(r)',
         \A s \in Runners \ {r} : Stands(s), ledger' = ledger, place' = place,
         lock \notin {r, None} => lock' = lock
  PROVE  Reserved'
<1>1. Alone(r)
  BY DEF Alone, Grows
<1>2. \A s \in Runners : Runner(s)'
  BY <1>1, OtherRunners DEF Reserved
<1>3. OwnPlaces'
  BY PlacesAlike DEF Reserved
<1>4. (RoutineKept /\ FullKept /\ Cost!ReferenceOnce)'
  BY KeptAlike DEF Reserved
<1>5. QED
  BY <1>2, <1>3, <1>4 DEF Reserved

LEMMA ReservedStart ==
  ASSUME Cost!Assumptions, Reserved, NEW r \in Runners, Cost!Start(r)
  PROVE  Reserved'
<1>1. PICK q \in Requests : Cost!Acceptable(q) /\ req' = [req EXCEPT ![r] = q]
  BY DEF Cost!Start
<1>2. LedgerTyped'
  BY <1>1 DEF Reserved, LedgerTyped, Cost!Start, Cost!Goto
<1>3. pc'[r] = "timed" /\ req'[r] = q /\ \A s \in Runners \ {r} : Stands(s)
  BY <1>1 DEF Reserved, LedgerTyped, Cost!Start, Cost!Goto, Stands
<1>4. Runner(r)'
  <2>1. Spending(r)'
      BY <1>3 DEF Reserved, Runner, Spending, Cost!Start
  <2>2. QED
      BY <1>1, <1>3, <2>1 DEF Runner, Holds, Started, Granted, Filed, Holding, Filing
<1>5. QED
  BY <1>2, <1>3, <1>4, NoRecord DEF Cost!Start

LEMMA ReservedLock ==
  ASSUME Cost!Assumptions, Reserved, NEW r \in Runners, Cost!Lock(r)
  PROVE  Reserved'
<1>1. LedgerTyped'
  BY DEF Reserved, LedgerTyped, Cost!Lock, Cost!Goto, Holding
<1>2. pc'[r] \in {"locked", "refused"} /\ (pc'[r] = "locked" => lock' = r)
      /\ req'[r] = req[r] /\ \A s \in Runners \ {r} : Stands(s)
  BY DEF Reserved, LedgerTyped, Cost!Lock, Cost!Goto, Stands
<1>3. Runner(r)'
  <2>1. Spending(r)' /\ Started(r)'
      BY <1>2 DEF Reserved, Runner, Spending, Started, Cost!Lock
  <2>2. QED
      BY <1>2, <2>1 DEF Runner, Holds, Granted, Filed, Holding, Filing
<1>4. lock \notin {r, None} => lock' = lock
  BY DEF Cost!Lock
<1>5. QED
  BY <1>1, <1>2, <1>3, <1>4, NoRecord DEF Cost!Lock

LEMMA ReservedScan ==
  ASSUME Cost!Assumptions, Reserved, NEW r \in Runners, Cost!Scan(r)
  PROVE  Reserved'
<1>1. LedgerTyped'
  BY DEF Reserved, LedgerTyped, Cost!Scan, Cost!Goto, Holding
<1>2. /\ pc'[r] \in {"allowed", "leaving"} /\ req'[r] = req[r] /\ at'[r] = at[r]
      /\ pc'[r] = "allowed" => Cost!Readable(ledger, at[r]) /\ Cost!Allowed(ledger, req[r], at[r])
      /\ \A s \in Runners \ {r} : Stands(s)
  BY DEF Reserved, LedgerTyped, Cost!Scan, Cost!Goto, Stands
<1>3. Runner(r)'
  <2>1. Spending(r)' /\ Started(r)' /\ Holds(r)'
      BY <1>2 DEF Reserved, Runner, Spending, Started, Holds, Holding, Cost!Scan
  <2>2. Granted(r)'
      BY <1>2 DEF Granted, Cost!Scan
  <2>3. QED
      BY <1>2, <2>1, <2>2 DEF Runner, Filed, Filing
<1>4. QED
  BY <1>1, <1>2, <1>3, NoRecord DEF Cost!Scan

LEMMA ReservedUnlock ==
  ASSUME Cost!Assumptions, Reserved, NEW r \in Runners, Cost!Unlock(r)
  PROVE  Reserved'
<1>1. LedgerTyped'
  BY DEF Reserved, LedgerTyped, Cost!Unlock, Cost!Goto, Filing
<1>2. /\ pc'[r] \in {"asking", "refused"} /\ pc[r] \in {"reserved", "leaving"}
      /\ pc'[r] = "asking" => pc[r] = "reserved"
      /\ req'[r] = req[r] /\ place'[r] = place[r]
      /\ costAsked'[r] = costAsked[r] /\ costSpent'[r] = costSpent[r]
      /\ \A s \in Runners \ {r} : Stands(s)
  BY DEF Reserved, LedgerTyped, Cost!Unlock, Cost!Goto, Stands
<1>3. Started(r)' /\ Holds(r)'
  BY <1>2 DEF Reserved, Runner, Started, Holds, Holding
<1>4. Granted(r)' /\ Filed(r)'
  BY <1>2 DEF Reserved, Runner, Granted, Filed, Filing, Cost!Unlock
<1>5. Spending(r)'
  <2>1. req[r] \in Requests /\ costAsked[r] = 0 /\ costSpent[r] = 0
      BY <1>2 DEF Reserved, Runner, Started, Spending
  <2>2. QED
      BY <1>2, <2>1, LedgerConstants DEF Spending
<1>6. lock = r
  BY <1>2 DEF Reserved, Runner, Holds, Holding
<1>7. QED
  BY <1>1, <1>2, <1>3, <1>4, <1>5, <1>6, NoRecord DEF Cost!Unlock, Runner

LEMMA ReservedAsk ==
  ASSUME Cost!Assumptions, Reserved, NEW r \in Runners, Cost!Ask(r)
  PROVE  Reserved'
<1>1. PICK c \in CaseCosts :
        /\ last' = [last EXCEPT ![r] = c]
        /\ costSpent' = [costSpent EXCEPT ![r] = @ + c]
        /\ \/ Cost!Goto(r, "done")
           \/ costAsked[r] + 1 < req[r].cases /\ costSpent[r] + c < req[r].cap /\ UNCHANGED pc
  BY DEF Cost!Ask
<1>2. c \in Nat /\ costAsked[r] \in Nat /\ costSpent[r] \in Nat
  BY LedgerConstants DEF Reserved, LedgerTyped
<1>3. LedgerTyped'
  <2>1. costAsked' \in [Runners -> Nat] /\ costSpent' \in [Runners -> Nat]
     /\ last' \in [Runners -> Nat]
    <3>1. costAsked[r] + 1 \in Nat /\ costSpent[r] + c \in Nat
        BY <1>2
    <3>2. /\ costAsked \in [Runners -> Nat] /\ costSpent \in [Runners -> Nat]
          /\ last \in [Runners -> Nat] /\ costAsked' = [costAsked EXCEPT ![r] = costAsked[r] + 1]
          /\ costSpent' = [costSpent EXCEPT ![r] = costSpent[r] + c]
        BY <1>1 DEF Reserved, LedgerTyped, Cost!Ask
    <3>3. QED
        BY <1>1, <1>2, <3>1, <3>2
  <2>2. \A s \in Runners : last'[s] \in CaseCosts \cup {0}
      BY <1>1 DEF Reserved, LedgerTyped
  <2>3. pc' \in [Runners -> Holding \cup Filing \cup {"idle", "timed", "refused", "dead"}]
      BY <1>1 DEF Reserved, LedgerTyped, Cost!Goto, Filing
  <2>4. QED
      BY <2>1, <2>2, <2>3 DEF Reserved, LedgerTyped, Cost!Ask
<1>4. /\ pc[r] = "asking" /\ pc'[r] \in {"asking", "done"}
      /\ req'[r] = req[r] /\ place'[r] = place[r]
      /\ costAsked'[r] = costAsked[r] + 1 /\ costSpent'[r] = costSpent[r] + c /\ last'[r] = c
      /\ pc'[r] = "asking" => costAsked[r] + 1 < req[r].cases /\ costSpent[r] + c < req[r].cap
      /\ \A s \in Runners \ {r} : Stands(s)
  BY <1>1 DEF Reserved, LedgerTyped, Cost!Ask, Cost!Goto, Stands
<1>5. Started(r)' /\ Holds(r)' /\ Granted(r)' /\ Filed(r)'
  BY <1>4 DEF Reserved, Runner, Started, Holds, Holding, Granted, Filed, Filing, Cost!Ask
<1>6. Spending(r)'
  <2>1. req[r] \in Requests /\ costAsked[r] < req[r].cases /\ costSpent[r] < req[r].cap
      BY <1>4 DEF Reserved, Runner, Started, Spending
  <2>2. req[r].cases \in Nat /\ req[r].cap \in Nat
      BY <2>1, LedgerConstants
  <2>3. QED
      BY <1>2, <1>4, <2>1, <2>2 DEF Spending
<1>7. QED
  BY <1>3, <1>4, <1>5, <1>6, NoRecord DEF Cost!Ask, Runner

LEMMA ReservedCrash ==
  ASSUME Cost!Assumptions, Reserved, NEW r \in Runners, Cost!Crash(r)
  PROVE  Reserved'
<1>1. LedgerTyped'
  BY DEF Reserved, LedgerTyped, Cost!Crash, Cost!Goto
<1>2. /\ pc'[r] = "dead" /\ pc[r] \in Holding
      /\ \A s \in Runners \ {r} : Stands(s)
  BY DEF Reserved, LedgerTyped, Cost!Crash, Cost!Goto, Stands, Holding
<1>3. Runner(r)'
  <2>1. Spending(r)' /\ Started(r)'
      BY <1>2 DEF Reserved, Runner, Spending, Started, Holding, Cost!Crash
  <2>2. QED
      BY <1>2, <2>1 DEF Runner, Holds, Granted, Filed, Holding, Filing
<1>4. QED
  BY <1>1, <1>2, <1>3, NoRecord DEF Cost!Crash

\* The lock of a process that is gone is the lock of no runner that may write.
LEMMA ReservedRemoveLock ==
  ASSUME Cost!Assumptions, Reserved, Cost!RemoveLock
  PROVE  Reserved'
<1>1. LedgerTyped'
  BY DEF Reserved, LedgerTyped, Cost!RemoveLock
<1>2. ASSUME NEW s \in Runners PROVE Runner(s)'
  <2>1. Stands(s) /\ Runner(s) /\ Grows
      BY DEF Reserved, Cost!RemoveLock, Stands, Grows
  <2>2. pc[s] \notin Holding
      BY <2>1 DEF Cost!RemoveLock, Runner, Holds, Holding
  <2>3. Holds(s)' /\ Granted(s)'
      BY <2>1, <2>2 DEF Stands, Holds, Granted, Holding
  <2>4. Started(s)' /\ Filed(s)' /\ Spending(s)'
      BY <2>1 DEF Stands, Grows, Runner, Started, Filed, Spending
  <2>5. QED
      BY <2>3, <2>4 DEF Runner
<1>3. (RoutineKept /\ FullKept /\ Cost!ReferenceOnce)' /\ OwnPlaces'
  BY KeptAlike, PlacesAlike DEF Reserved, Cost!RemoveLock
<1>4. QED
  BY <1>1, <1>2, <1>3 DEF Reserved

LEMMA ReservedTick ==
  ASSUME Cost!Assumptions, Reserved, day' \in 0..LastDay,
         UNCHANGED <<lock, ledger, pc, req, at, place, costAsked, costSpent, last>>
  PROVE  Reserved'
<1>1. LedgerTyped'
  BY DEF Reserved, LedgerTyped
<1>2. ASSUME NEW s \in Runners PROVE Runner(s)'
  <2>1. Stands(s) /\ Runner(s) /\ Grows
      BY DEF Reserved, Stands, Grows
  <2>2. QED
      BY <2>1, RunnerStill
<1>3. (RoutineKept /\ FullKept /\ Cost!ReferenceOnce)' /\ OwnPlaces'
  BY KeptAlike, PlacesAlike DEF Reserved
<1>4. QED
  BY <1>1, <1>2, <1>3 DEF Reserved

-----------------------------------------------------------------------------
(* The record is completed.                                                *)

LEMMA Completed ==
  ASSUME NEW e \in Cost!EntryShape
  PROVE  LET c == [e EXCEPT !.whole = TRUE]
         IN /\ c \in Cost!EntryShape /\ c.whole
            /\ c.full = e.full /\ c.cap = e.cap /\ c.sha = e.sha /\ c.at = e.at
            /\ c.approval = e.approval /\ c.waiver = e.waiver /\ c.waived = e.waived
  BY DEF Cost!EntryShape

\* The sum over the same records, complete or not, is the same.
LEMMA RoutineAlike ==
  ASSUME NEW l, NEW m, NEW S, S \subseteq DOMAIN l, S \subseteq DOMAIN m,
         \A i \in S : l[i].cap = m[i].cap /\ l[i].full = m[i].full
  PROVE  Cost!RoutineSum(l, S) = Cost!RoutineSum(m, S)
<1> DEFINE R == RoutineOf(l, S)
<1>1. R = RoutineOf(m, S)
  BY DEF RoutineOf
<1>2. Cost!RoutineSum(l, S) = Total(Caps(l), R) /\ Cost!RoutineSum(m, S) = Total(Caps(m), R)
  BY <1>1, RoutineTotal
<1>3. \A i \in R : Caps(l)[i] = Caps(m)[i]
  BY DEF RoutineOf, Caps
<1> HIDE DEF R
<1>4. Total(Caps(l), R) = Total(Caps(m), R)
  BY <1>3, TotalSame
<1>5. QED
  BY <1>2, <1>4

LEMMA KeptCompleted ==
  ASSUME RoutineKept, FullKept, Cost!ReferenceOnce, DOMAIN ledger' = DOMAIN ledger,
         \A i \in DOMAIN ledger :
           /\ ledger'[i].full = ledger[i].full /\ ledger'[i].cap = ledger[i].cap
           /\ ledger'[i].sha = ledger[i].sha /\ ledger'[i].at = ledger[i].at
           /\ ledger'[i].approval = ledger[i].approval
           /\ ledger'[i].waiver = ledger[i].waiver /\ ledger'[i].waived = ledger[i].waived
  PROVE  (RoutineKept /\ FullKept /\ Cost!ReferenceOnce)'
<1>1. RoutineKept'
  <2> SUFFICES ASSUME NEW t \in 0..LastDay
               PROVE  Cost!RoutineSum(ledger', {i \in DOMAIN ledger' :
                                             ledger'[i].at \in t..(t + Window)}) <= RollingCap
      BY DEF RoutineKept
  <2> DEFINE S == {i \in DOMAIN ledger : ledger[i].at \in t..(t + Window)}
  <2>1. S = {i \in DOMAIN ledger' : ledger'[i].at \in t..(t + Window)}
      OBVIOUS
  <2>2. S \subseteq DOMAIN ledger /\ S \subseteq DOMAIN ledger'
      OBVIOUS
  <2>3. Cost!RoutineSum(ledger, S) <= RollingCap
      BY DEF RoutineKept
  <2> HIDE DEF S
  <2>4. Cost!RoutineSum(ledger', S) = Cost!RoutineSum(ledger, S)
      BY <2>2, RoutineAlike
  <2>5. QED
      BY <2>1, <2>3, <2>4
<1>2. FullKept'
  BY DEF FullKept
<1>3. Cost!ReferenceOnce'
  BY DEF Cost!ReferenceOnce
<1>4. QED
  BY <1>1, <1>2, <1>3

LEMMA ReservedWrite ==
  ASSUME Cost!Assumptions, Reserved, NEW r \in Runners, Cost!Write(r)
  PROVE  Reserved'
<1> DEFINE p == place[r]
<1>1. /\ pc[r] = "writing" /\ p \in DOMAIN ledger /\ ledger[p].cap = req[r].cap /\ lock = r
      /\ req[r] \in Requests /\ Cost!Acceptable(req[r]) /\ costAsked[r] = 0 /\ costSpent[r] = 0
  BY DEF Cost!Write, Reserved, Runner, Filed, Filing, Holds, Holding, Started, Spending
<1>2. /\ req'[r] = req[r] /\ place'[r] = p /\ lock' = lock
      /\ costAsked'[r] = costAsked[r] /\ costSpent'[r] = costSpent[r]
      /\ \A s \in Runners \ {r} : Stands(s)
  BY DEF Reserved, LedgerTyped, Cost!Write, Cost!Goto, Stands
<1>3. CASE pc'[r] = "leaving" /\ ledger' = ledger /\ Cost!Goto(r, "leaving")
  <2>1. LedgerTyped'
      BY <1>3 DEF Reserved, LedgerTyped, Cost!Write, Cost!Goto, Holding
  <2>2. Runner(r)'
      BY <1>1, <1>2, <1>3 DEF Runner, Holds, Started, Granted, Filed, Spending, Holding, Filing
  <2>3. QED
      BY <1>2, <1>3, <2>1, <2>2, NoRecord DEF Cost!Write
<1>4. CASE /\ pc'[r] = "reserved" /\ Cost!Goto(r, "reserved")
           /\ ledger' = [ledger EXCEPT ![p].whole = TRUE]
  <2> DEFINE E == Cost!EntryShape
             c == [ledger[p] EXCEPT !.whole = TRUE]
  <2>1. /\ ledger[p] \in E /\ c \in E /\ c.whole
        /\ c.full = ledger[p].full /\ c.cap = ledger[p].cap /\ c.sha = ledger[p].sha
        /\ c.at = ledger[p].at /\ c.approval = ledger[p].approval
        /\ c.waiver = ledger[p].waiver /\ c.waived = ledger[p].waived
      BY <1>1, EntriesTyped, Completed DEF Reserved
  <2>2. ledger \in Seq(E) /\ ledger' = [ledger EXCEPT ![p] = c]
      BY <1>4 DEF Reserved, LedgerTyped
  <2> HIDE DEF E, c
  <2>3. ledger' \in Seq(E) /\ Len(ledger') = Len(ledger) /\ DOMAIN ledger' = DOMAIN ledger
        /\ ledger'[p] = c /\ \A i \in DOMAIN ledger \ {p} : ledger'[i] = ledger[i]
      BY <1>1, <2>1, <2>2
  <2>4. \A i \in DOMAIN ledger :
          /\ ledger'[i].full = ledger[i].full /\ ledger'[i].cap = ledger[i].cap
          /\ ledger'[i].sha = ledger[i].sha /\ ledger'[i].at = ledger[i].at
          /\ ledger'[i].approval = ledger[i].approval
          /\ ledger'[i].waiver = ledger[i].waiver /\ ledger'[i].waived = ledger[i].waived
          /\ ledger[i].whole => ledger'[i].whole
      BY <2>1, <2>3
  <2>5. LedgerTyped'
      BY <1>4, <2>3 DEF Reserved, LedgerTyped, Cost!Write, Cost!Goto, Filing, E
  <2>6. Runner(r)'
    <3>1. Filed(r)'
        BY <1>1, <1>2, <1>4, <2>1, <2>3 DEF Filed
    <3>2. QED
        BY <1>1, <1>2, <1>4, <3>1 DEF Runner, Holds, Started, Granted, Spending, Holding
  <2>7. Alone(r)
      BY <1>1, <1>2, <2>3, <2>4 DEF Alone, Grows
  <2>8. \A s \in Runners : Runner(s)'
      BY <2>6, <2>7, OtherRunners DEF Reserved
  <2>9. (RoutineKept /\ FullKept /\ Cost!ReferenceOnce)'
      BY <2>3, <2>4, KeptCompleted DEF Reserved
  <2>10. OwnPlaces'
      BY PlacesAlike DEF Reserved, Cost!Write
  <2>11. QED
      BY <2>5, <2>8, <2>9, <2>10 DEF Reserved
<1>5. QED
  <2>1. Cost!Goto(r, "reserved") => pc'[r] = "reserved"
      BY DEF Cost!Goto, Reserved, LedgerTyped
  <2>2. Cost!Goto(r, "leaving") => pc'[r] = "leaving"
      BY DEF Cost!Goto, Reserved, LedgerTyped
  <2>3. QED
      BY <1>3, <1>4, <2>1, <2>2 DEF Cost!Write

-----------------------------------------------------------------------------
(* The record is created.                                                  *)

\* A full evaluation with a waiver is allowed after the one record that the waiver names.
LEMMA PriorNamed ==
  ASSUME NEW l, NEW q, NEW t, Cost!Acceptable(q), Cost!Allowed(l, q, t), q.waiver # None
  PROVE  \E p \in DOMAIN l :
           Cost!Prior(l, q) = p /\ {i \in Cost!Recent(l, t) : l[i].full} \subseteq {p}
<1>1. Cost!FullAllowed(l, q, t)
  BY DEF Cost!Acceptable, Cost!Allowed
<1>2. PICK p \in DOMAIN l : /\ Cost!MatchingPrior(l, q.waiver) = {p}
                            /\ {i \in Cost!Recent(l, t) : l[i].full} \subseteq {p}
  BY <1>1 DEF Cost!FullAllowed
<1>3. Cost!Prior(l, q) = p
  BY <1>2 DEF Cost!Prior
<1>4. QED
  BY <1>2, <1>3

\* What is known where the record is created, of the request q, its time t and the record e.
Creates(q, t, e) ==
  /\ q \in Requests /\ Cost!Acceptable(q) /\ t \in 0..LastDay
  /\ Cost!Readable(ledger, t) /\ Cost!Allowed(ledger, q, t)
  /\ e = Cost!Entry(q, t, Cost!Prior(ledger, q))
  /\ ledger' = Append(ledger, e)

LEMMA CreatedEntry ==
  ASSUME Cost!Assumptions, LedgerTyped, NEW q, NEW t, NEW e, Creates(q, t, e)
  PROVE  /\ e \in Cost!EntryShape /\ e.full = q.full /\ e.cap = q.cap /\ e.sha = q.sha /\ e.at = t
         /\ e.approval = Cost!Approval(q) /\ e.waiver = q.waiver
         /\ e.waived = Cost!Prior(ledger, q)
         /\ ledger' \in Seq(Cost!EntryShape) /\ Len(ledger') = Len(ledger) + 1
         /\ DOMAIN ledger' = DOMAIN ledger \cup {Len(ledger) + 1}
         /\ ledger'[Len(ledger) + 1] = e
         /\ \A i \in DOMAIN ledger : i < Len(ledger) + 1 /\ ledger'[i] = ledger[i]
<1>1. Cost!Prior(ledger, q) \in Nat
  <2>1. CASE q.waiver = None
      BY <2>1 DEF Cost!Prior
  <2>2. CASE q.waiver # None
      BY <2>2, PriorNamed, EntriesTyped DEF Creates
  <2>3. QED
      BY <2>1, <2>2
<1>2. q.full \in BOOLEAN /\ q.cap \in Nat /\ q \in Requests
  BY LedgerConstants DEF Creates
<1>3. e \in Cost!EntryShape
  <2>1. Cost!Approval(q) \in {x.approval : x \in Requests} \cup {None}
      BY <1>2 DEF Cost!Approval
  <2>2. q.sha \in {x.sha : x \in Requests} /\ q.waiver \in {x.waiver : x \in Requests} \cup {None}
      BY <1>2
  <2> DEFINE shas == {x.sha : x \in Requests}
             approvals == {x.approval : x \in Requests} \cup {None}
             waivers == {x.waiver : x \in Requests} \cup {None}
  <2> HIDE DEF shas, approvals, waivers
  <2>3. t \in 0..LastDay
      BY DEF Creates
  <2>4. [full |-> q.full, cap |-> q.cap, sha |-> q.sha, at |-> t, whole |-> FALSE,
         approval |-> Cost!Approval(q), waiver |-> q.waiver, waived |-> Cost!Prior(ledger, q)]
        \in [full : BOOLEAN, cap : Nat, sha : shas, at : 0..LastDay, whole : BOOLEAN,
             approval : approvals, waiver : waivers, waived : Nat]
      BY <1>1, <1>2, <2>1, <2>2, <2>3 DEF shas, approvals, waivers
  <2>5. QED
      BY <2>4 DEF Creates, Cost!Entry, Cost!EntryShape, shas, approvals, waivers
<1>4. /\ e.full = q.full /\ e.cap = q.cap /\ e.sha = q.sha /\ e.at = t
      /\ e.approval = Cost!Approval(q) /\ e.waiver = q.waiver /\ e.waived = Cost!Prior(ledger, q)
  BY DEF Creates, Cost!Entry
<1> DEFINE E == Cost!EntryShape
<1>5. ledger \in Seq(E) /\ e \in E /\ ledger' = Append(ledger, e)
  BY <1>3 DEF LedgerTyped, Creates
<1> HIDE DEF E
<1>6. /\ ledger' \in Seq(E) /\ Len(ledger') = Len(ledger) + 1
      /\ DOMAIN ledger' = DOMAIN ledger \cup {Len(ledger) + 1}
      /\ ledger'[Len(ledger) + 1] = e
      /\ \A i \in DOMAIN ledger : i < Len(ledger) + 1 /\ ledger'[i] = ledger[i]
  BY <1>5
<1>7. QED
  BY <1>3, <1>4, <1>6 DEF E

LEMMA CreatedReference ==
  ASSUME Cost!Assumptions, LedgerTyped, Cost!ReferenceOnce, NEW q, NEW t, NEW e, Creates(q, t, e)
  PROVE  Cost!ReferenceOnce'
<1> DEFINE n == Len(ledger) + 1
           Named(x) == {x.approval, IF x.waiver = None THEN None ELSE x.waiver.id}
<1>1. DOMAIN ledger' = DOMAIN ledger \cup {n} /\ ledger'[n] = e
      /\ \A i \in DOMAIN ledger : ledger'[i] = ledger[i]
  <2>1. DOMAIN ledger' = DOMAIN ledger \cup {n}
      BY CreatedEntry, Zenon
  <2>2. QED
      BY <2>1, CreatedEntry
<1>2. e.approval = Cost!Approval(q) /\ e.waiver = q.waiver
  BY CreatedEntry
<1>3. ASSUME NEW i \in DOMAIN ledger PROVE Named(ledger[i]) \cap Named(e) \subseteq {None}
  <2>1. Cost!Approval(q) = None \/ Cost!Approval(q) \notin Cost!References(ledger[i])
      BY DEF Creates, Cost!Allowed, Cost!ApprovalUnused
  <2>2. q.waiver # None => q.waiver.id \notin Cost!References(ledger[i])
      BY DEF Creates, Cost!Allowed, Cost!WaiverUnused
  <2>3. QED
      BY <1>2, <2>1, <2>2 DEF Cost!References
<1>4. \A i, j \in DOMAIN ledger : i # j => Named(ledger[i]) \cap Named(ledger[j]) \subseteq {None}
  BY DEF Cost!ReferenceOnce
<1> HIDE DEF Named, n
<1>5. \A i, j \in DOMAIN ledger' :
        i # j => Named(ledger'[i]) \cap Named(ledger'[j]) \subseteq {None}
  BY <1>1, <1>3, <1>4
<1>6. QED
  BY <1>5 DEF Cost!ReferenceOnce, Named

LEMMA CreatedFull ==
  ASSUME Cost!Assumptions, LedgerTyped, FullKept, NEW q, NEW t, NEW e, Creates(q, t, e)
  PROVE  FullKept'
<1> DEFINE n == Len(ledger) + 1
<1>0. n \in Nat /\ \A i \in DOMAIN ledger : i \in Nat
  BY EntriesTyped
<1>1. /\ DOMAIN ledger' = DOMAIN ledger \cup {n} /\ ledger'[n] = e
      /\ \A i \in DOMAIN ledger : i < n /\ i \in Nat /\ ledger'[i] = ledger[i]
  <2>1. DOMAIN ledger' = DOMAIN ledger \cup {n}
      BY CreatedEntry, Zenon
  <2>2. QED
      BY <1>0, <2>1, CreatedEntry
<1>2. e.full = q.full /\ e.sha = q.sha /\ e.at = t /\ e.waived = Cost!Prior(ledger, q)
  BY CreatedEntry
<1>3. ASSUME NEW i \in DOMAIN ledger, ledger[i].full, e.full
      PROVE  /\ ledger[i].sha # e.sha
             /\ e.at - ledger[i].at <= Window => e.waived = i
  <2>1. Cost!FullAllowed(ledger, q, t)
      BY <1>2, <1>3 DEF Creates, Cost!Allowed
  <2>2. ledger[i].sha # e.sha
      BY <1>2, <1>3, <2>1 DEF Cost!FullAllowed
  <2>3. ASSUME e.at - ledger[i].at <= Window PROVE e.waived = i
    <3>1. t \in Nat /\ ledger[i].at \in Nat /\ Window \in Nat
        BY LedgerConstants, EntriesTyped DEF Creates
    <3>2. i \in {k \in Cost!Recent(ledger, t) : ledger[k].full}
        BY <1>2, <1>3, <2>3, <3>1 DEF Cost!Recent
    <3>3. q.waiver # None
        BY <2>1, <3>2 DEF Cost!FullAllowed
    <3>4. PICK p \in DOMAIN ledger :
            /\ Cost!Prior(ledger, q) = p
            /\ {k \in Cost!Recent(ledger, t) : ledger[k].full} \subseteq {p}
        BY <3>3, PriorNamed DEF Creates
    <3>5. QED
        BY <1>2, <3>2, <3>4
  <2>4. QED
      BY <2>2, <2>3
<1> HIDE DEF n
<1>4. SUFFICES ASSUME NEW i \in DOMAIN ledger', NEW j \in DOMAIN ledger',
                      i < j, ledger'[i].full, ledger'[j].full
               PROVE  /\ ledger'[i].sha # ledger'[j].sha
                      /\ ledger'[j].at - ledger'[i].at <= Window => ledger'[j].waived = i
  BY DEF FullKept
<1>5. CASE j = n
  <2>1. i \in DOMAIN ledger
      BY <1>0, <1>1, <1>4, <1>5
  <2>2. QED
      BY <1>1, <1>3, <1>4, <1>5, <2>1
<1>6. CASE j # n
  <2>1. i \in DOMAIN ledger /\ j \in DOMAIN ledger
      BY <1>0, <1>1, <1>4, <1>6
  <2>2. QED
      BY <1>1, <1>4, <2>1 DEF FullKept
<1>7. QED
  BY <1>5, <1>6

\* Whatever 24 hours the new record falls in, the others in them are among the recent ones.
LEMMA CreatedRoutine ==
  ASSUME Cost!Assumptions, LedgerTyped, RoutineKept, NEW q, NEW t, NEW e, Creates(q, t, e)
  PROVE  RoutineKept'
<1> DEFINE n == Len(ledger) + 1
<1>1. /\ DOMAIN ledger' = DOMAIN ledger \cup {n} /\ ledger'[n] = e /\ n \notin DOMAIN ledger
      /\ \A i \in DOMAIN ledger : ledger'[i] = ledger[i]
  <2>1. n \notin DOMAIN ledger
      BY EntriesTyped
  <2>2. DOMAIN ledger' = DOMAIN ledger \cup {n}
      BY CreatedEntry, Zenon
  <2>3. QED
      BY <2>1, <2>2, CreatedEntry
<1>2. e.full = q.full /\ e.cap = q.cap /\ e.at = t
  BY CreatedEntry
<1>3. /\ t \in Nat /\ Window \in Nat /\ RollingCap \in Nat /\ LastDay \in Nat
      /\ q.cap \in Nat
      /\ \A i \in DOMAIN ledger : ledger[i].at \in Nat
  BY LedgerConstants, EntriesTyped DEF Creates
<1>4. IsFiniteSet(DOMAIN ledger) /\ IsFiniteSet(DOMAIN ledger')
  BY EntriesTyped, CreatedEntry, FS_Interval, FS_AddElement
<1>5. Caps(ledger) \in [DOMAIN ledger -> Nat] /\ Caps(ledger') \in [DOMAIN ledger' -> Nat]
  BY <1>1, <1>2, <1>3, EntriesTyped DEF Caps
<1> HIDE DEF n
<1> SUFFICES ASSUME NEW s \in 0..LastDay
             PROVE  Cost!RoutineSum(ledger', {i \in DOMAIN ledger' :
                                           ledger'[i].at \in s..(s + Window)}) <= RollingCap
  BY DEF RoutineKept
<1> DEFINE S == {i \in DOMAIN ledger : ledger[i].at \in s..(s + Window)}
           T == {i \in DOMAIN ledger' : ledger'[i].at \in s..(s + Window)}
<1>6. Cost!RoutineSum(ledger, S) <= RollingCap
  BY DEF RoutineKept
<1>7. S \in SUBSET DOMAIN ledger /\ S \subseteq DOMAIN ledger' /\ T \in SUBSET DOMAIN ledger'
      /\ T \subseteq S \cup {n} /\ (n \notin T => T = S) /\ (n \in T => T = S \cup {n})
  BY <1>1
<1>8. Cost!RoutineSum(ledger', S) = Cost!RoutineSum(ledger, S)
  BY <1>1, <1>7, RoutineAlike
<1>9. CASE n \notin T
  BY <1>6, <1>7, <1>8, <1>9
<1>10. CASE n \in T /\ e.full
  <2>1. RoutineOf(ledger', T) = RoutineOf(ledger', S)
      BY <1>1, <1>7, <1>10 DEF RoutineOf
  <2> HIDE DEF S, T
  <2>2. Cost!RoutineSum(ledger', T) = Cost!RoutineSum(ledger', S)
      BY <1>7, <2>1, RoutineTotal
  <2>3. QED
      BY <1>6, <1>8, <2>2 DEF T
<1>11. CASE n \in T /\ ~e.full
  <2> DEFINE R == RoutineOf(ledger', S)
             Q == RoutineOf(ledger, Cost!Recent(ledger, t))
  <2>1. S \subseteq Cost!Recent(ledger, t)
    <3>1. s \in Nat /\ t \in s..(s + Window)
        BY <1>1, <1>2, <1>3, <1>11
    <3>2. QED
        BY <1>3, <3>1 DEF Cost!Recent
  <2>2. R \in SUBSET Q /\ Q \in SUBSET DOMAIN ledger /\ R \in SUBSET DOMAIN ledger
      BY <1>1, <1>7, <2>1 DEF RoutineOf, Cost!Recent
  <2>3. RoutineOf(ledger', T) = R \cup {n} /\ n \notin R
      BY <1>1, <1>7, <1>11 DEF RoutineOf
  <2> HIDE DEF S, T, R, Q
  <2>4. Cost!RoutineSum(ledger', T) = Total(Caps(ledger'), R \cup {n})
      BY <1>7, <2>3, RoutineTotal
  <2>5. Total(Caps(ledger'), R \cup {n}) = Caps(ledger')[n] + Total(Caps(ledger'), R)
    <3>1. R \cup {n} \in SUBSET DOMAIN ledger' /\ n \in R \cup {n} /\ (R \cup {n}) \ {n} = R
        BY <1>1, <2>2, <2>3
    <3>2. QED
        BY <1>4, <1>5, <3>1, TotalAny
  <2>6. Total(Caps(ledger'), R) = Total(Caps(ledger), R)
    <3>1. \A i \in R : Caps(ledger')[i] = Caps(ledger)[i]
        BY <1>1, <2>2 DEF Caps
    <3>2. QED
        BY <3>1, TotalSame
  <2>7. Total(Caps(ledger), R) <= Total(Caps(ledger), Q)
      BY <1>4, <1>5, <2>2, TotalGrows
  <2>8. Total(Caps(ledger), R) \in Nat /\ Total(Caps(ledger), Q) \in Nat
      BY <1>4, <1>5, <2>2, TotalNat
  <2>9. Caps(ledger')[n] = q.cap
      BY <1>1, <1>2 DEF Caps
  <2>10. Cost!RoutineSum(ledger, Cost!Recent(ledger, t)) = Total(Caps(ledger), Q)
    <3>1. Cost!Recent(ledger, t) \in SUBSET DOMAIN ledger
        BY DEF Cost!Recent
    <3>2. QED
        BY <3>1, RoutineTotal DEF Q
  <2>11. Cost!RoutineSum(ledger, Cost!Recent(ledger, t)) + q.cap <= RollingCap
      BY <1>2, <1>11 DEF Creates, Cost!Allowed
  <2>12. Cost!RoutineSum(ledger', T) <= RollingCap
      BY <1>3, <2>4, <2>5, <2>6, <2>7, <2>8, <2>9, <2>10, <2>11
  <2>13. QED
      BY <2>12 DEF T
<1>12. QED
  BY <1>9, <1>10, <1>11

LEMMA ReservedCreate ==
  ASSUME Cost!Assumptions, Reserved, NEW r \in Runners, Cost!Create(r)
  PROVE  Reserved'
<1> DEFINE n == Len(ledger) + 1
           q == req[r]
           t == at[r]
           e == Cost!Entry(q, t, Cost!Prior(ledger, q))
<1>1. /\ pc[r] = "allowed" /\ q \in Requests /\ t \in 0..LastDay /\ lock = r
      /\ costAsked[r] = 0 /\ costSpent[r] = 0
  BY DEF Reserved, LedgerTyped, Runner, Started, Spending, Holds, Holding, Cost!Create
<1>2. Creates(q, t, e)
  BY <1>1 DEF Creates, Reserved, Runner, Started, Granted, Cost!Create
<1>3. LedgerTyped
  BY DEF Reserved
<1>4. /\ place' = [place EXCEPT ![r] = n] /\ pc' = [pc EXCEPT ![r] = "writing"]
      /\ UNCHANGED <<day, lock, req, at, costAsked, costSpent, last>>
  BY DEF Cost!Create, Cost!Goto
<1>5. /\ pc'[r] = "writing" /\ req'[r] = q /\ place'[r] = n /\ lock' = lock
      /\ costAsked'[r] = costAsked[r] /\ costSpent'[r] = costSpent[r]
      /\ \A s \in Runners \ {r} : Stands(s)
  BY <1>3, <1>4 DEF LedgerTyped, Stands
<1> HIDE DEF q, t, e
<1>6. /\ e.cap = q.cap /\ ledger' \in Seq(Cost!EntryShape) /\ Len(ledger') = n
      /\ ledger'[n] = e /\ \A i \in DOMAIN ledger : ledger'[i] = ledger[i]
  BY <1>2, <1>3, CreatedEntry
<1>7. DOMAIN ledger' = DOMAIN ledger \cup {n}
  BY <1>2, <1>3, CreatedEntry, Zenon
<1>8. LedgerTyped'
  <2>1. place' \in [Runners -> 0..Len(ledger')]
    <3>1. /\ Len(ledger) \in Nat /\ n \in 0..Len(ledger')
          /\ \A i \in 0..Len(ledger) : i \in 0..Len(ledger')
        BY <1>3, <1>6, EntriesTyped
    <3> HIDE DEF n
    <3>2. QED
        BY <1>3, <1>4, <3>1 DEF LedgerTyped
  <2>2. pc' \in [Runners -> Holding \cup Filing \cup {"idle", "timed", "refused", "dead"}]
      BY <1>3, <1>4 DEF LedgerTyped, Holding
  <2>3. QED
      BY <1>3, <1>4, <1>6, <2>1, <2>2 DEF LedgerTyped
<1>9. Runner(r)'
  <2>1. Filed(r)'
      BY <1>5, <1>6, <1>7 DEF Filed
  <2>2. Started(r)'
      BY <1>2, <1>5 DEF Started, Creates
  <2>3. QED
      BY <1>1, <1>5, <2>1, <2>2 DEF Runner, Holds, Granted, Spending
<1>10. Alone(r)
  BY <1>1, <1>5, <1>6, <1>7 DEF Alone, Grows
<1>11. \A s \in Runners : Runner(s)'
  BY <1>9, <1>10, OtherRunners DEF Reserved
<1>12. OwnPlaces'
  <2>1. \A s \in Runners : place[s] \in Nat /\ place[s] < n
    <3> SUFFICES ASSUME NEW s \in Runners PROVE place[s] \in Nat /\ place[s] < n
        OBVIOUS
    <3> QED
        BY <1>3, RunnerTyped, EntriesTyped
  <2> HIDE DEF n
  <2>2. \A s \in Runners : place'[s] = IF s = r THEN n ELSE place[s]
      BY <1>3, <1>4 DEF LedgerTyped
  <2>3. QED
      BY <2>1, <2>2 DEF OwnPlaces, Reserved
<1>13. (RoutineKept /\ FullKept /\ Cost!ReferenceOnce)'
  BY <1>2, <1>3, CreatedRoutine, CreatedFull, CreatedReference DEF Reserved
<1>14. QED
  BY <1>8, <1>11, <1>12, <1>13 DEF Reserved

-----------------------------------------------------------------------------

LEMMA ReservedNext ==
  ASSUME Cost!Assumptions, Reserved, [Cost!Next]_(Cost!vars)
  PROVE  Reserved'
<1>1. ASSUME NEW r \in Runners, Cost!Step(r) PROVE Reserved'
  BY <1>1, ReservedStart, ReservedLock, ReservedScan, ReservedCreate, ReservedWrite,
     ReservedUnlock, ReservedAsk, ReservedCrash DEF Cost!Step
<1>2. CASE Cost!Tick
  <2>1. day' \in 0..LastDay
      BY <1>2, LedgerConstants DEF Cost!Tick, Reserved, LedgerTyped
  <2>2. QED
      BY <1>2, <2>1, ReservedTick DEF Cost!Tick
<1>3. CASE UNCHANGED Cost!vars
  <2>1. day' \in 0..LastDay
      BY <1>3 DEF Cost!vars, Reserved, LedgerTyped
  <2>2. QED
      BY <1>3, <2>1, ReservedTick DEF Cost!vars
<1>4. QED
  BY <1>1, <1>2, <1>3, ReservedRemoveLock DEF Cost!Next

LEMMA ReservedKeeps ==
  ASSUME Cost!Assumptions, Reserved
  PROVE  /\ Cost!TypeOK /\ Cost!RoutineWithinCap
         /\ Cost!FullOnce /\ Cost!ReferenceOnce /\ Cost!PaidAsReserved
<1>1. Cost!TypeOK
  BY DEF Reserved, LedgerTyped, Runner, Spending, Cost!TypeOK, Holding, Filing
<1>2. Cost!WholeOnes \subseteq DOMAIN ledger
  BY DEF Cost!WholeOnes
<1>3. Cost!FullOnce /\ Cost!ReferenceOnce
  BY <1>2 DEF Reserved, FullKept, Cost!FullOnce
<1>4. Cost!RoutineWithinCap
  <2> SUFFICES ASSUME NEW t \in 0..LastDay
               PROVE  Cost!RoutineSum(ledger, {i \in Cost!WholeOnes :
                                                 ledger[i].at \in t..(t + Window)})
                        <= RollingCap
      BY DEF Cost!RoutineWithinCap
  <2> DEFINE S == {i \in Cost!WholeOnes : ledger[i].at \in t..(t + Window)}
             T == {i \in DOMAIN ledger : ledger[i].at \in t..(t + Window)}
  <2>1. Cost!RoutineSum(ledger, T) <= RollingCap
      BY DEF Reserved, RoutineKept
  <2>2. S \in SUBSET DOMAIN ledger /\ T \in SUBSET DOMAIN ledger
        /\ RoutineOf(ledger, S) \in SUBSET RoutineOf(ledger, T)
        /\ RoutineOf(ledger, S) \in SUBSET DOMAIN ledger
        /\ RoutineOf(ledger, T) \in SUBSET DOMAIN ledger
      BY DEF Cost!WholeOnes, RoutineOf
  <2> HIDE DEF S, T
  <2>3. Caps(ledger) \in [DOMAIN ledger -> Nat] /\ IsFiniteSet(DOMAIN ledger)
    <3>1. /\ Len(ledger) \in Nat /\ DOMAIN ledger = 1..Len(ledger)
          /\ \A i \in DOMAIN ledger : ledger[i].cap \in Nat
      BY EntriesTyped DEF Reserved
    <3>2. 1 \in Int /\ Len(ledger) \in Int
      BY <3>1
    <3>3. IsFiniteSet(1..Len(ledger))
      BY <3>2, FS_Interval, Zenon
    <3>4. QED
      BY <3>1, <3>3 DEF Caps
  <2>4. Cost!RoutineSum(ledger, S) = Total(Caps(ledger), RoutineOf(ledger, S))
        /\ Cost!RoutineSum(ledger, T) = Total(Caps(ledger), RoutineOf(ledger, T))
      BY <2>2, RoutineTotal
  <2>5. Total(Caps(ledger), RoutineOf(ledger, S)) <= Total(Caps(ledger), RoutineOf(ledger, T))
      BY <2>2, <2>3, TotalGrows
  <2>6. Total(Caps(ledger), RoutineOf(ledger, S)) \in Nat
        /\ Total(Caps(ledger), RoutineOf(ledger, T)) \in Nat /\ RollingCap \in Nat
      BY <2>2, <2>3, TotalNat, LedgerConstants
  <2>7. Cost!RoutineSum(ledger, S) <= RollingCap
      BY <2>1, <2>4, <2>5, <2>6
  <2>8. QED
      BY <2>7 DEF S
<1>5. Cost!PaidAsReserved
  <2> SUFFICES ASSUME NEW r \in Runners, costAsked[r] > 0
               PROVE  /\ place[r] \in Cost!WholeOnes
                      /\ \A s \in Runners \ {r} : place[s] # place[r]
                      /\ costSpent[r] - last[r] < ledger[place[r]].cap
      BY DEF Cost!PaidAsReserved
  <2>1. Runner(r) /\ costAsked[r] \in Nat
      BY DEF Reserved, LedgerTyped
  <2>2. pc[r] \in {"asking", "done"}
      BY <2>1 DEF Runner, Spending
  <2>3. place[r] \in DOMAIN ledger /\ ledger[place[r]].whole /\ ledger[place[r]].cap = req[r].cap
      BY <2>1, <2>2 DEF Runner, Filed, Filing
  <2>4. place[r] # 0
      BY <2>3, EntriesTyped DEF Reserved
  <2>5. QED
      BY <2>1, <2>3, <2>4 DEF Runner, Spending, Cost!WholeOnes, Reserved, OwnPlaces
<1>6. QED
  BY <1>1, <1>3, <1>4, <1>5

\* A record is created only where every record was found complete.
LEMMA ReservedCloses ==
  ASSUME Cost!Assumptions, Reserved, [Cost!Next]_(Cost!vars)
  PROVE  Cost!ClosedByAbandoned
<1>1. ASSUME NEW r \in Runners, Cost!Create(r) PROVE ~Cost!Abandoned
  <2>1. Cost!Readable(ledger, at[r])
      BY <1>1 DEF Reserved, Runner, Granted, Cost!Create
  <2>2. QED
      BY <2>1 DEF Cost!Readable, Cost!Abandoned
<1>2. ASSUME NEW r \in Runners, Cost!Write(r) PROVE Len(ledger') = Len(ledger)
  <2>1. CASE ledger' = ledger
      BY <2>1
  <2>2. CASE ledger' = [ledger EXCEPT ![place[r]].whole = TRUE]
    <3> DEFINE E == Cost!EntryShape
               c == [ledger[place[r]] EXCEPT !.whole = TRUE]
    <3>1. place[r] \in DOMAIN ledger
        BY <1>2 DEF Reserved, Runner, Filed, Filing, Cost!Write
    <3>2. ledger \in Seq(E) /\ c \in E /\ ledger' = [ledger EXCEPT ![place[r]] = c]
        BY <2>2, <3>1, EntriesTyped, Completed DEF Reserved, LedgerTyped
    <3> HIDE DEF E, c
    <3>3. QED
        BY <3>1, <3>2
  <2>3. QED
      BY <1>2, <2>1, <2>2 DEF Cost!Write
<1>3. ASSUME ledger' = ledger PROVE Len(ledger') = Len(ledger)
  BY <1>3
<1>4. QED
  <2>1. CASE UNCHANGED Cost!vars
      BY <1>3, <2>1 DEF Cost!ClosedByAbandoned, Cost!vars
  <2>2. CASE Cost!RemoveLock \/ Cost!Tick
      BY <1>3, <2>2 DEF Cost!ClosedByAbandoned, Cost!RemoveLock, Cost!Tick
  <2>3. ASSUME NEW r \in Runners, Cost!Step(r) PROVE Cost!ClosedByAbandoned
      BY <1>1, <1>2, <1>3, <2>3 DEF Cost!ClosedByAbandoned, Cost!Step, Cost!Start, Cost!Lock,
         Cost!Scan, Cost!Unlock, Cost!Ask, Cost!Crash
  <2>4. QED
      BY <2>1, <2>2, <2>3 DEF Cost!Next

-----------------------------------------------------------------------------
(* The ledger implements ReservationBook: the creation of a record enters  *)
(* it, since between the scan and the file nobody else can write; its      *)
(* content completes it, a case pays, and every other step is a stutter.   *)

\* The limits of the book, of the ledger.
BookKept == Cost!Book!WithinLimits(ledger)

\* A runner that has not created its record has no place.
CostEarly == {"idle", "timed", "locked", "allowed"}

Unplaced(r) == pc[r] \in CostEarly => place[r] = 0

LEMMA UnplacedNext ==
  ASSUME Cost!Assumptions, Reserved, \A r \in Runners : Unplaced(r), [Cost!Next]_(Cost!vars),
         NEW s \in Runners
  PROVE  Unplaced(s)'
<1>1. LedgerTyped
  BY DEF Reserved
<1>2. ASSUME NEW r \in Runners, Cost!Step(r) PROVE Unplaced(s)'
  <2>1. CASE Cost!Create(r)
    <3>1. /\ pc' = [pc EXCEPT ![r] = "writing"]
          /\ place' = [place EXCEPT ![r] = Len(ledger) + 1]
        BY <2>1 DEF Cost!Create, Cost!Goto
    <3>2. pc'[s] \in CostEarly => s # r
        BY <1>1, <3>1 DEF LedgerTyped, CostEarly
    <3>3. s # r => pc'[s] = pc[s] /\ place'[s] = place[s]
        BY <1>1, <3>1 DEF LedgerTyped
    <3>4. QED
        BY <3>2, <3>3 DEF Unplaced
  <2>2. ASSUME place' = place, pc'[s] \in CostEarly => pc[s] \in CostEarly PROVE Unplaced(s)'
      BY <2>2 DEF Unplaced
  <2>3. CASE \/ Cost!Start(r) \/ Cost!Lock(r) \/ Cost!Scan(r) \/ Cost!Write(r)
             \/ Cost!Unlock(r) \/ Cost!Ask(r) \/ Cost!Crash(r)
    <3>1. place' = place
        BY <2>3 DEF Cost!Start, Cost!Lock, Cost!Scan, Cost!Write, Cost!Unlock, Cost!Ask,
           Cost!Crash
    <3>2. pc'[s] \in CostEarly => pc[s] \in CostEarly
        BY <1>1, <2>3 DEF LedgerTyped, CostEarly, Cost!Goto, Cost!Start, Cost!Lock, Cost!Scan,
           Cost!Write, Cost!Unlock, Cost!Ask, Cost!Crash
    <3>3. QED
        BY <2>2, <3>1, <3>2
  <2>4. QED
      BY <1>2, <2>1, <2>3 DEF Cost!Step
<1>3. CASE Cost!RemoveLock \/ Cost!Tick \/ UNCHANGED Cost!vars
  BY <1>3 DEF Unplaced, Cost!RemoveLock, Cost!Tick, Cost!vars
<1>4. QED
  BY <1>2, <1>3 DEF Cost!Next

LEMMA BookSum ==
  ASSUME NEW l, NEW S
  PROVE  Cost!Book!Sum(l, S) = Cost!RoutineSum(l, S)
  BY Zenon DEF Cost!Book!Sum, Cost!RoutineSum, Cost!Book!MapThenSumSet, Cost!MapThenSumSet,
     Cost!Book!MapThenFoldSet, Cost!MapThenFoldSet

LEMMA ReservedWithin == ASSUME Cost!Assumptions, Reserved PROVE BookKept
<1>1. Cost!Book!RoutineWithin(ledger)
  <2> SUFFICES ASSUME NEW k \in DOMAIN ledger
               PROVE  Cost!Book!Sum(ledger, {i \in DOMAIN ledger :
                        ledger[i].at \in ledger[k].at .. ledger[k].at + Window}) <= RollingCap
      BY Zenon DEF Cost!Book!RoutineWithin
  <2>1. PICK t : t = ledger[k].at
      OBVIOUS
  <2>2. t \in 0..LastDay
      BY <2>1, EntriesTyped, EntryFields DEF Reserved
  <2> DEFINE S == {i \in DOMAIN ledger : ledger[i].at \in t .. t + Window}
  <2>3. Cost!RoutineSum(ledger, S) <= RollingCap
      BY <2>2 DEF Reserved, RoutineKept
  <2> HIDE DEF S
  <2>4. Cost!Book!Sum(ledger, S) = Cost!RoutineSum(ledger, S)
      BY BookSum
  <2>5. Cost!Book!Sum(ledger, S) <= RollingCap
      BY <2>3, <2>4
  <2>6. QED
      BY <2>1, <2>5 DEF S
<1>2. Cost!Book!FullApart(ledger)
  BY DEF Reserved, FullKept, Cost!Book!FullApart
<1>3. Cost!Book!ReferencesApart(ledger)
  BY Zenon DEF Reserved, Cost!ReferenceOnce, Cost!Book!ReferencesApart, Cost!Book!Named
<1>4. QED
  BY <1>1, <1>2, <1>3 DEF BookKept, Cost!Book!WithinLimits

LEMMA BookCreate ==
  ASSUME Cost!Assumptions, Reserved, BookKept', NEW r \in Runners, Unplaced(r), Cost!Create(r)
  PROVE  Cost!Book!Enter(r)
<1> DEFINE q == req[r]
           t == at[r]
           e == Cost!Entry(q, t, Cost!Prior(ledger, q))
<1>1. LedgerTyped /\ Runner(r) /\ pc[r] = "allowed"
  BY DEF Reserved, Cost!Create
<1>2. Creates(q, t, e)
  BY <1>1 DEF Creates, LedgerTyped, Runner, Started, Granted, Cost!Create
<1> HIDE DEF q, t, e
<1>3. Len(ledger') = Len(ledger) + 1 /\ \A i \in DOMAIN ledger : ledger'[i] = ledger[i]
  BY <1>1, <1>2, CreatedEntry
<1>4. \A i \in DOMAIN ledger : ledger[i].whole
  BY <1>2 DEF Creates, Cost!Readable
<1>5. place[r] = 0
  BY <1>1 DEF Unplaced, CostEarly
<1>6. place' = [place EXCEPT ![r] = Len(ledger) + 1] /\ costSpent' = costSpent
  BY DEF Cost!Create
<1>7. Cost!Book!WithinLimits(ledger')
  BY DEF BookKept
<1>8. QED
  BY <1>3, <1>4, <1>5, <1>6, <1>7, Zenon DEF Cost!Book!Enter

LEMMA BookWrite ==
  ASSUME Cost!Assumptions, Reserved, NEW r \in Runners, Cost!Write(r)
  PROVE  Cost!Book!Complete(r) \/ UNCHANGED Cost!Book!bookVars
<1>1. place[r] \in DOMAIN ledger
  BY DEF Reserved, Runner, Filed, Filing, Cost!Write
<1>2. place[r] # 0
  BY <1>1, EntriesTyped DEF Reserved
<1>3. QED
  BY <1>2 DEF Cost!Write, Cost!Book!Complete, Cost!Book!bookVars

LEMMA BookAsk ==
  ASSUME Cost!Assumptions, Reserved, NEW r \in Runners, Cost!Ask(r)
  PROVE  Cost!Book!Pay(r)
<1>1. /\ place[r] \in DOMAIN ledger /\ ledger[place[r]].whole
      /\ costSpent[r] < ledger[place[r]].cap
  BY DEF Reserved, Runner, Filed, Filing, Spending, Cost!Ask
<1>2. place[r] # 0
  BY <1>1, EntriesTyped DEF Reserved
<1>3. \E c \in CaseCosts : costSpent' = [costSpent EXCEPT ![r] = @ + c]
  BY DEF Cost!Ask
<1>4. UNCHANGED <<ledger, place>>
  BY DEF Cost!Ask
<1>5. QED
  BY <1>1, <1>2, <1>3, <1>4 DEF Cost!Book!Pay

LEMMA BookNext ==
  ASSUME Cost!Assumptions, Reserved, BookKept', \A r \in Runners : Unplaced(r),
         [Cost!Next]_(Cost!vars)
  PROVE  Cost!BookStep
<1>1. ASSUME UNCHANGED <<ledger, place, costSpent>> PROVE Cost!BookStep
  BY <1>1 DEF Cost!BookStep, Cost!Book!bookVars
<1>2. ASSUME NEW r \in Runners, Cost!Step(r) PROVE Cost!BookStep
  <2>1. CASE Cost!Create(r) \/ Cost!Write(r) \/ Cost!Ask(r)
      BY <2>1, BookCreate, BookWrite, BookAsk DEF Cost!BookStep, Cost!Book!Next
  <2>2. CASE \/ Cost!Start(r) \/ Cost!Lock(r) \/ Cost!Scan(r) \/ Cost!Unlock(r)
             \/ Cost!Crash(r)
      BY <1>1, <2>2 DEF Cost!Start, Cost!Lock, Cost!Scan, Cost!Unlock, Cost!Crash
  <2>3. QED
      BY <1>2, <2>1, <2>2 DEF Cost!Step
<1>3. CASE Cost!RemoveLock \/ Cost!Tick \/ UNCHANGED Cost!vars
  BY <1>1, <1>3 DEF Cost!RemoveLock, Cost!Tick, Cost!vars
<1>4. QED
  BY <1>2, <1>3 DEF Cost!Next

\* What whoever starts an evaluation is promised, in one step: with the clock read before the
\* lock, the scan before the file and the file before its content, and a death after each,
\* an entry is made after complete ones only, with it the whole book keeps to its limits, and
\* a payer pays from its own, complete, below its cap (_reserve_cost; run_ask.py, the loop
\* over the cases).
THEOREM LedgerImplementsBook ==
  ASSUME Cost!Assumptions
  PROVE  Cost!Spec => Cost!Book!BookSpec
<1> DEFINE Places == \A r \in Runners : Unplaced(r)
<1>1. Cost!Init => Reserved /\ Places /\ Cost!Book!Init
  <2>1. Cost!Init => Cost!Book!Init /\ Places
      BY DEF Cost!Init, Cost!Book!Init, Unplaced
  <2>2. QED
      BY <2>1, ReservedInit
<1>2. Reserved /\ Places /\ [Cost!Next]_(Cost!vars) => (Reserved /\ Places)'
  BY ReservedNext, UnplacedNext
<1>3. Reserved => BookKept
  BY ReservedWithin
<1>4. Reserved /\ Places /\ BookKept' /\ [Cost!Next]_(Cost!vars)
      => [Cost!Book!Next]_(Cost!Book!bookVars)
  BY BookNext DEF Cost!BookStep
<1>5. QED
  BY <1>1, <1>2, <1>3, <1>4, PTL DEF Cost!Spec, Cost!Book!BookSpec

\* cost_governance.py, reserve_eval_cost and _reserve_cost; run_ask.py, the loop over the cases:
\* whoever dies where and whoever takes the lock when, no 24 hours hold more than the rolling
\* cap of routine reservations, two full evaluations are of different candidates and within 24
\* hours the second names the first, no owner's reference is used twice, nobody asks without a
\* complete record of its own or on beyond its cap, and an abandoned record stops the ledger.
THEOREM LedgerKept ==
  ASSUME Cost!Assumptions
  PROVE  Cost!Spec => []Cost!TypeOK /\ Cost!LedgerHolds
<1>1. Cost!Init => Reserved
  BY ReservedInit
<1>2. Reserved /\ [Cost!Next]_(Cost!vars) => Reserved'
  BY ReservedNext
<1>3. Reserved => /\ Cost!TypeOK /\ Cost!RoutineWithinCap
                  /\ Cost!FullOnce /\ Cost!ReferenceOnce /\ Cost!PaidAsReserved
  BY ReservedKeeps
<1>4. Reserved /\ [Cost!Next]_(Cost!vars) => Cost!ClosedByAbandoned
  BY ReservedCloses
<1>5. QED
  BY <1>1, <1>2, <1>3, <1>4, LedgerImplementsBook, PTL DEF Cost!Spec, Cost!LedgerHolds
=============================================================================
