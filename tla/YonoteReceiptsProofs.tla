------------------------ MODULE YonoteReceiptsProofs ------------------------
(***************************************************************************)
(* Theorems about YonoteReceipts, for any seeds, receipts, request slots   *)
(* and bounds: two in any number of processes, and what the locks of a     *)
(* process guarantee, in a deployment with one, up to the refinement of    *)
(* SeedRegister.                                                           *)
(***************************************************************************)
EXTENDS YonoteReceipts, Sequences, FiniteSetTheorems, TLAPS

\* The locks are those of a process: what they guarantee, they guarantee within one.
OneProcess == \A p, q \in Requests : ProcessOf[p] = ProcessOf[q]

Pc        == {"idle"} \cup PreviewPc \cup ApplyPc \cup EditPc
Mutating  == ApplyPc \cup EditPc
Syncing   == ApplyPc \cup PreviewPc
Unwritten == ClaimPc \ {"verify"}

\* What a request holds while it is at its pc: the seeds it works with, its locks, a
\* directory without interrupted applications, the content it is about to replace, and a
\* receipt that it has claimed and that has not been written or superseded.
TaskInv(q) ==
    /\ task[q].pc \in ApplyPc \cup {"save"} => {task[q].base, task[q].merged} \subseteq Seeds
    /\ task[q].pc \in PreviewPc \ {"previewCheck", "previewRead"} => task[q].base \in Seeds
    /\ task[q].pc \in {"previewSeal", "previewWrite"} => task[q].merged \in Seeds
    /\ task[q].pc = "previewClean" => task[q].receipt \in Receipts
    /\ task[q].pc \in ApplyPc => task[q].receipt \in Sealed
    /\ task[q].pc \in Mutating => editLock[ProcessOf[q]] = q
    /\ task[q].pc \in Syncing => syncLock[ProcessOf[q]] = q
    /\ task[q].pc \in PreviewPc \ {"previewCheck"} => In("applying") = {}
    /\ task[q].pc \in {"write", "save"} => seed = task[q].base
    /\ task[q].pc \in ClaimPc => /\ file[task[q].receipt] # "json"
                                /\ task[q].receipt \notin superseded
    /\ task[q].pc \in Unwritten => writes[task[q].receipt] = 0
    /\ task[q].pc = "verify" => writes[task[q].receipt] = 0 \/ seed = task[q].merged

\* A receipt that was written never becomes active again; one that was superseded is
\* neither active nor being applied.
ReceiptInv(r) ==
    /\ writes[r] # 0 => r \in Sealed /\ file[r] # "json"
    /\ r \in superseded => r \in Sealed /\ file[r] \notin {"json", "applying"}

\* A step of q makes a receipt active that is new or that q gives back, and claims
\* none but its own.
OwnFiles(q) ==
    \A r \in Receipts :
        /\ file'[r] = "json" => \/ file[r] = "json" \/ r \notin Sealed
                                \/ task[q].pc = "restore" /\ r = task[q].receipt
        /\ file'[r] = "applying" => \/ file[r] = "applying"
                                    \/ task[q].pc \in ApplyPc /\ file[r] = "json"

IInv ==
    /\ TypeOK
    /\ \A q \in Requests : TaskInv(q)
    /\ \A r \in Receipts : ReceiptInv(r) /\ writes[r] <= 1

-----------------------------------------------------------------------------
\* How a step changes the task of its request and the locks

LEMMA GotoOps ==
    ASSUME TypeOK, NEW q \in Requests, NEW pc \in Pc, Goto(q, pc)
    PROVE  /\ task' \in [Requests -> Task]
           /\ task'[q].pc = pc
           /\ task'[q].receipt = task[q].receipt
           /\ task'[q].base = task[q].base
           /\ task'[q].merged = task[q].merged
           /\ \A p \in Requests \ {q} : task'[p] = task[p]
           /\ syncLock' = syncLock /\ editLock' = editLock /\ gone' = gone
<1> DEFINE t == [task[q] EXCEPT !.pc = pc]
<1>1. task \in [Requests -> Task] /\ task[q] \in Task BY DEF TypeOK
<1>2. /\ t \in Task /\ t.pc = pc /\ t.receipt = task[q].receipt
      /\ t.base = task[q].base /\ t.merged = task[q].merged
  BY <1>1 DEF Task, Pc
<1>3. task' = [task EXCEPT ![q] = t] BY DEF Goto
<1> HIDE DEF t
<1>4. QED BY <1>1, <1>2, <1>3 DEF Goto, lockVars

LEMMA FinishOps ==
    ASSUME TypeOK, NEW q \in Requests, Finish(q)
    PROVE  /\ task' \in [Requests -> Task]
           /\ task'[q] = Idle
           /\ \A p \in Requests \ {q} : task'[p] = task[p]
           /\ syncLock' \in [Processes -> Requests \cup {Nobody}]
           /\ editLock' \in [Processes -> Requests \cup {Nobody}]
           /\ \A x \in Processes :
                /\ editLock[x] # q => editLock'[x] = editLock[x]
                /\ syncLock[x] # q => syncLock'[x] = syncLock[x]
           /\ gone' \in SUBSET Requests
<1>1. Idle \in Task BY DEF Idle, Task
<1>2. task \in [Requests -> Task] BY DEF TypeOK
<1>3. QED BY <1>1, <1>2 DEF TypeOK, Finish, Free

\* What the other requests hold is theirs as long as the step's request changes the
\* seed and the count of writes only under the mutation lock.
LEMMA OthersKeep ==
    ASSUME OneProcess, TypeOK, \A p \in Requests : TaskInv(p),
           NEW q \in Requests,
           \A p \in Requests \ {q} : task'[p] = task[p],
           \A x \in Processes :
                /\ editLock[x] \notin {q, Nobody} => editLock'[x] = editLock[x]
                /\ syncLock[x] \notin {q, Nobody} => syncLock'[x] = syncLock[x],
           \A r \in Receipts : receipt[r] # Unsealed => receipt'[r] # Unsealed,
           OwnFiles(q),
           superseded' = superseded \/ task[q].pc \in PreviewPc,
           \/ seed' = seed /\ writes' = writes
           \/ task[q].pc \in Mutating
    PROVE  \A p \in Requests \ {q} : TaskInv(p)'
<1> SUFFICES ASSUME NEW p \in Requests \ {q} PROVE TaskInv(p)'
  OBVIOUS
<1>1. task'[p] = task[p] /\ TaskInv(p) /\ TaskInv(q) OBVIOUS
<1>2. Sealed \subseteq Sealed' BY DEF Sealed
<1>3. ProcessOf[p] \in Processes /\ ProcessOf[p] = ProcessOf[q]
  BY ProcessAssumption DEF OneProcess
<1>4. ASSUME task[p].pc \in Mutating
      PROVE  /\ editLock'[ProcessOf[p]] = p
             /\ seed' = seed /\ writes' = writes
             /\ \A r \in Sealed : file'[r] = "json" => file[r] = "json"
  <2>1. editLock[ProcessOf[p]] = p BY <1>1, <1>4 DEF TaskInv
  <2>2. p \notin {q, Nobody} BY RequestAssumption
  <2>3. editLock'[ProcessOf[p]] = p BY <1>3, <2>1, <2>2
  <2>4. task[q].pc \notin Mutating BY <1>1, <1>3, <2>1, <2>2 DEF TaskInv
  <2>5. task[q].pc # "restore" BY <2>4 DEF Mutating, ApplyPc, ClaimPc
  <2>6. QED BY <2>3, <2>4, <2>5 DEF OwnFiles, Sealed
<1>5. ASSUME task[p].pc \in Syncing
      PROVE  /\ syncLock'[ProcessOf[p]] = p
             /\ superseded' = superseded
             /\ \A r \in Receipts : file'[r] = "applying" => file[r] = "applying"
  <2>1. syncLock[ProcessOf[p]] = p BY <1>1, <1>5 DEF TaskInv
  <2>2. p \notin {q, Nobody} BY RequestAssumption
  <2>3. syncLock'[ProcessOf[p]] = p BY <1>3, <2>1, <2>2
  <2>4. task[q].pc \notin Syncing BY <1>1, <1>3, <2>1, <2>2 DEF TaskInv
  <2>5. QED BY <2>3, <2>4 DEF OwnFiles, Syncing
<1>6. {"write", "save", "verify"} \cup Unwritten \cup ApplyPc \subseteq Mutating
  BY DEF Mutating, Unwritten, ApplyPc, EditPc, ClaimPc
<1>7. ASSUME task[p].pc \in ClaimPc
      PROVE  file'[task[p].receipt] # "json" /\ task[p].receipt \notin superseded'
  <2>1. task[p].pc \in ApplyPc BY <1>7 DEF ApplyPc
  <2>2. task[p].receipt \in Sealed BY <1>1, <2>1 DEF TaskInv
  <2>3. QED BY <1>1, <1>4, <1>6, <1>7, <1>5, <2>1, <2>2 DEF TaskInv, Syncing
<1>8. ASSUME task[p].pc \in PreviewPc \ {"previewCheck"} PROVE In("applying")' = {}
  BY <1>1, <1>5, <1>8 DEF TaskInv, In, Syncing
<1>9. QED BY <1>1, <1>2, <1>4, <1>6, <1>7, <1>5, <1>8 DEF TaskInv

Suffix == {"absent", "json", "applying", "applied"}

\* A step of q that makes only its own receipt active, and supersedes only receipts that
\* are neither active nor being applied.
LEMMA ReceiptsKeep ==
    ASSUME IInv, NEW q \in Requests, OwnFiles(q), \A r \in Sealed : r \in Sealed', writes' = writes,
           \A r \in superseded' \ superseded : r \in Sealed /\ file'[r] \notin {"json", "applying"},
           superseded' \in SUBSET Receipts
    PROVE  \A r \in Receipts : (ReceiptInv(r) /\ writes[r] <= 1)'
<1> SUFFICES ASSUME NEW r \in Receipts PROVE (ReceiptInv(r) /\ writes[r] <= 1)'
  OBVIOUS
<1>1. ReceiptInv(r) /\ writes[r] <= 1 /\ TaskInv(q) BY DEF IInv
<1>2. task[q].pc = "restore" =>
        writes[task[q].receipt] = 0 /\ task[q].receipt \notin superseded
  BY <1>1 DEF TaskInv, Unwritten, ClaimPc
<1>3. file'[r] = "json" => writes[r] = 0 /\ r \notin superseded
  BY <1>1, <1>2 DEF OwnFiles, ReceiptInv
<1>4. file'[r] = "applying" => r \notin superseded
  BY <1>1 DEF OwnFiles, ReceiptInv
<1>5. QED BY <1>1, <1>3, <1>4 DEF ReceiptInv

\* A step that moves its request on, and leaves the seed, the bindings and the count of
\* writes alone, keeps the invariant if the request keeps what it holds at its new pc.
LEMMA GotoKeeps ==
    ASSUME OneProcess, IInv, NEW q \in Requests, NEW pc \in Pc, Goto(q, pc),
           seed' = seed, receipt' = receipt, writes' = writes,
           superseded' = superseded, faults' \in 0..MaxFaults,
           file' \in [Receipts -> Suffix],
           OwnFiles(q),
           TaskInv(q)'
    PROVE  IInv'
<1>1. TypeOK' BY GotoOps DEF IInv, TypeOK, Suffix
<1>2. \A p \in Requests \ {q} : TaskInv(p)' BY GotoOps, OthersKeep DEF IInv
<1>3. \A r \in Receipts : (ReceiptInv(r) /\ writes[r] <= 1)'
  BY ReceiptsKeep DEF IInv, TypeOK, Sealed
<1>4. QED BY <1>1, <1>2, <1>3 DEF IInv

\* A step that answers its request keeps the invariant if the seed is replaced only
\* under the mutation lock and no written receipt becomes active.
LEMMA FinishKeeps ==
    ASSUME OneProcess, IInv, NEW q \in Requests, Finish(q),
           seed' \in Seeds, seed' = seed \/ task[q].pc \in Mutating,
           receipt' = receipt, writes' = writes,
           superseded' = superseded \/ task[q].pc \in PreviewPc,
           \A r \in superseded' \ superseded : r \in Sealed /\ file'[r] \notin {"json", "applying"},
           superseded' \in SUBSET Receipts, faults' \in 0..MaxFaults,
           file' \in [Receipts -> Suffix],
           OwnFiles(q)
    PROVE  IInv'
<1>1. TypeOK' BY FinishOps DEF IInv, TypeOK, Suffix
<1>2. \A p \in Requests \ {q} : TaskInv(p)'
  <2>1. \A x \in Processes :
          /\ editLock[x] \notin {q, Nobody} => editLock'[x] = editLock[x]
          /\ syncLock[x] \notin {q, Nobody} => syncLock'[x] = syncLock[x]
    BY FinishOps DEF IInv
  <2>2. QED BY <2>1, FinishOps, OthersKeep DEF IInv
<1>3. TaskInv(q)'
  <2>1. task'[q].pc = "idle" BY FinishOps DEF IInv, Idle
  <2>2. QED
    BY <2>1 DEF TaskInv, Unwritten, Mutating, Syncing, PreviewPc, ApplyPc, ClaimPc, EditPc
<1>4. \A r \in Receipts : (ReceiptInv(r) /\ writes[r] <= 1)'
  BY ReceiptsKeep DEF IInv, TypeOK, Sealed
<1>5. QED BY <1>1, <1>2, <1>3, <1>4 DEF IInv

\* A fault is counted within its bound, and a rename of a receipt's file has its type.
LEMMA FaultCounts ==
    ASSUME TypeOK
    PROVE  /\ Fault => faults' \in 0..MaxFaults
           /\ Works => faults' \in 0..MaxFaults
           /\ faults' = faults => faults' \in 0..MaxFaults
<1>1. faults \in 0..MaxFaults /\ MaxFaults \in Nat BY FaultAssumption DEF TypeOK
<1>2. QED BY <1>1 DEF Fault, Works

LEMMA RenameFiles ==
    ASSUME TypeOK, NEW r \in Receipts, NEW suffix \in Suffix, Rename(r, suffix)
    PROVE  /\ file' \in [Receipts -> Suffix]
           /\ file'[r] = suffix
           /\ \A o \in Receipts \ {r} : file'[o] = file[o]
<1>1. file \in [Receipts -> Suffix] BY DEF TypeOK, Suffix
<1>2. QED BY <1>1 DEF Rename

LEMMA FaultOps ==
    ASSUME IInv
    PROVE  /\ Fault => faults' \in 0..MaxFaults
           /\ Works => faults' \in 0..MaxFaults
           /\ faults \in 0..MaxFaults
BY FaultCounts DEF IInv, TypeOK

LEMMA RenameOps ==
    ASSUME IInv, NEW r \in Receipts, NEW suffix \in Suffix, Rename(r, suffix)
    PROVE  /\ file' \in [Receipts -> Suffix]
           /\ file'[r] = suffix
           /\ \A o \in Receipts \ {r} : file'[o] = file[o]
BY RenameFiles DEF IInv

\* A step that gives its request the task t, and leaves the seed and the count of
\* writes alone.
LEMMA TaskKeeps ==
    ASSUME OneProcess, IInv, NEW q \in Requests, NEW t \in Task, task' = [task EXCEPT ![q] = t],
           seed' = seed, writes' = writes, superseded' = superseded,
           gone' = gone, faults' \in 0..MaxFaults,
           syncLock' \in [Processes -> Requests \cup {Nobody}],
           editLock' \in [Processes -> Requests \cup {Nobody}],
           \A x \in Processes :
                /\ editLock[x] \notin {q, Nobody} => editLock'[x] = editLock[x]
                /\ syncLock[x] \notin {q, Nobody} => syncLock'[x] = syncLock[x],
           receipt' \in [Receipts -> Binding \cup {Unsealed}],
           \A r \in Receipts : receipt[r] # Unsealed => receipt'[r] # Unsealed,
           file' \in [Receipts -> Suffix],
           OwnFiles(q),
           TaskInv(q)'
    PROVE  IInv'
<1>1. /\ task' \in [Requests -> Task]
      /\ \A p \in Requests \ {q} : task'[p] = task[p]
  BY DEF IInv, TypeOK
<1>2. TypeOK' BY <1>1 DEF IInv, TypeOK, Suffix
<1>3. \A p \in Requests \ {q} : TaskInv(p)' BY <1>1, OthersKeep DEF IInv
<1>4. \A r \in Receipts : (ReceiptInv(r) /\ writes[r] <= 1)'
  BY ReceiptsKeep DEF IInv, TypeOK, Sealed
<1>5. QED BY <1>2, <1>3, <1>4 DEF IInv

\* A step that only removes a receipt's file.
LEMMA RemoveKeeps ==
    ASSUME OneProcess, IInv, NEW r \in Receipts, Rename(r, "absent"), Works,
           UNCHANGED <<seed, receipt, lockVars, task, gone, historyVars>>
    PROVE  IInv'
<1>1. /\ file' \in [Receipts -> Suffix]
      /\ \A o \in Receipts : file'[o] = file[o] \/ file'[o] = "absent"
  BY RenameOps DEF Suffix
<1>2. TypeOK' BY <1>1, FaultOps DEF IInv, TypeOK, Suffix, lockVars, historyVars
<1>3. \A q \in Requests : TaskInv(q)'
  <2>1. \A q \in Requests : task[q].pc \in ClaimPc => task[q].receipt \in Receipts
    BY DEF IInv, TaskInv, Sealed, ApplyPc
  <2>2. QED BY <1>1, <2>1 DEF IInv, TaskInv, In, Sealed, lockVars, historyVars
<1>4. \A o \in Receipts : (ReceiptInv(o) /\ writes[o] <= 1)'
  BY <1>1 DEF IInv, ReceiptInv, Sealed, historyVars
<1>5. QED BY <1>2, <1>3, <1>4 DEF IInv

-----------------------------------------------------------------------------
\* The actions of a preview

\* What a preview holds at each of its steps.
LEMMA PreviewHolds ==
    ASSUME NEW q \in Requests, task'[q].pc \in PreviewPc, syncLock'[ProcessOf[q]] = q,
           task'[q].pc # "previewCheck" => In("applying")' = {},
           task'[q].pc \notin {"previewCheck", "previewRead"} => task'[q].base \in Seeds,
           task'[q].pc \in {"previewSeal", "previewWrite"} => task'[q].merged \in Seeds,
           task'[q].pc = "previewClean" => task'[q].receipt \in Receipts
    PROVE  TaskInv(q)'
<1>1. task'[q].pc \notin Mutating \cup ClaimPc \cup Unwritten \cup {"write", "save", "verify"}
  BY DEF Unwritten, Mutating, Syncing, PreviewPc, ApplyPc, ClaimPc, EditPc
<1>2. QED BY <1>1 DEF TaskInv, Mutating

LEMMA PreviewKeeps ==
    ASSUME OneProcess, IInv, NEW q \in Requests, Preview(q)
    PROVE  IInv'
<1>1. TypeOK /\ TaskInv(q) BY DEF IInv
<1>2. /\ seed \in Seeds /\ file \in [Receipts -> Suffix] /\ superseded \in SUBSET Receipts
      /\ receipt \in [Receipts -> Binding \cup {Unsealed}]
      /\ Sealed \subseteq Receipts
      /\ task \in [Requests -> Task] /\ task[q] \in Task
  BY <1>1 DEF TypeOK, Suffix, Sealed
<1> DEFINE clean == In("applying") = {}
<1>held. /\ task[q].pc \in PreviewPc
         /\ syncLock[ProcessOf[q]] = q
         /\ task[q].pc # "previewCheck" => clean
  BY <1>1 DEF TaskInv, Syncing, PreviewPc, Preview, PreviewCheck, PreviewRead, PreviewFetch,
              PreviewRecheck, PreviewWrite, PreviewClean, PreviewInvalidate
<1>files. UNCHANGED file => In("applying")' = In("applying") BY DEF In
<1>locks. UNCHANGED <<lockVars, gone>> => syncLock' = syncLock BY DEF lockVars
<1> HIDE DEF clean
<1>3. CASE PreviewCheck(q)
  <2>1. CASE Finish(q)
    BY <1>2, <1>3, <2>1, FaultOps, FinishKeeps DEF OwnFiles, PreviewCheck, historyVars
  <2>2. ASSUME In("applying") = {}, NEW pc \in Pc, Goto(q, pc),
               pc = IF task[q].pc = "previewCheck" THEN "previewRead" ELSE "previewWrite"
        PROVE  IInv'
    <3>1. TaskInv(q)'
      BY <1>1, <1>held, <1>files, <1>3, <2>2, GotoOps, PreviewHolds
      DEF TaskInv, PreviewCheck, PreviewPc, clean
    <3>2. QED
      BY <1>2, <1>3, <2>2, <3>1, FaultOps, GotoKeeps DEF OwnFiles, PreviewCheck, historyVars
  <2>3. QED BY <1>3, <2>1, <2>2 DEF PreviewCheck, Pc, PreviewPc
<1>4. CASE PreviewRead(q)
  <2> DEFINE t == [task[q] EXCEPT !.pc = "previewFetch", !.base = seed]
  <2>1. t \in Task /\ t.pc = "previewFetch" /\ t.base \in Seeds
    BY <1>2 DEF Task, PreviewPc
  <2>2. task' = [task EXCEPT ![q] = t] BY <1>4 DEF PreviewRead
  <2> HIDE DEF t
  <2>3. TaskInv(q)'
    <3>1. task'[q] = t BY <1>2, <2>2
    <3>2. QED
      BY <1>held, <1>files, <1>4, <2>1, <3>1, PreviewHolds DEF PreviewRead, PreviewPc, lockVars, clean
  <2>4. QED
    BY <1>1, <1>2, <1>4, <2>1, <2>2, <2>3, FaultOps, TaskKeeps
    DEF OwnFiles, PreviewRead, lockVars, historyVars, TypeOK
<1>5. CASE PreviewFetch(q)
  <2>1. CASE Finish(q)
    BY <1>2, <1>5, <2>1, FaultOps, FinishKeeps DEF OwnFiles, PreviewFetch, historyVars
  <2>2. CASE Goto(q, "previewInvalidate")
    <3>1. "previewInvalidate" \in Pc BY DEF Pc, PreviewPc
    <3>2. TaskInv(q)'
      BY <1>1, <1>held, <1>files, <1>5, <2>2, <3>1, GotoOps, PreviewHolds
      DEF TaskInv, PreviewFetch, PreviewPc, clean
    <3>3. QED
      BY <1>2, <1>5, <2>2, <3>1, <3>2, FaultOps, GotoKeeps DEF OwnFiles, PreviewFetch, historyVars
  <2>3. ASSUME NEW merged \in Seeds \cup {NoSeed},
               task' = [task EXCEPT ![q].pc = "previewRecheck", ![q].merged = merged],
               UNCHANGED <<lockVars, gone>>
        PROVE  IInv'
    <3> DEFINE t == [task[q] EXCEPT !.pc = "previewRecheck", !.merged = merged]
    <3>1. t \in Task /\ t.pc = "previewRecheck" /\ t.base = task[q].base
      BY <1>2 DEF Task, PreviewPc
    <3>2. task' = [task EXCEPT ![q] = t] BY <2>3
    <3> HIDE DEF t
    <3>3. TaskInv(q)'
      <4>1. task'[q] = t BY <1>2, <3>2
      <4>2. QED
        BY <1>1, <1>held, <1>files, <1>locks, <1>5, <2>3, <3>1, <4>1, PreviewHolds
        DEF TaskInv, PreviewFetch, PreviewPc, clean
    <3>4. QED
      BY <1>1, <1>2, <1>5, <2>3, <3>1, <3>2, <3>3, FaultOps, TaskKeeps
      DEF OwnFiles, PreviewFetch, lockVars, historyVars, TypeOK
  <2>4. QED BY <1>5, <2>1, <2>2, <2>3 DEF PreviewFetch
<1>6. CASE PreviewRecheck(q)
  <2>1. CASE Finish(q)
    BY <1>2, <1>6, <2>1, FaultOps, FinishKeeps DEF OwnFiles, PreviewRecheck, historyVars
  <2>2. ASSUME NEW pc \in Pc, Goto(q, pc),
               pc = IF task[q].merged = NoSeed THEN "previewInvalidate" ELSE "previewSeal"
        PROVE  IInv'
    <3>1. task[q].merged # NoSeed => task[q].merged \in Seeds BY <1>2 DEF Task
    <3>2. TaskInv(q)'
      BY <1>1, <1>held, <1>files, <1>6, <2>2, <3>1, GotoOps, PreviewHolds
      DEF TaskInv, PreviewRecheck, PreviewPc, clean
    <3>3. QED
      BY <1>2, <1>6, <2>2, <3>2, FaultOps, GotoKeeps DEF OwnFiles, PreviewRecheck, historyVars
  <2>3. QED BY <1>6, <2>1, <2>2 DEF PreviewRecheck, Pc, PreviewPc
<1>7. CASE PreviewWrite(q)
  <2>1. CASE Finish(q) /\ UNCHANGED <<file, receipt>> /\ Fault
    BY <1>2, <1>7, <2>1, FaultOps, FinishKeeps DEF OwnFiles, PreviewWrite, historyVars
  <2>2. ASSUME NEW r \in Receipts \ Sealed,
               receipt' = [receipt EXCEPT ![r] =
                      [base |-> task[q].base, merged |-> task[q].merged]],
               Rename(r, "json"),
               task' = [task EXCEPT ![q].pc = "previewClean", ![q].receipt = r],
               UNCHANGED <<lockVars, gone>>, Works
        PROVE  IInv'
    <3> DEFINE t == [task[q] EXCEPT !.pc = "previewClean", !.receipt = r]
               b == [base |-> task[q].base, merged |-> task[q].merged]
    <3>1. t \in Task /\ t.pc = "previewClean" /\ t.base = task[q].base /\ t.receipt = r
      BY <1>2 DEF Task, PreviewPc
    <3>2. task' = [task EXCEPT ![q] = t] BY <2>2
    <3>3. task[q].base \in Seeds /\ task[q].merged \in Seeds
      BY <1>1, <1>7 DEF TaskInv, PreviewWrite, PreviewPc
    <3>4. b \in Binding BY <3>3 DEF Binding
    <3>5. b # Unsealed BY <3>3, SeedAssumption DEF Unsealed
    <3>6. receipt' = [receipt EXCEPT ![r] = b] BY <2>2
    <3> HIDE DEF t, b
    <3>7. /\ receipt' \in [Receipts -> Binding \cup {Unsealed}]
          /\ \A o \in Receipts : receipt[o] # Unsealed => receipt'[o] # Unsealed
      BY <1>2, <3>4, <3>5, <3>6
    <3>8. /\ file' \in [Receipts -> Suffix]
          /\ OwnFiles(q)
      BY <2>2, RenameOps DEF Suffix, OwnFiles
    <3>9. TaskInv(q)'
      <4>1. task'[q] = t BY <1>2, <3>2
      <4>2. In("applying")' = {}
        BY <1>2, <1>held, <1>7, <2>2, RenameOps DEF PreviewWrite, In, Suffix, clean
      <4>3. QED
        BY <1>held, <1>locks, <1>7, <2>2, <3>1, <3>3, <3>8, <4>1, <4>2, PreviewHolds
        DEF PreviewWrite, PreviewPc
    <3>10. QED
      BY <1>1, <1>2, <1>7, <2>2, <3>1, <3>2, <3>7, <3>8, <3>9, FaultOps, TaskKeeps
      DEF OwnFiles, PreviewWrite, lockVars, historyVars, TypeOK
  <2>3. QED BY <1>7, <2>1, <2>2 DEF PreviewWrite
<1>8. CASE PreviewClean(q)
  <2> DEFINE own == task[q].receipt
             old == (In("json") \cup In("applied")) \ {own}
  <2>1. own \in Receipts BY <1>1, <1>8 DEF TaskInv, PreviewClean
  <2>2. ASSUME NEW r \in old, Rename(r, "absent"), Works,
               UNCHANGED <<task, lockVars, gone, superseded>>
        PROVE  IInv'
    <3>1. r \in Receipts BY <2>2 DEF In
    <3>2. QED BY <1>8, <2>2, <3>1, RemoveKeeps DEF PreviewClean, historyVars
  <2>3. CASE /\ old = {} /\ Finish(q) /\ UNCHANGED file /\ Works
             /\ superseded' = superseded \cup (Sealed \ {own})
    <3>1. \A r \in superseded' \ superseded : r \in Sealed /\ file[r] \notin {"json", "applying"}
      BY <1>2, <1>held, <1>8, <2>3 DEF PreviewClean, In, clean
    <3>2. QED
      BY <1>2, <1>held, <1>8, <2>3, <3>1, FaultOps, FinishKeeps DEF OwnFiles, PreviewClean
  <2>4. CASE /\ Rename(own, IF file[own] = "json" THEN "absent" ELSE file[own])
             /\ Finish(q) /\ UNCHANGED superseded /\ Fault
    <3>1. file[own] \in Suffix BY <1>2, <2>1
    <3>2. /\ file' \in [Receipts -> Suffix]
          /\ OwnFiles(q)
      BY <2>1, <2>4, <3>1, RenameOps DEF Suffix, OwnFiles
    <3>3. QED BY <1>2, <1>8, <2>4, <3>2, FaultOps, FinishKeeps DEF OwnFiles, PreviewClean
  <2>5. QED BY <1>8, <2>2, <2>3, <2>4 DEF PreviewClean
<1>9. CASE PreviewInvalidate(q)
  <2>1. ASSUME NEW r \in In("json"), Rename(r, "absent"), Works,
               UNCHANGED <<task, lockVars, gone, superseded>>
        PROVE  IInv'
    <3>1. r \in Receipts BY DEF In
    <3>2. QED BY <1>9, <2>1, <3>1, RemoveKeeps DEF PreviewInvalidate, historyVars
  <2>2. CASE /\ In("json") = {} /\ Finish(q) /\ UNCHANGED file /\ Works
             /\ superseded' = superseded \cup Sealed
    <3>1. \A r \in superseded' \ superseded : r \in Sealed /\ file[r] \notin {"json", "applying"}
      BY <1>2, <1>held, <1>9, <2>2 DEF PreviewInvalidate, In, clean
    <3>2. QED
      BY <1>2, <1>held, <1>9, <2>2, <3>1, FaultOps, FinishKeeps DEF OwnFiles, PreviewInvalidate
  <2>3. CASE Finish(q) /\ UNCHANGED <<file, superseded>> /\ Fault
    BY <1>2, <1>9, <2>3, FaultOps, FinishKeeps DEF OwnFiles, PreviewInvalidate
  <2>4. QED BY <1>9, <2>1, <2>2, <2>3 DEF PreviewInvalidate
<1>10. QED
  BY <1>3, <1>4, <1>5, <1>6, <1>7, <1>8, <1>9 DEF Preview

-----------------------------------------------------------------------------
\* The actions of an application

\* A step of an application that only moves on, to a pc whose facts the caller gives.
LEMMA ApplyMoves ==
    ASSUME OneProcess, IInv, NEW q \in Requests, task[q].pc \in ApplyPc,
           NEW pc \in ApplyPc, Goto(q, pc), UNCHANGED <<seed, receipt, historyVars>>,
           file' \in [Receipts -> Suffix], faults' \in 0..MaxFaults,
           OwnFiles(q),
           pc = "write" => seed = task[q].base,
           pc \in ClaimPc => /\ file'[task[q].receipt] # "json"
                            /\ task[q].receipt \notin superseded,
           pc \in Unwritten => writes[task[q].receipt] = 0,
           pc = "verify" => writes[task[q].receipt] = 0 \/ seed = task[q].merged
    PROVE  IInv'
<1>1. TypeOK /\ TaskInv(q) BY DEF IInv
<1>2. pc \in Pc BY DEF Pc
<1>3. TaskInv(q)'
  <2>1. Sealed' = Sealed BY DEF Sealed
  <2>2. /\ task'[q].pc = pc /\ task'[q].receipt = task[q].receipt
        /\ task'[q].base = task[q].base /\ task'[q].merged = task[q].merged
        /\ editLock' = editLock /\ syncLock' = syncLock
    BY <1>1, <1>2, GotoOps
  <2>3. pc \notin PreviewPc \cup {"save"} BY DEF PreviewPc, ApplyPc, ClaimPc
  <2>4. QED
    BY <1>1, <2>1, <2>2, <2>3 DEF TaskInv, Mutating, Syncing, PreviewPc, historyVars
<1>4. QED BY <1>2, <1>3, GotoKeeps DEF historyVars

LEMMA ApplyKeeps ==
    ASSUME OneProcess, IInv, NEW q \in Requests, Apply(q)
    PROVE  IInv'
<1> DEFINE r == task[q].receipt
<1>1. TypeOK /\ TaskInv(q) BY DEF IInv
<1>2. /\ seed \in Seeds /\ file \in [Receipts -> Suffix] /\ superseded \in SUBSET Receipts
      /\ Sealed \subseteq Receipts
      /\ task \in [Requests -> Task] /\ task[q] \in Task
  BY <1>1 DEF TypeOK, Suffix, Sealed
<1>3. task[q].pc \in ApplyPc
  BY DEF Apply, ApplyPc, ClaimPc, Load, ResumeReceipt, CheckActive, Claim, SyncClaim,
         RecheckSeed, WriteSeed, VerifySeed, RestoreReceipt, FinalizeReceipt, CleanApplied
<1>4. /\ task[q].receipt \in Receipts
      /\ task[q].base \in Seeds /\ task[q].merged \in Seeds
  BY <1>1, <1>2, <1>3 DEF TaskInv
<1>5. CASE Load(q)
  <2>1. CASE Finish(q) /\ UNCHANGED file
    BY <1>2, <1>5, <2>1, FaultOps, FinishKeeps DEF OwnFiles, Load, historyVars
  <2>2. CASE Rename(r, "absent") /\ Finish(q)
    <3>1. /\ file' \in [Receipts -> Suffix]
          /\ OwnFiles(q)
      BY <1>4, <2>2, RenameOps DEF Suffix, OwnFiles
    <3>2. QED BY <1>2, <1>5, <2>2, <3>1, FaultOps, FinishKeeps DEF OwnFiles, Load, historyVars
  <2>3. CASE file[r] # "absent" /\ Goto(q, file[r]) /\ UNCHANGED file
    <3>1. file[r] \in {"json", "applying", "applied"} BY <1>2, <1>4, <2>3 DEF Suffix
    <3>2. file[r] \in ApplyPc /\ file[r] \notin ClaimPc \cup Unwritten \cup {"write", "verify"}
      BY <3>1 DEF ApplyPc, ClaimPc, Unwritten
    <3>3. QED BY <1>2, <1>3, <1>5, <2>3, <3>2, FaultOps, ApplyMoves DEF OwnFiles, Load
  <2>4. QED BY <1>5, <2>1, <2>2, <2>3 DEF Load
<1>6. CASE ResumeReceipt(q)
  <2>1. CASE Goto(q, "finalize")
    BY <1>2, <1>3, <1>6, <2>1, FaultOps, ApplyMoves DEF OwnFiles, ResumeReceipt, ApplyPc, ClaimPc, Unwritten
  <2>2. CASE Finish(q)
    BY <1>2, <1>6, <2>2, FaultOps, FinishKeeps DEF OwnFiles, ResumeReceipt, historyVars
  <2>3. QED BY <1>6, <2>1, <2>2 DEF ResumeReceipt
<1>7. CASE CheckActive(q)
  <2>1. ASSUME NEW pc \in {"claim", "claimCommitted"}, Goto(q, pc) PROVE IInv'
    BY <1>2, <1>3, <1>7, <2>1, FaultOps, ApplyMoves DEF OwnFiles, CheckActive, ApplyPc, ClaimPc, Unwritten
  <2>2. CASE Finish(q)
    BY <1>2, <1>7, <2>2, FaultOps, FinishKeeps DEF OwnFiles, CheckActive, historyVars
  <2>3. QED BY <1>7, <2>1, <2>2 DEF CheckActive
<1>8. CASE Claim(q)
  <2>1. ASSUME file[r] = "json", Rename(r, "applying"), Works,
               NEW pc \in {"claimed", "claimedCommitted"}, Goto(q, pc)
        PROVE  IInv'
    <3>1. /\ file' \in [Receipts -> Suffix]
          /\ file'[r] # "json" /\ OwnFiles(q)
      BY <1>3, <1>4, <2>1, RenameOps DEF Suffix, OwnFiles
    <3>2. writes[r] = 0 /\ r \notin superseded BY <1>4, <2>1 DEF IInv, ReceiptInv
    <3>3. pc \in ApplyPc /\ pc \notin {"write", "verify"} BY DEF ApplyPc, ClaimPc
    <3>4. QED BY <1>3, <1>8, <2>1, <3>1, <3>2, <3>3, FaultOps, ApplyMoves DEF OwnFiles, Claim
  <2>2. CASE Goto(q, "load") /\ UNCHANGED file /\ Works
    BY <1>2, <1>3, <1>8, <2>2, FaultOps, ApplyMoves DEF OwnFiles, Claim, ApplyPc, ClaimPc, Unwritten
  <2>3. CASE Finish(q) /\ UNCHANGED file /\ Fault
    BY <1>2, <1>8, <2>3, FaultOps, FinishKeeps DEF OwnFiles, Claim, historyVars
  <2>4. QED BY <1>8, <2>1, <2>2, <2>3 DEF Claim
<1>9. CASE SyncClaim(q)
  <2>1. writes[r] = 0 /\ file[r] # "json" /\ r \notin superseded BY <1>1, <1>9 DEF TaskInv, SyncClaim, Unwritten, ClaimPc
  <2>2. ASSUME NEW pc \in {"recheck", "finalize", "restore"}, Goto(q, pc) PROVE IInv'
    BY <1>2, <1>3, <1>9, <2>1, <2>2, FaultOps, ApplyMoves DEF OwnFiles, SyncClaim, ApplyPc, ClaimPc
  <2>3. QED BY <1>9, <2>2 DEF SyncClaim
<1>10. CASE RecheckSeed(q)
  <2>1. writes[r] = 0 /\ file[r] # "json" /\ r \notin superseded BY <1>1, <1>10 DEF TaskInv, RecheckSeed, Unwritten, ClaimPc
  <2>2. ASSUME NEW pc \in {"write", "restore"}, Goto(q, pc), pc = "write" => seed = task[q].base
        PROVE  IInv'
    BY <1>2, <1>3, <1>10, <2>1, <2>2, FaultOps, ApplyMoves DEF OwnFiles, RecheckSeed, ApplyPc, ClaimPc
  <2>3. QED BY <1>10, <2>2 DEF RecheckSeed
<1>11. CASE WriteSeed(q)
  <2>1. /\ task[q].pc = "write" /\ writes[r] = 0 /\ file[r] # "json" /\ r \in Sealed
        /\ r \notin superseded /\ syncLock[ProcessOf[q]] = q
        /\ editLock[ProcessOf[q]] = q
    BY <1>1, <1>3, <1>11 DEF TaskInv, WriteSeed, Unwritten, ClaimPc, Mutating, Syncing
  <2>2. "verify" \in ApplyPc BY DEF ApplyPc, ClaimPc
  <2>3. CASE Goto(q, "verify") /\ UNCHANGED <<seed, writes>> /\ Fault
    BY <1>2, <1>3, <1>11, <2>1, <2>2, <2>3, FaultOps, ApplyMoves
    DEF OwnFiles, WriteSeed, Unwritten, historyVars
  <2>4. CASE /\ seed' = task[q].merged
             /\ writes' = [writes EXCEPT ![r] = IF @ = 0 THEN 1 ELSE 2]
             /\ Goto(q, "verify") /\ Works
    <3>1. /\ writes \in [Receipts -> 0..2] /\ r \in Receipts
      BY <1>1, <1>4 DEF TypeOK
    <3>2. writes' = [writes EXCEPT ![r] = 1] BY <2>1, <2>4, <3>1
    <3>3. /\ writes' \in [Receipts -> 0..2] /\ writes'[r] = 1
          /\ \A o \in Receipts \ {r} : writes'[o] = writes[o]
      BY <3>1, <3>2
    <3>4. UNCHANGED <<file, receipt, superseded>> /\ faults' \in 0..MaxFaults
      BY <1>11, <2>4, FaultOps DEF WriteSeed
    <3>5. TypeOK'
      BY <1>1, <1>4, <2>2, <2>4, <3>3, <3>4, GotoOps DEF TypeOK, Pc
    <3>6. \A p \in Requests \ {q} : TaskInv(p)'
      <4>1. task[q].pc \in Mutating BY <1>3 DEF Mutating
      <4>2. QED
        BY <1>1, <2>2, <2>4, <3>4, <4>1, GotoOps, OthersKeep DEF IInv, OwnFiles, Pc
    <3>7. TaskInv(q)'
      <4>1. /\ task'[q].pc = "verify" /\ task'[q].receipt = task[q].receipt
            /\ task'[q].base = task[q].base /\ task'[q].merged = task[q].merged
            /\ editLock' = editLock /\ syncLock' = syncLock
        BY <1>1, <2>2, <2>4, GotoOps DEF Pc
      <4>2. Sealed' = Sealed BY <3>4 DEF Sealed
      <4>3. QED
        BY <1>4, <2>1, <2>4, <3>3, <3>4, <4>1, <4>2 DEF TaskInv, Unwritten, PreviewPc
    <3>8. \A o \in Receipts : (ReceiptInv(o) /\ writes[o] <= 1)'
      BY <2>1, <3>3, <3>4 DEF IInv, ReceiptInv, Sealed
    <3>9. QED BY <3>5, <3>6, <3>7, <3>8 DEF IInv
  <2>5. QED BY <1>11, <2>3, <2>4 DEF WriteSeed
<1>12. CASE VerifySeed(q)
  <2>1. CASE Goto(q, "finalize")
    BY <1>2, <1>3, <1>12, <2>1, FaultOps, ApplyMoves
    DEF OwnFiles, VerifySeed, ApplyPc, ClaimPc, Unwritten
  <2>2. CASE seed # task[q].merged /\ Goto(q, "restore")
    <3>1. writes[r] = 0 /\ file[r] # "json" /\ r \notin superseded BY <1>1, <1>12, <2>2 DEF TaskInv, VerifySeed, ClaimPc
    <3>2. QED
      BY <1>2, <1>3, <1>12, <2>2, <3>1, FaultOps, ApplyMoves
      DEF OwnFiles, VerifySeed, ApplyPc, ClaimPc
  <2>3. CASE Finish(q)
    BY <1>2, <1>12, <2>3, FaultOps, FinishKeeps DEF OwnFiles, VerifySeed, historyVars
  <2>4. QED BY <1>12, <2>1, <2>2, <2>3 DEF VerifySeed
<1>13. CASE RestoreReceipt(q)
  <2>1. CASE Rename(r, "json") /\ Works
    <3>1. file' \in [Receipts -> Suffix] /\ OwnFiles(q)
      BY <1>4, <1>13, <2>1, RenameOps DEF RestoreReceipt, Suffix, OwnFiles
    <3>2. QED
      BY <1>2, <1>13, <2>1, <3>1, FaultOps, FinishKeeps DEF RestoreReceipt, historyVars
  <2>2. CASE UNCHANGED file /\ (Works \/ Fault)
    BY <1>2, <1>13, <2>2, FaultOps, FinishKeeps DEF OwnFiles, RestoreReceipt, historyVars
  <2>3. QED BY <1>13, <2>1, <2>2 DEF RestoreReceipt
<1>14. CASE FinalizeReceipt(q)
  <2>1. CASE Rename(r, "applied") /\ Goto(q, "clean") /\ Works
    <3>1. file' \in [Receipts -> Suffix] /\ OwnFiles(q)
      BY <1>4, <2>1, RenameOps DEF Suffix, OwnFiles
    <3>2. QED
      BY <1>3, <1>14, <2>1, <3>1, FaultOps, ApplyMoves
      DEF FinalizeReceipt, ApplyPc, ClaimPc, Unwritten
  <2>2. CASE UNCHANGED file /\ Finish(q) /\ (Works \/ Fault)
    BY <1>2, <1>14, <2>2, FaultOps, FinishKeeps DEF OwnFiles, FinalizeReceipt, historyVars
  <2>3. QED BY <1>14, <2>1, <2>2 DEF FinalizeReceipt
<1>15. CASE CleanApplied(q)
  <2>1. ASSUME NEW o \in In("applied"), Rename(o, "absent"), UNCHANGED <<task, lockVars, gone>>, Works
        PROVE  IInv'
    <3>1. o \in Receipts BY DEF In
    <3>2. QED BY <1>15, <2>1, <3>1, RemoveKeeps DEF CleanApplied, historyVars
  <2>2. CASE Finish(q) /\ UNCHANGED file /\ (Works \/ Fault)
    BY <1>2, <1>15, <2>2, FaultOps, FinishKeeps DEF OwnFiles, CleanApplied, historyVars
  <2>3. QED BY <1>15, <2>1, <2>2 DEF CleanApplied
<1>16. QED
  BY <1>5, <1>6, <1>7, <1>8, <1>9, <1>10, <1>11, <1>12, <1>13, <1>14, <1>15 DEF Apply

-----------------------------------------------------------------------------
\* The edit of a chunk, and the beginning and the end of requests

LEMMA EditKeeps ==
    ASSUME OneProcess, IInv, NEW q \in Requests, Edit(q)
    PROVE  IInv'
<1>1. TypeOK /\ TaskInv(q) BY DEF IInv
<1>2. /\ seed \in Seeds /\ file \in [Receipts -> Suffix] /\ superseded \in SUBSET Receipts
      /\ receipt \in [Receipts -> Binding \cup {Unsealed}]
      /\ task \in [Requests -> Task] /\ task[q] \in Task
  BY <1>1 DEF TypeOK, Suffix
<1>3. task[q].pc \in Mutating /\ editLock[ProcessOf[q]] = q
  BY <1>1 DEF Edit, ReadSeed, SaveSeed, TaskInv, Mutating, EditPc
<1>4. CASE ReadSeed(q)
  <2>1. CASE Finish(q)
    BY <1>2, <1>4, <2>1, FaultOps, FinishKeeps DEF OwnFiles, ReadSeed, historyVars
  <2>2. ASSUME NEW edited \in Seeds,
               task' = [task EXCEPT ![q].pc = "save", ![q].base = seed, ![q].merged = edited],
               UNCHANGED <<lockVars, gone>>
        PROVE  IInv'
    <3> DEFINE t == [task[q] EXCEPT !.pc = "save", !.base = seed, !.merged = edited]
    <3>1. t \in Task /\ t.pc = "save" /\ t.base = seed /\ t.merged = edited
      BY <1>2 DEF Task, EditPc
    <3>2. task' = [task EXCEPT ![q] = t] BY <2>2
    <3> HIDE DEF t
    <3>3. TaskInv(q)'
      <4>1. task'[q] = t BY <1>2, <3>2
      <4>2. seed' = seed /\ editLock' = editLock BY <1>4, <2>2 DEF ReadSeed, lockVars
      <4>3. t.pc \notin Syncing \cup ClaimPc \cup Unwritten \cup ApplyPc
        BY <3>1 DEF Syncing, Unwritten, PreviewPc, ApplyPc, ClaimPc
      <4>4. QED BY <1>2, <1>3, <3>1, <4>1, <4>2, <4>3 DEF TaskInv, Syncing
    <3>4. QED
      BY <1>1, <1>2, <1>4, <2>2, <3>1, <3>2, <3>3, FaultOps, TaskKeeps
      DEF OwnFiles, ReadSeed, lockVars, historyVars, TypeOK
  <2>3. QED BY <1>4, <2>1, <2>2 DEF ReadSeed
<1>5. CASE SaveSeed(q)
  <2>1. task[q].merged \in Seeds BY <1>1, <1>5 DEF TaskInv, SaveSeed
  <2>2. seed' \in Seeds /\ faults' \in 0..MaxFaults BY <1>2, <1>5, <2>1, FaultOps DEF SaveSeed
  <2>3. QED
    BY <1>2, <1>3, <1>5, <2>2, FinishKeeps DEF OwnFiles, SaveSeed, historyVars
<1>6. QED BY <1>4, <1>5 DEF Edit

LEMMA BeginKeeps ==
    ASSUME OneProcess, IInv, NEW q \in Requests,
           BeginPreview(q) \/ BeginEdit(q) \/ \E r \in Receipts : BeginApply(q, r)
    PROVE  IInv'
<1>1. TypeOK /\ TaskInv(q) /\ ProcessOf[q] \in Processes BY ProcessAssumption DEF IInv
<1>2. /\ file \in [Receipts -> Suffix]
      /\ receipt \in [Receipts -> Binding \cup {Unsealed}]
      /\ task \in [Requests -> Task] /\ task[q] \in Task
      /\ syncLock \in [Processes -> Requests \cup {Nobody}]
      /\ editLock \in [Processes -> Requests \cup {Nobody}]
  BY <1>1 DEF TypeOK, Suffix
<1>3. CASE BeginPreview(q)
  <2> DEFINE t == [task[q] EXCEPT !.pc = "previewCheck"]
  <2>1. t \in Task /\ t.pc = "previewCheck" BY <1>2 DEF Task, PreviewPc
  <2>2. task' = [task EXCEPT ![q] = t] BY <1>3 DEF BeginPreview
  <2> HIDE DEF t
  <2>3. TaskInv(q)'
    <3>1. task'[q] = t /\ syncLock'[ProcessOf[q]] = q BY <1>1, <1>2, <1>3, <2>2 DEF BeginPreview
    <3>2. QED BY <2>1, <3>1, PreviewHolds DEF PreviewPc
  <2>4. QED
    BY <1>1, <1>2, <1>3, <2>1, <2>2, <2>3, FaultOps, TaskKeeps
    DEF OwnFiles, BeginPreview, historyVars
<1>4. CASE BeginEdit(q)
  <2> DEFINE t == [task[q] EXCEPT !.pc = "read"]
  <2>1. t \in Task /\ t.pc = "read" BY <1>2 DEF Task, EditPc
  <2>2. task' = [task EXCEPT ![q] = t] BY <1>4 DEF BeginEdit
  <2>3. editLock' = [editLock EXCEPT ![ProcessOf[q]] = q] BY <1>4 DEF BeginEdit
  <2> HIDE DEF t
  <2>4. TaskInv(q)'
    <3>1. task'[q] = t /\ editLock'[ProcessOf[q]] = q BY <1>1, <1>2, <2>2, <2>3
    <3>2. QED
      BY <2>1, <3>1 DEF TaskInv, Unwritten, Mutating, Syncing, PreviewPc, ApplyPc, ClaimPc, EditPc
  <2>5. /\ editLock' \in [Processes -> Requests \cup {Nobody}]
        /\ \A x \in Processes : editLock[x] \notin {q, Nobody} => editLock'[x] = editLock[x]
    BY <1>1, <1>2, <1>4, <2>3 DEF BeginEdit
  <2>6. QED
    BY <1>1, <1>2, <1>4, <2>1, <2>2, <2>4, <2>5, FaultOps, TaskKeeps
    DEF OwnFiles, BeginEdit, historyVars
<1>5. ASSUME NEW r \in Receipts, BeginApply(q, r) PROVE IInv'
  <2> DEFINE t == [pc |-> "load", receipt |-> r,
                   base |-> receipt[r].base, merged |-> receipt[r].merged]
  <2>1. r \in Sealed /\ receipt[r] \in Binding
    BY <1>2, <1>5 DEF BeginApply, Sealed
  <2>2. /\ t \in Task /\ t.pc = "load" /\ t.receipt = r
        /\ t.base \in Seeds /\ t.merged \in Seeds
    BY <2>1 DEF Task, ApplyPc, Binding
  <2>3. task' = [task EXCEPT ![q] = t] BY <1>5 DEF BeginApply
  <2>4. editLock' = [editLock EXCEPT ![ProcessOf[q]] = q] BY <1>5 DEF BeginApply
  <2> HIDE DEF t
  <2>5. TaskInv(q)'
    <3>1. /\ task'[q] = t /\ editLock'[ProcessOf[q]] = q
          /\ syncLock'[ProcessOf[q]] = q
      BY <1>1, <1>2, <1>5, <2>3, <2>4 DEF BeginApply
    <3>2. Sealed' = Sealed BY <1>5 DEF BeginApply, Sealed
    <3>3. QED
      BY <2>1, <2>2, <3>1, <3>2
      DEF TaskInv, Unwritten, Mutating, Syncing, PreviewPc, ApplyPc, ClaimPc, EditPc
  <2>6. /\ editLock' \in [Processes -> Requests \cup {Nobody}]
        /\ \A x \in Processes : editLock[x] \notin {q, Nobody} => editLock'[x] = editLock[x]
    BY <1>1, <1>2, <1>5, <2>4 DEF BeginApply
  <2>7. QED
    BY <1>1, <1>2, <1>5, <2>2, <2>3, <2>5, <2>6, FaultOps, TaskKeeps
    DEF OwnFiles, BeginApply, historyVars
<1>6. QED BY <1>3, <1>4, <1>5

\* A crash loses the requests of a process with their locks, and leaves the files.
LEMMA CrashKeeps ==
    ASSUME IInv, NEW x \in Processes, Crash(x)
    PROVE  IInv'
<1>1. TypeOK BY DEF IInv
<1>2. Idle \in Task /\ Idle.pc = "idle" BY DEF Idle, Task
<1>3. task \in [Requests -> Task] BY <1>1 DEF TypeOK
<1>4. /\ task' \in [Requests -> Task]
      /\ \A q \in Requests : task'[q] = Idle \/ (task'[q] = task[q] /\ (ProcessOf[q] # x \/ task[q].pc = "idle"))
  BY <1>2, <1>3 DEF Crash
<1>5. /\ editLock' \in [Processes -> Requests \cup {Nobody}]
      /\ syncLock' \in [Processes -> Requests \cup {Nobody}]
      /\ \A y \in Processes \ {x} : editLock'[y] = editLock[y] /\ syncLock'[y] = syncLock[y]
  BY <1>1 DEF Crash, TypeOK
<1>6. /\ UNCHANGED <<seed, file, receipt, superseded, writes>>
      /\ faults' \in 0..MaxFaults /\ gone' \in SUBSET Requests
  BY <1>1, FaultOps DEF Crash, TypeOK, historyVars
<1>7. TypeOK' BY <1>1, <1>4, <1>5, <1>6 DEF TypeOK
<1>8. ASSUME NEW q \in Requests PROVE TaskInv(q)'
  <2>1. CASE task'[q].pc = "idle"
    BY <2>1 DEF TaskInv, Unwritten, Mutating, Syncing, PreviewPc, ApplyPc, ClaimPc, EditPc
  <2>2. CASE task'[q] = task[q] /\ ProcessOf[q] # x
    <3>1. /\ editLock'[ProcessOf[q]] = editLock[ProcessOf[q]]
          /\ syncLock'[ProcessOf[q]] = syncLock[ProcessOf[q]]
      BY <1>5, <2>2, ProcessAssumption
    <3>2. QED BY <1>6, <2>2, <3>1 DEF IInv, TaskInv, In, Sealed
  <2>3. QED BY <1>2, <1>4, <2>1, <2>2
<1>9. \A r \in Receipts : (ReceiptInv(r) /\ writes[r] <= 1)'
  BY <1>6 DEF IInv, ReceiptInv, Sealed
<1>10. QED BY <1>7, <1>8, <1>9 DEF IInv

LEMMA CancelKeeps ==
    ASSUME IInv, NEW q \in Requests, Cancel(q)
    PROVE  IInv'
<1>1. TypeOK' BY DEF IInv, TypeOK, Cancel, lockVars, historyVars
<1>2. \A p \in Requests : TaskInv(p)'
  BY DEF IInv, TaskInv, In, Sealed, Cancel, lockVars, historyVars
<1>3. \A r \in Receipts : (ReceiptInv(r) /\ writes[r] <= 1)'
  BY DEF IInv, ReceiptInv, Sealed, Cancel, historyVars
<1>4. QED BY <1>1, <1>2, <1>3 DEF IInv

-----------------------------------------------------------------------------
\* Any number of processes

\* What a request knows by itself, whatever other processes do: the seeds it works with,
\* the receipt it applies, and that nobody but itself makes a receipt that it has claimed
\* active again.
LocalInv(q) ==
    /\ task[q].pc \in ApplyPc \cup {"save"} => {task[q].base, task[q].merged} \subseteq Seeds
    /\ task[q].pc \in PreviewPc \ {"previewCheck", "previewRead"} => task[q].base \in Seeds
    /\ task[q].pc \in {"previewSeal", "previewWrite"} => task[q].merged \in Seeds
    /\ task[q].pc = "previewClean" => task[q].receipt \in Receipts
    /\ task[q].pc \in ApplyPc => task[q].receipt \in Sealed
    /\ task[q].pc \in ClaimPc => file[task[q].receipt] # "json"

ClaimInv == TypeOK /\ OneClaim /\ \A q \in Requests : LocalInv(q)

\* The variables that are not about requests.
DataType ==
    /\ seed \in Seeds
    /\ file \in [Receipts -> Suffix]
    /\ receipt \in [Receipts -> Binding \cup {Unsealed}]
    /\ faults \in 0..MaxFaults
    /\ superseded \in SUBSET Receipts
    /\ writes \in [Receipts -> 0..2]

\* q claims a receipt only while it is active, and keeps the one that it has claimed.
OwnClaim(q) ==
    task'[q].pc \in ClaimPc =>
        \/ task[q].pc \in ClaimPc /\ task'[q].receipt = task[q].receipt
        \/ file[task'[q].receipt] = "json"

\* A step of q that seals no receipt twice and makes none active but its own.
LEMMA ClaimKeeps ==
    ASSUME ClaimInv, NEW q \in Requests, TypeOK',
           \A p \in Requests \ {q} : task'[p] = task[p],
           \A r \in Sealed : r \in Sealed',
           OwnFiles(q), OwnClaim(q), LocalInv(q)'
    PROVE  ClaimInv'
<1>1. Sealed \subseteq Receipts BY DEF Sealed
<1>2. ClaimPc \subseteq ApplyPc BY DEF ApplyPc
<1>3. ASSUME NEW p \in Requests, p # q PROVE LocalInv(p)'
  <2>1. task'[p] = task[p] /\ LocalInv(p) BY <1>3 DEF ClaimInv
  <2>2. ASSUME task[p].pc \in ClaimPc PROVE file'[task[p].receipt] # "json"
    <3>1. /\ task[p].receipt \in Sealed /\ task[p].receipt \in Receipts
          /\ file[task[p].receipt] # "json"
      BY <1>1, <1>2, <2>1, <2>2 DEF LocalInv
    <3>2. ~ (task[q].pc = "restore" /\ task[p].receipt = task[q].receipt)
      BY <1>3, <2>2 DEF ClaimInv, OneClaim, ClaimPc
    <3>3. QED BY <3>1, <3>2 DEF OwnFiles
  <2>3. QED BY <2>1, <2>2 DEF LocalInv
<1>4. OneClaim'
  <2>1. ASSUME NEW p \in Requests, p # q, task'[p].pc \in ClaimPc, task'[q].pc \in ClaimPc,
               task'[p].receipt = task'[q].receipt
        PROVE  FALSE
    <3>1. task'[p] = task[p] /\ LocalInv(p) BY <2>1 DEF ClaimInv
    <3>2. file[task[p].receipt] # "json" BY <2>1, <3>1 DEF LocalInv
    <3>3. task[q].pc \in ClaimPc /\ task'[q].receipt = task[q].receipt
      BY <2>1, <3>1, <3>2 DEF OwnClaim
    <3>4. QED BY <2>1, <3>1, <3>3 DEF ClaimInv, OneClaim
  <2>2. ASSUME NEW p \in Requests, NEW o \in Requests, p # q, o # q
        PROVE  task'[p] = task[p] /\ task'[o] = task[o]
    BY <2>2
  <2>3. QED BY <2>1, <2>2 DEF ClaimInv, OneClaim
<1>5. QED BY <1>3, <1>4 DEF ClaimInv

LEMMA FinishClaims ==
    ASSUME ClaimInv, NEW q \in Requests, Finish(q), DataType',
           \A r \in Sealed : r \in Sealed', OwnFiles(q)
    PROVE  ClaimInv'
<1>1. TypeOK BY DEF ClaimInv
<1>2. TypeOK' BY <1>1, FinishOps DEF TypeOK, DataType, Suffix
<1>3. task'[q].pc = "idle" BY <1>1, FinishOps DEF Idle
<1>4. OwnClaim(q) /\ LocalInv(q)'
  BY <1>3 DEF OwnClaim, LocalInv, ApplyPc, ClaimPc, PreviewPc
<1>5. QED BY <1>1, <1>2, <1>4, FinishOps, ClaimKeeps

LEMMA GotoClaims ==
    ASSUME ClaimInv, NEW q \in Requests, NEW pc \in Pc, Goto(q, pc), DataType',
           \A r \in Sealed : r \in Sealed', OwnFiles(q),
           pc \in ApplyPc => task[q].pc \in ApplyPc,
           pc \in PreviewPc => task[q].pc \in PreviewPc \ {"previewCheck", "previewRead"}
                               \/ pc \in {"previewCheck", "previewRead"},
           pc \in {"previewSeal", "previewWrite"} => task[q].merged \in Seeds,
           pc # "previewClean", pc # "save",
           pc \in ClaimPc => /\ file'[task[q].receipt] # "json"
                             /\ task[q].pc \in ClaimPc \/ file[task[q].receipt] = "json"
    PROVE  ClaimInv'
<1>1. TypeOK /\ LocalInv(q) BY DEF ClaimInv
<1>2. TypeOK' BY <1>1, GotoOps DEF TypeOK, DataType, Suffix
<1>3. OwnClaim(q) BY <1>1, GotoOps DEF OwnClaim
<1>4. LocalInv(q)' BY <1>1, GotoOps DEF LocalInv
<1>5. QED BY <1>1, <1>2, <1>3, <1>4, GotoOps, ClaimKeeps

LEMMA TaskClaims ==
    ASSUME ClaimInv, NEW q \in Requests, NEW t \in Task, task' = [task EXCEPT ![q] = t],
           DataType', \A r \in Sealed : r \in Sealed', OwnFiles(q),
           syncLock' \in [Processes -> Requests \cup {Nobody}],
           editLock' \in [Processes -> Requests \cup {Nobody}],
           gone' \in SUBSET Requests,
           t.pc \notin ClaimPc, LocalInv(q)'
    PROVE  ClaimInv'
<1>1. TypeOK BY DEF ClaimInv
<1>2. /\ task' \in [Requests -> Task] /\ task'[q] = t
      /\ \A p \in Requests \ {q} : task'[p] = task[p]
  BY <1>1 DEF TypeOK
<1>3. TypeOK' BY <1>2 DEF TypeOK, DataType, Suffix
<1>4. OwnClaim(q) BY <1>2 DEF OwnClaim
<1>5. QED BY <1>2, <1>3, <1>4, ClaimKeeps

\* A step that leaves the receipts and the seed alone leaves them as they are, and may
\* rename files and count faults within their types.
LEMMA DataKeeps ==
    ASSUME ClaimInv, UNCHANGED <<seed, receipt, writes>>,
           superseded' \in SUBSET Receipts, faults' \in 0..MaxFaults,
           file' \in [Receipts -> Suffix]
    PROVE  DataType' /\ \A r \in Sealed : r \in Sealed'
BY DEF ClaimInv, TypeOK, DataType, Sealed

\* A step that only removes a receipt's file.
LEMMA RemoveClaims ==
    ASSUME ClaimInv, NEW r \in Receipts, Rename(r, "absent"), Works,
           UNCHANGED <<seed, receipt, syncLock, editLock, task, gone, superseded, writes>>
    PROVE  ClaimInv'
<1>1. TypeOK /\ "absent" \in Suffix BY DEF ClaimInv, Suffix
<1>2. file' \in [Receipts -> Suffix] /\ \A o \in Receipts : file'[o] \in {file[o], "absent"}
  BY <1>1, RenameFiles
<1>3. TypeOK' BY <1>1, <1>2, FaultCounts DEF TypeOK, Suffix
<1>4. Sealed' = Sealed /\ Sealed \subseteq Receipts /\ ClaimPc \subseteq ApplyPc
  BY DEF Sealed, ApplyPc
<1>5. ASSUME NEW q \in Requests PROVE LocalInv(q)'
  BY <1>2, <1>4 DEF ClaimInv, LocalInv
<1>6. OneClaim' BY DEF ClaimInv, OneClaim
<1>7. QED BY <1>3, <1>5, <1>6 DEF ClaimInv

LEMMA PreviewClaims ==
    ASSUME ClaimInv, NEW q \in Requests, Preview(q)
    PROVE  ClaimInv'
<1>1. TypeOK /\ LocalInv(q) BY DEF ClaimInv
<1>2. /\ seed \in Seeds /\ file \in [Receipts -> Suffix] /\ superseded \in SUBSET Receipts
      /\ receipt \in [Receipts -> Binding \cup {Unsealed}]
      /\ Sealed \subseteq Receipts
      /\ task \in [Requests -> Task] /\ task[q] \in Task
      /\ syncLock \in [Processes -> Requests \cup {Nobody}]
      /\ editLock \in [Processes -> Requests \cup {Nobody}]
      /\ gone \in SUBSET Requests
  BY <1>1 DEF TypeOK, Suffix, Sealed
<1>3. file' = file => OwnFiles(q) /\ file' \in [Receipts -> Suffix]
  BY <1>2 DEF OwnFiles
<1>4. PreviewPc \subseteq Pc /\ PreviewPc \cap (ApplyPc \cup {"save"}) = {}
      /\ ClaimPc \subseteq ApplyPc
  BY DEF Pc, PreviewPc, ApplyPc, ClaimPc
<1>5. CASE PreviewCheck(q)
  <2>1. DataType' /\ \A r \in Sealed : r \in Sealed'
    BY <1>1, <1>2, <1>5, DataKeeps, FaultCounts DEF PreviewCheck, historyVars
  <2>2. ASSUME NEW pc \in {"previewRead", "previewWrite"}, Goto(q, pc),
               pc = "previewWrite" => task[q].pc = "previewSeal"
        PROVE  ClaimInv'
    BY <1>1, <1>3, <1>4, <1>5, <2>1, <2>2, GotoClaims DEF PreviewCheck, LocalInv, PreviewPc
  <2>3. QED BY <1>3, <1>5, <2>1, <2>2, FinishClaims DEF PreviewCheck
<1>6. CASE PreviewRead(q)
  <2> DEFINE t == [task[q] EXCEPT !.pc = "previewFetch", !.base = seed]
  <2>1. t \in Task /\ t.pc = "previewFetch" /\ t.base \in Seeds
    BY <1>2 DEF Task, PreviewPc
  <2>2. task' = [task EXCEPT ![q] = t] BY <1>6 DEF PreviewRead
  <2> HIDE DEF t
  <2>3. DataType' /\ \A r \in Sealed : r \in Sealed'
    BY <1>1, <1>2, <1>6, DataKeeps, FaultCounts DEF PreviewRead, historyVars
  <2>4. task'[q] = t BY <1>2, <2>2
  <2>5. LocalInv(q)' BY <1>4, <2>1, <2>4 DEF LocalInv, PreviewPc
  <2>6. QED
    BY <1>2, <1>3, <1>4, <1>6, <2>1, <2>2, <2>3, <2>5, TaskClaims
       DEF PreviewRead, lockVars, PreviewPc
<1>7. CASE PreviewFetch(q)
  <2>1. DataType' /\ \A r \in Sealed : r \in Sealed'
    BY <1>1, <1>2, <1>7, DataKeeps, FaultCounts DEF PreviewFetch, historyVars
  <2>2. CASE Goto(q, "previewInvalidate")
    BY <1>1, <1>3, <1>4, <1>7, <2>1, <2>2, GotoClaims DEF PreviewFetch, PreviewPc
  <2>3. ASSUME NEW merged \in Seeds \cup {NoSeed},
               task' = [task EXCEPT ![q].pc = "previewRecheck", ![q].merged = merged],
               UNCHANGED <<lockVars, gone>>
        PROVE  ClaimInv'
    <3> DEFINE t == [task[q] EXCEPT !.pc = "previewRecheck", !.merged = merged]
    <3>1. t \in Task /\ t.pc = "previewRecheck" /\ t.base = task[q].base
      BY <1>2 DEF Task, PreviewPc
    <3>2. task' = [task EXCEPT ![q] = t] BY <2>3
    <3> HIDE DEF t
    <3>3. task'[q] = t BY <1>2, <3>2
    <3>4. task[q].pc = "previewFetch" BY <1>7 DEF PreviewFetch
    <3>5. task[q].base \in Seeds BY <1>1, <3>4 DEF LocalInv, PreviewPc
    <3>6. LocalInv(q)' BY <1>4, <3>1, <3>3, <3>5 DEF LocalInv, PreviewPc
    <3>7. QED
      BY <1>2, <1>3, <1>4, <1>7, <2>1, <2>3, <3>1, <3>2, <3>6, TaskClaims
         DEF PreviewFetch, lockVars, PreviewPc
  <2>4. QED BY <1>3, <1>7, <2>1, <2>2, <2>3, FinishClaims DEF PreviewFetch
<1>8. CASE PreviewRecheck(q)
  <2>1. DataType' /\ \A r \in Sealed : r \in Sealed'
    BY <1>1, <1>2, <1>8, DataKeeps, FaultCounts DEF PreviewRecheck, historyVars
  <2>2. task[q].pc = "previewRecheck" /\ task[q].merged \in Seeds \cup {NoSeed}
    BY <1>2, <1>8 DEF PreviewRecheck, Task
  <2>3. ASSUME NEW pc \in {"previewInvalidate", "previewSeal"}, Goto(q, pc),
               pc = "previewSeal" => task[q].merged # NoSeed
        PROVE  ClaimInv'
    BY <1>1, <1>3, <1>4, <1>8, <2>1, <2>2, <2>3, GotoClaims DEF PreviewRecheck, PreviewPc
  <2>4. QED BY <1>3, <1>8, <2>1, <2>3, FinishClaims DEF PreviewRecheck
<1>9. CASE PreviewWrite(q)
  <2>1. /\ task[q].pc = "previewWrite" /\ task[q].base \in Seeds /\ task[q].merged \in Seeds
    BY <1>1, <1>9 DEF PreviewWrite, LocalInv, PreviewPc
  <2>2. CASE Finish(q) /\ UNCHANGED <<file, receipt>> /\ Fault
    <3>1. DataType' /\ \A r \in Sealed : r \in Sealed'
      BY <1>1, <1>2, <1>9, <2>2, DataKeeps, FaultCounts DEF PreviewWrite, historyVars
    <3>2. QED BY <1>3, <2>2, <3>1, FinishClaims
  <2>3. ASSUME NEW r \in Receipts \ Sealed,
               receipt' = [receipt EXCEPT ![r] = [base |-> task[q].base, merged |-> task[q].merged]],
               Rename(r, "json"),
               task' = [task EXCEPT ![q].pc = "previewClean", ![q].receipt = r],
               UNCHANGED <<lockVars, gone>>, Works
        PROVE  ClaimInv'
    <3> DEFINE t == [task[q] EXCEPT !.pc = "previewClean", !.receipt = r]
               b == [base |-> task[q].base, merged |-> task[q].merged]
    <3>1. t \in Task /\ t.pc = "previewClean" /\ t.base = task[q].base /\ t.receipt = r
      BY <1>2 DEF Task, PreviewPc
    <3>2. task' = [task EXCEPT ![q] = t] BY <2>3
    <3>3. b \in Binding BY <2>1 DEF Binding
    <3>4. receipt' = [receipt EXCEPT ![r] = b] BY <2>3
    <3> HIDE DEF t, b
    <3>5. task'[q] = t BY <1>2, <3>2
    <3>6. /\ file' \in [Receipts -> Suffix] /\ file'[r] = "json"
          /\ \A o \in Receipts \ {r} : file'[o] = file[o]
      <4>1. "json" \in Suffix BY DEF Suffix
      <4>2. QED BY <1>1, <2>3, <4>1, RenameFiles
    <3>7. OwnFiles(q) BY <3>6 DEF OwnFiles
    <3>8. \A o \in Sealed : o \in Sealed' BY <1>2, <2>3, <3>4 DEF Sealed
    <3>9. DataType'
      <4>1. receipt' \in [Receipts -> Binding \cup {Unsealed}] BY <1>2, <3>3, <3>4
      <4>2. /\ seed' \in Seeds /\ superseded' \in SUBSET Receipts
            /\ writes' \in [Receipts -> 0..2]
        BY <1>1, <1>2, <1>9 DEF PreviewWrite, historyVars, TypeOK
      <4>3. faults' \in 0..MaxFaults BY <1>1, <2>3, FaultCounts
      <4>4. QED BY <3>6, <4>1, <4>2, <4>3 DEF DataType
    <3>10. LocalInv(q)' BY <1>4, <2>1, <3>1, <3>5 DEF LocalInv, PreviewPc
    <3>11. QED
      BY <1>2, <1>4, <2>3, <3>1, <3>2, <3>7, <3>8, <3>9, <3>10, TaskClaims
         DEF lockVars, PreviewPc
  <2>4. QED BY <1>9, <2>2, <2>3 DEF PreviewWrite
<1>10. CASE PreviewClean(q)
  <2> DEFINE own == task[q].receipt
  <2>1. own \in Receipts BY <1>1, <1>10 DEF PreviewClean, LocalInv
  <2>2. ASSUME NEW r \in Receipts, Rename(r, "absent"), Works,
               UNCHANGED <<task, lockVars, gone, superseded>>
        PROVE  ClaimInv'
    BY <1>10, <2>2, RemoveClaims DEF PreviewClean, lockVars
  <2>3. ASSUME Finish(q), superseded' = superseded \cup (Sealed \ {own}), UNCHANGED file, Works
        PROVE  ClaimInv'
    <3>1. DataType' /\ \A r \in Sealed : r \in Sealed'
      BY <1>1, <1>2, <1>10, <2>3, DataKeeps, FaultCounts DEF PreviewClean
    <3>2. QED BY <1>3, <2>3, <3>1, FinishClaims
  <2>4. ASSUME Rename(own, IF file[own] = "json" THEN "absent" ELSE file[own]),
               Finish(q), UNCHANGED superseded, Fault
        PROVE  ClaimInv'
    <3> DEFINE sfx == IF file[own] = "json" THEN "absent" ELSE file[own]
    <3>1. sfx \in Suffix /\ sfx # "json" /\ (sfx = "applying" => file[own] = "applying")
      BY <1>2, <2>1 DEF Suffix
    <3>2. Rename(own, sfx) BY <2>4
    <3> HIDE DEF sfx, own
    <3>3. file' \in [Receipts -> Suffix] /\ OwnFiles(q)
      BY <1>1, <2>1, <3>1, <3>2, RenameFiles DEF OwnFiles
    <3>4. DataType' /\ \A r \in Sealed : r \in Sealed'
      BY <1>1, <1>2, <1>10, <2>4, <3>3, DataKeeps, FaultCounts DEF PreviewClean
    <3>5. QED BY <2>4, <3>3, <3>4, FinishClaims
  <2>5. QED BY <1>10, <2>2, <2>3, <2>4 DEF PreviewClean, In
<1>11. CASE PreviewInvalidate(q)
  <2>1. ASSUME NEW r \in Receipts, Rename(r, "absent"), Works,
               UNCHANGED <<task, lockVars, gone, superseded>>
        PROVE  ClaimInv'
    BY <1>11, <2>1, RemoveClaims DEF PreviewInvalidate, lockVars
  <2>2. ASSUME Finish(q), superseded' \in SUBSET Receipts, UNCHANGED file, Works \/ Fault
        PROVE  ClaimInv'
    <3>1. DataType' /\ \A r \in Sealed : r \in Sealed'
      BY <1>1, <1>2, <1>11, <2>2, DataKeeps, FaultCounts DEF PreviewInvalidate
    <3>2. QED BY <1>3, <2>2, <3>1, FinishClaims
  <2>3. superseded \cup Sealed \in SUBSET Receipts BY <1>2
  <2>4. QED BY <1>2, <1>11, <2>1, <2>2, <2>3 DEF PreviewInvalidate, In
<1>12. QED
  BY <1>5, <1>6, <1>7, <1>8, <1>9, <1>10, <1>11 DEF Preview

LEMMA ApplyClaims ==
    ASSUME ClaimInv, NEW q \in Requests, Apply(q)
    PROVE  ClaimInv'
<1> DEFINE r == task[q].receipt
<1>1. TypeOK /\ LocalInv(q) BY DEF ClaimInv
<1>2. /\ seed \in Seeds /\ file \in [Receipts -> Suffix] /\ superseded \in SUBSET Receipts
      /\ Sealed \subseteq Receipts
  BY <1>1 DEF TypeOK, Suffix, Sealed
<1>3. task[q].pc \in ApplyPc
  BY DEF Apply, ApplyPc, ClaimPc, Load, ResumeReceipt, CheckActive, Claim, SyncClaim,
         RecheckSeed, WriteSeed, VerifySeed, RestoreReceipt, FinalizeReceipt, CleanApplied
<1>4. /\ r \in Receipts /\ r \in Sealed
      /\ task[q].base \in Seeds /\ task[q].merged \in Seeds
      /\ task[q].pc \in ClaimPc => file[r] # "json"
  BY <1>1, <1>2, <1>3 DEF LocalInv
<1>5. file' = file => OwnFiles(q) /\ file' \in [Receipts -> Suffix]
  BY <1>2 DEF OwnFiles
<1>6. /\ ApplyPc \subseteq Pc /\ ApplyPc \cap (PreviewPc \cup {"save"}) = {}
      /\ ClaimPc \subseteq ApplyPc /\ "previewClean" \in PreviewPc
      /\ {"previewSeal", "previewWrite"} \subseteq PreviewPc
  BY DEF Pc, PreviewPc, ApplyPc, ClaimPc
<1>7. ASSUME ~ WriteSeed(q), file' \in [Receipts -> Suffix]
      PROVE  DataType' /\ \A o \in Sealed : o \in Sealed'
  <2>1. UNCHANGED <<seed, receipt, writes, superseded>>
    BY <1>7 DEF Apply, Load, ResumeReceipt, CheckActive, Claim, SyncClaim, RecheckSeed,
              VerifySeed, RestoreReceipt, FinalizeReceipt, CleanApplied, historyVars
  <2>2. Fault \/ Works \/ faults' = faults
    BY <1>7 DEF Apply, Load, ResumeReceipt, CheckActive, Claim, SyncClaim, RecheckSeed,
              VerifySeed, RestoreReceipt, FinalizeReceipt, CleanApplied
  <2>3. QED BY <1>1, <1>2, <1>7, <2>1, <2>2, DataKeeps, FaultCounts
\* A step that only moves on, with the files as they are.
<1>8. ASSUME NEW pc \in ApplyPc, Goto(q, pc), UNCHANGED file, ~ WriteSeed(q),
             pc \in ClaimPc => task[q].pc \in ClaimPc
      PROVE  ClaimInv'
  BY <1>3, <1>4, <1>5, <1>6, <1>7, <1>8, GotoClaims
<1>9. ASSUME Finish(q), UNCHANGED file, ~ WriteSeed(q) PROVE ClaimInv'
  BY <1>5, <1>7, <1>9, FinishClaims
<1>10. CASE Load(q)
  <2>1. task[q].pc = "load" /\ ~ WriteSeed(q) BY <1>10 DEF Load, WriteSeed
  <2>2. CASE Rename(r, "absent") /\ Finish(q)
    <3>1. file' \in [Receipts -> Suffix] /\ OwnFiles(q)
      BY <1>1, <1>4, <2>2, RenameFiles DEF Suffix, OwnFiles
    <3>2. QED BY <1>7, <2>1, <2>2, <3>1, FinishClaims
  <2>3. CASE file[r] # "absent" /\ Goto(q, file[r]) /\ UNCHANGED file
    <3>1. file[r] \in ApplyPc \ ClaimPc BY <1>2, <1>4, <2>3 DEF Suffix, ApplyPc, ClaimPc
    <3>2. QED BY <1>8, <2>1, <2>3, <3>1
  <2>4. QED BY <1>9, <1>10, <2>1, <2>2, <2>3 DEF Load
<1>11. CASE ResumeReceipt(q)
  <2>1. ~ WriteSeed(q) /\ UNCHANGED file BY <1>11 DEF ResumeReceipt, WriteSeed
  <2>2. "finalize" \in ApplyPc \ ClaimPc BY DEF ApplyPc, ClaimPc
  <2>3. QED BY <1>8, <1>9, <1>11, <2>1, <2>2 DEF ResumeReceipt
<1>12. CASE CheckActive(q)
  <2>1. ~ WriteSeed(q) /\ UNCHANGED file BY <1>12 DEF CheckActive, WriteSeed
  <2>2. {"claim", "claimCommitted"} \subseteq ApplyPc \ ClaimPc BY DEF ApplyPc, ClaimPc
  <2>3. QED BY <1>8, <1>9, <1>12, <2>1, <2>2 DEF CheckActive
<1>13. CASE Claim(q)
  <2>1. ~ WriteSeed(q) BY <1>13 DEF Claim, WriteSeed
  <2>2. ASSUME file[r] = "json", Rename(r, "applying"),
               NEW pc \in {"claimed", "claimedCommitted"}, Goto(q, pc)
        PROVE  ClaimInv'
    <3>1. /\ file' \in [Receipts -> Suffix] /\ file'[r] # "json" /\ OwnFiles(q)
      BY <1>1, <1>3, <1>4, <2>2, RenameFiles DEF Suffix, OwnFiles
    <3>2. pc \in ApplyPc BY DEF ApplyPc, ClaimPc
    <3>3. QED BY <1>3, <1>6, <1>7, <2>1, <2>2, <3>1, <3>2, GotoClaims
  <2>3. "load" \in ApplyPc \ ClaimPc BY DEF ApplyPc, ClaimPc
  <2>4. QED BY <1>8, <1>9, <1>13, <2>1, <2>2, <2>3 DEF Claim
<1>14. CASE SyncClaim(q)
  <2>1. ~ WriteSeed(q) /\ UNCHANGED file BY <1>14 DEF SyncClaim, WriteSeed
  <2>2. {"recheck", "finalize", "restore"} \subseteq ApplyPc /\ task[q].pc \in ClaimPc
    BY <1>14 DEF SyncClaim, ApplyPc, ClaimPc
  <2>3. QED BY <1>8, <1>14, <2>1, <2>2 DEF SyncClaim
<1>15. CASE RecheckSeed(q)
  <2>1. ~ WriteSeed(q) /\ UNCHANGED file BY <1>15 DEF RecheckSeed, WriteSeed
  <2>2. {"write", "restore"} \subseteq ApplyPc /\ task[q].pc \in ClaimPc
    BY <1>15 DEF RecheckSeed, ApplyPc, ClaimPc
  <2>3. QED BY <1>8, <1>15, <2>1, <2>2 DEF RecheckSeed
<1>16. CASE WriteSeed(q)
  <2>1. /\ task[q].pc = "write" /\ UNCHANGED <<file, receipt, superseded>>
        /\ Goto(q, "verify") /\ seed' \in {seed, task[q].merged}
        /\ \/ writes' = writes
           \/ writes' = [writes EXCEPT ![r] = IF @ = 0 THEN 1 ELSE 2]
        /\ Works \/ Fault
    BY <1>16 DEF WriteSeed
  <2>2. writes' \in [Receipts -> 0..2] BY <1>1, <2>1 DEF TypeOK
  <2>3. DataType' /\ \A o \in Sealed : o \in Sealed'
    BY <1>1, <1>2, <1>4, <2>1, <2>2, FaultCounts DEF DataType, Sealed, TypeOK
  <2>4. "verify" \in ApplyPc /\ task[q].pc \in ClaimPc BY <2>1 DEF ApplyPc, ClaimPc
  <2>5. QED BY <1>3, <1>4, <1>5, <1>6, <2>1, <2>3, <2>4, GotoClaims
<1>17. CASE VerifySeed(q)
  <2>1. ~ WriteSeed(q) /\ UNCHANGED file BY <1>17 DEF VerifySeed, WriteSeed
  <2>2. {"finalize", "restore"} \subseteq ApplyPc /\ task[q].pc \in ClaimPc
    BY <1>17 DEF VerifySeed, ApplyPc, ClaimPc
  <2>3. QED BY <1>8, <1>9, <1>17, <2>1, <2>2 DEF VerifySeed
<1>18. CASE RestoreReceipt(q)
  <2>1. task[q].pc = "restore" /\ Finish(q) /\ ~ WriteSeed(q)
    BY <1>18 DEF RestoreReceipt, WriteSeed
  <2>2. CASE Rename(r, "json")
    <3>1. file' \in [Receipts -> Suffix] /\ OwnFiles(q)
      BY <1>1, <1>4, <2>1, <2>2, RenameFiles DEF Suffix, OwnFiles
    <3>2. QED BY <1>7, <2>1, <3>1, FinishClaims
  <2>3. QED BY <1>9, <1>18, <2>1, <2>2 DEF RestoreReceipt
<1>19. CASE FinalizeReceipt(q)
  <2>1. ~ WriteSeed(q) BY <1>19 DEF FinalizeReceipt, WriteSeed
  <2>2. CASE Rename(r, "applied") /\ Goto(q, "clean")
    <3>1. file' \in [Receipts -> Suffix] /\ OwnFiles(q)
      BY <1>1, <1>4, <2>2, RenameFiles DEF Suffix, OwnFiles
    <3>2. "clean" \in ApplyPc \ ClaimPc BY DEF ApplyPc, ClaimPc
    <3>3. QED BY <1>3, <1>6, <1>7, <2>1, <2>2, <3>1, <3>2, GotoClaims
  <2>3. QED BY <1>9, <1>19, <2>1, <2>2 DEF FinalizeReceipt
<1>20. CASE CleanApplied(q)
  <2>1. ~ WriteSeed(q) BY <1>20 DEF CleanApplied, WriteSeed
  <2>2. ASSUME NEW o \in Receipts, Rename(o, "absent"), UNCHANGED <<task, lockVars, gone>>, Works
        PROVE  ClaimInv'
    BY <1>20, <2>2, RemoveClaims DEF CleanApplied, lockVars, historyVars
  <2>3. QED BY <1>9, <1>20, <2>1, <2>2 DEF CleanApplied, In
<1>21. QED
  BY <1>10, <1>11, <1>12, <1>13, <1>14, <1>15, <1>16, <1>17, <1>18, <1>19, <1>20 DEF Apply

LEMMA EditClaims ==
    ASSUME ClaimInv, NEW q \in Requests, Edit(q)
    PROVE  ClaimInv'
<1>1. TypeOK /\ LocalInv(q) BY DEF ClaimInv
<1>2. /\ seed \in Seeds /\ file \in [Receipts -> Suffix] /\ superseded \in SUBSET Receipts
      /\ task \in [Requests -> Task] /\ task[q] \in Task
      /\ syncLock \in [Processes -> Requests \cup {Nobody}]
      /\ editLock \in [Processes -> Requests \cup {Nobody}]
      /\ gone \in SUBSET Requests
  BY <1>1 DEF TypeOK, Suffix
<1>3. /\ UNCHANGED <<file, receipt, historyVars>>
      /\ faults' \in 0..MaxFaults
  BY <1>1, FaultCounts DEF Edit, ReadSeed, SaveSeed
<1>4. OwnFiles(q) BY <1>3 DEF OwnFiles
<1>5. seed' \in Seeds
  BY <1>1, <1>2 DEF Edit, ReadSeed, SaveSeed, LocalInv
<1>6. DataType' /\ \A r \in Sealed : r \in Sealed'
  BY <1>1, <1>3, <1>5 DEF DataType, TypeOK, Suffix, Sealed, historyVars
<1>7. CASE Finish(q) BY <1>4, <1>6, <1>7, FinishClaims
<1>8. ASSUME NEW edited \in Seeds,
             task' = [task EXCEPT ![q].pc = "save", ![q].base = seed, ![q].merged = edited],
             UNCHANGED <<lockVars, gone>>
      PROVE  ClaimInv'
  <2> DEFINE t == [task[q] EXCEPT !.pc = "save", !.base = seed, !.merged = edited]
  <2>1. t \in Task /\ t.pc = "save" /\ t.base \in Seeds /\ t.merged \in Seeds
    BY <1>2 DEF Task, EditPc
  <2>2. task' = [task EXCEPT ![q] = t] BY <1>8
  <2> HIDE DEF t
  <2>3. task'[q] = t BY <1>2, <2>2
  <2>4. t.pc \notin ClaimPc BY <2>1 DEF ClaimPc
  <2>5. LocalInv(q)' BY <2>1, <2>3 DEF LocalInv, ApplyPc, ClaimPc, PreviewPc
  <2>6. QED BY <1>2, <1>4, <1>6, <1>8, <2>1, <2>2, <2>4, <2>5, TaskClaims DEF lockVars
<1>9. QED BY <1>7, <1>8 DEF Edit, ReadSeed, SaveSeed

LEMMA BeginClaims ==
    ASSUME ClaimInv, NEW q \in Requests,
           BeginPreview(q) \/ BeginEdit(q) \/ \E r \in Receipts : BeginApply(q, r)
    PROVE  ClaimInv'
<1>1. TypeOK /\ LocalInv(q) /\ ProcessOf[q] \in Processes
  BY ProcessAssumption DEF ClaimInv
<1>2. /\ task \in [Requests -> Task] /\ task[q] \in Task
      /\ receipt \in [Receipts -> Binding \cup {Unsealed}]
      /\ UNCHANGED <<seed, file, receipt, gone, faults, historyVars>>
  BY <1>1 DEF TypeOK, BeginPreview, BeginEdit, BeginApply
<1>3. /\ DataType' /\ \A r \in Sealed : r \in Sealed'
      /\ OwnFiles(q) /\ gone' \in SUBSET Requests
  BY <1>1, <1>2 DEF DataType, TypeOK, Suffix, Sealed, OwnFiles, historyVars
<1>4. /\ syncLock' \in [Processes -> Requests \cup {Nobody}]
      /\ editLock' \in [Processes -> Requests \cup {Nobody}]
  BY <1>1 DEF TypeOK, BeginPreview, BeginEdit, BeginApply
<1>5. ASSUME NEW pc \in {"previewCheck", "read"}, task' = [task EXCEPT ![q].pc = pc]
      PROVE  ClaimInv'
  <2> DEFINE t == [task[q] EXCEPT !.pc = pc]
  <2>1. t \in Task /\ t.pc = pc BY <1>2 DEF Task, PreviewPc, EditPc
  <2>2. task' = [task EXCEPT ![q] = t] BY <1>5
  <2> HIDE DEF t
  <2>3. task'[q] = t BY <1>2, <2>2
  <2>4. t.pc \notin ClaimPc BY <2>1 DEF ClaimPc
  <2>5. LocalInv(q)' BY <2>1, <2>3 DEF LocalInv, ApplyPc, ClaimPc, PreviewPc
  <2>6. QED BY <1>3, <1>4, <2>1, <2>2, <2>4, <2>5, TaskClaims
<1>6. ASSUME NEW r \in Receipts, BeginApply(q, r) PROVE ClaimInv'
  <2> DEFINE t == [pc |-> "load", receipt |-> r,
                   base |-> receipt[r].base, merged |-> receipt[r].merged]
  <2>1. r \in Sealed /\ receipt[r] \in Binding
    BY <1>2, <1>6 DEF BeginApply, Sealed
  <2>2. receipt[r].base \in Seeds /\ receipt[r].merged \in Seeds BY <2>1 DEF Binding
  <2>3. t \in Task /\ t.pc = "load" /\ t.receipt = r /\ t.base \in Seeds /\ t.merged \in Seeds
    BY <2>2 DEF Task, ApplyPc
  <2>4. task' = [task EXCEPT ![q] = t] BY <1>6 DEF BeginApply
  <2> HIDE DEF t
  <2>5. task'[q] = t BY <1>2, <2>4
  <2>6. t.pc \notin ClaimPc BY <2>3 DEF ClaimPc
  <2>7. LocalInv(q)'
    BY <1>3, <2>1, <2>3, <2>5 DEF LocalInv, ClaimPc, PreviewPc
  <2>8. QED BY <1>3, <1>4, <2>3, <2>4, <2>6, <2>7, TaskClaims
<1>7. QED BY <1>5, <1>6 DEF BeginPreview, BeginEdit

LEMMA StopClaims ==
    ASSUME ClaimInv, (\E q \in Requests : Cancel(q)) \/ (\E p \in Processes : Crash(p))
    PROVE  ClaimInv'
<1>1. TypeOK BY DEF ClaimInv
<1>2. UNCHANGED <<seed, file, receipt, historyVars>> /\ faults' \in 0..MaxFaults
  BY <1>1, FaultCounts DEF Cancel, Crash
<1>3. Idle \in Task /\ Idle.pc = "idle" BY DEF Idle, Task
<1>4. /\ task' \in [Requests -> Task]
      /\ \A q \in Requests : task'[q] = task[q] \/ task'[q] = Idle
      /\ gone' \in SUBSET Requests
      /\ syncLock' \in [Processes -> Requests \cup {Nobody}]
      /\ editLock' \in [Processes -> Requests \cup {Nobody}]
  BY <1>1, <1>3 DEF Cancel, Crash, TypeOK, lockVars
<1>5. TypeOK' BY <1>1, <1>2, <1>4 DEF TypeOK, historyVars
<1>6. "idle" \notin ApplyPc \cup PreviewPc \cup ClaimPc \cup {"save"}
  BY DEF ApplyPc, ClaimPc, PreviewPc
<1>7. ASSUME NEW q \in Requests PROVE LocalInv(q)'
  <2>1. CASE task'[q] = Idle
    BY <1>3, <1>6, <2>1 DEF LocalInv, PreviewPc
  <2>2. CASE task'[q] = task[q]
    BY <1>2, <2>2 DEF ClaimInv, LocalInv, Sealed
  <2>3. QED BY <1>4, <2>1, <2>2
<1>8. OneClaim' BY <1>3, <1>4, <1>6 DEF ClaimInv, OneClaim
<1>9. QED BY <1>5, <1>7, <1>8 DEF ClaimInv

LEMMA ClaimInit == Init => ClaimInv
<1> SUFFICES ASSUME Init PROVE ClaimInv OBVIOUS
<1>1. Idle \in Task /\ Idle.pc = "idle" BY DEF Idle, Task
<1>2. TypeOK BY <1>1, FaultAssumption DEF Init, TypeOK
<1>3. \A q \in Requests : task[q].pc = "idle" BY <1>1 DEF Init
<1>4. QED BY <1>2, <1>3 DEF ClaimInv, LocalInv, OneClaim, ApplyPc, ClaimPc, PreviewPc

LEMMA ClaimNext == ASSUME ClaimInv, [Next]_vars PROVE ClaimInv'
<1>1. CASE UNCHANGED vars
  BY <1>1 DEF vars, ClaimInv, TypeOK, OneClaim, LocalInv, Sealed
<1>2. CASE Next
  BY <1>2, PreviewClaims, ApplyClaims, EditClaims, BeginClaims, StopClaims DEF Next
<1>3. QED BY <1>1, <1>2


-----------------------------------------------------------------------------
\* The theorems

LEMMA InitInv == Init => IInv
<1> SUFFICES ASSUME Init PROVE IInv
  OBVIOUS
<1>1. Idle \in Task /\ Idle.pc = "idle" BY DEF Idle, Task
<1>2. TypeOK BY <1>1, FaultAssumption DEF Init, TypeOK
<1>3. \A q \in Requests : TaskInv(q)
  BY <1>1 DEF Init, TaskInv, Unwritten, Mutating, Syncing, PreviewPc, ApplyPc, ClaimPc, EditPc
<1>4. \A r \in Receipts : ReceiptInv(r) /\ writes[r] <= 1 BY DEF Init, ReceiptInv
<1>5. QED BY <1>2, <1>3, <1>4 DEF IInv

LEMMA StepInv == ASSUME OneProcess, IInv, [Next]_vars PROVE IInv'
<1>1. CASE \E q \in Requests :
             BeginPreview(q) \/ BeginEdit(q) \/ \E r \in Receipts : BeginApply(q, r)
  BY <1>1, BeginKeeps
<1>2. CASE \E q \in Requests : Preview(q) BY <1>2, PreviewKeeps
<1>3. CASE \E q \in Requests : Apply(q) BY <1>3, ApplyKeeps
<1>4. CASE \E q \in Requests : Edit(q) BY <1>4, EditKeeps
<1>5. CASE \E q \in Requests : Cancel(q) BY <1>5, CancelKeeps
<1>6. CASE \E x \in Processes : Crash(x) BY <1>6, CrashKeeps
<1>7. CASE UNCHANGED vars
  <2>1. TypeOK' BY <1>7 DEF IInv, TypeOK, vars
  <2>2. \A q \in Requests : TaskInv(q)' BY <1>7 DEF IInv, TaskInv, In, Sealed, vars
  <2>3. \A r \in Receipts : (ReceiptInv(r) /\ writes[r] <= 1)'
    BY <1>7 DEF IInv, ReceiptInv, Sealed, vars
  <2>4. QED BY <2>1, <2>2, <2>3 DEF IInv
<1>8. QED BY <1>1, <1>2, <1>3, <1>4, <1>5, <1>6, <1>7 DEF Next

\* In one process, every reachable state satisfies the invariant of locks, claims and
\* superseded receipts.
THEOREM Invariance == ASSUME OneProcess PROVE Spec => []IInv
<1>1. IInv /\ [Next]_vars => IInv' BY StepInv
<1>2. QED BY InitInv, <1>1, PTL DEF Spec

\* Two processes that apply the same receipt: at most one of them has claimed it, however
\* their steps interleave, fail, are cancelled or crash.  No lock is common to them; the
\* rename of the receipt's file decides (_claim_active_receipt, os.replace).
THEOREM ClaimedByOne == Spec => []OneClaim
<1>1. ClaimInv /\ [Next]_vars => ClaimInv' BY ClaimNext
<1>2. ClaimInv => OneClaim BY DEF ClaimInv
<1>3. QED BY <1>1, <1>2, ClaimInit, PTL DEF Spec

\* Every variable has its type, in any number of processes; in particular, the seed file
\* never holds anything but a seed that some request read or merged.
THEOREM TypeCorrect == Spec => []TypeOK
<1>1. ClaimInv /\ [Next]_vars => ClaimInv' BY ClaimNext
<1>2. ClaimInv => TypeOK BY DEF ClaimInv
<1>3. QED BY <1>1, <1>2, ClaimInit, PTL DEF Spec

\* No lost update: apply_sync and update_chunk replace the content they started from,
\* however requests interleave, are cancelled, fail or crash.
THEOREM NoLostUpdate == ASSUME OneProcess PROVE Spec => []WriterSeesItsBase
<1>1. IInv => WriterSeesItsBase BY DEF IInv, TaskInv, WriterSeesItsBase
<1>2. QED BY Invariance, <1>1, PTL

\* A receipt is written to the seed at most once, whatever is repeated after whatever
\* failure.
THEOREM ReceiptConsumedOnce == ASSUME OneProcess PROVE Spec => []AppliedOnce
<1>1. IInv => AppliedOnce BY DEF IInv, AppliedOnce
<1>2. QED BY Invariance, <1>1, PTL

\* What a later preview replaced, or a STOP invalidated, does not reach the seed.
THEOREM SupersededNeverWritten == ASSUME OneProcess PROVE Spec => []SupersededNotApplied
<1>1. IInv => SupersededNotApplied BY DEF IInv, TaskInv, SupersededNotApplied, ClaimPc
<1>2. QED BY Invariance, <1>1, PTL

-----------------------------------------------------------------------------
(* The receipts implement SeedRegister.  An issued receipt seals; a        *)
(* preview that moves the older ones aside supersedes; "write" applies;    *)
(* "save" saves; an editor that passes its check reads; every other step   *)
(* is a stutter, or editors leave.  Beside IInv the proof needs that a     *)
(* request applies what it has loaded.                                     *)


\* What a request applies is the receipt that it has loaded.
AsLoaded(q) ==
    task[q].pc \in ApplyPc =>
        receipt[task[q].receipt] = [base |-> task[q].base, merged |-> task[q].merged]

Loaded == \A q \in Requests : AsLoaded(q)

\* How a step may move a request: it edits the content that it has read, or none; it
\* applies the receipt that it has loaded, or none.
NotEditing(p) == task[p].pc # "save" /\ task'[p].pc # "save"
SameApply(p) ==
    task'[p].pc \in ApplyPc =>
        /\ task[p].pc \in ApplyPc
        /\ task'[p].receipt = task[p].receipt
        /\ task'[p].base = task[p].base
        /\ task'[p].merged = task[p].merged
OthersStay(q) == \A p \in Requests \ {q} : task'[p] = task[p]

LEMMA PcsApart ==
    /\ PreviewPc \cap (ApplyPc \cup EditPc \cup {"idle"}) = {}
    /\ ApplyPc \cap (EditPc \cup {"idle"}) = {}
    /\ "save" \in EditPc
    /\ Idle.pc = "idle"
BY DEF PreviewPc, ApplyPc, ClaimPc, EditPc, Idle

\* A request that takes a task of its own, and no other changes.
LEMMA TaskTo ==
    ASSUME TypeOK, NEW q \in Requests, NEW t, task' = [task EXCEPT ![q] = t]
    PROVE  task'[q] = t /\ OthersStay(q)
BY DEF TypeOK, OthersStay

LEMMA FinishMoves ==
    ASSUME TypeOK, NEW q \in Requests, Finish(q)
    PROVE  task'[q].pc = "idle" /\ OthersStay(q)
BY TaskTo, PcsApart DEF Finish

LEMMA PreviewMoves ==
    ASSUME TypeOK, NEW q \in Requests, Preview(q)
    PROVE  /\ task[q].pc \in PreviewPc
           /\ task'[q].pc \in PreviewPc \cup {"idle"}
           /\ OthersStay(q)
           /\ seed' = seed /\ writes' = writes
<1>1. task \in [Requests -> Task] /\ task[q] \in Task BY DEF TypeOK
<1>2. task[q].pc \in PreviewPc
  BY DEF PreviewPc, Preview, PreviewCheck, PreviewRead, PreviewFetch,
         PreviewRecheck, PreviewWrite, PreviewClean, PreviewInvalidate
<1>3. UNCHANGED seed /\ UNCHANGED writes
  BY DEF Preview, PreviewCheck, PreviewRead, PreviewFetch, PreviewRecheck, PreviewWrite,
         PreviewClean, PreviewInvalidate, historyVars
<1> DEFINE On == task'[q].pc \in PreviewPc \cup {"idle"} /\ OthersStay(q)
<1>4. ASSUME UNCHANGED task PROVE On
  BY <1>2, <1>4 DEF OthersStay
<1>5. ASSUME NEW pc \in PreviewPc, Goto(q, pc) PROVE On
  BY <1>1, <1>5 DEF OthersStay, Goto, Task
<1>6. ASSUME NEW t, t.pc \in PreviewPc, task' = [task EXCEPT ![q] = t]
      PROVE  On
  BY <1>6, TaskTo
<1>fin. ASSUME Finish(q) PROVE On
  BY <1>fin, FinishMoves
<1> HIDE DEF On
<1>7. ASSUME PreviewCheck(q) PROVE On
  BY <1>5, <1>7, <1>fin DEF PreviewCheck, PreviewPc
<1>8. ASSUME PreviewRead(q) PROVE On
  <2> DEFINE t == [task[q] EXCEPT !.pc = "previewFetch", !.base = seed]
  <2>1. t.pc \in PreviewPc BY <1>1 DEF Task, PreviewPc
  <2>2. task' = [task EXCEPT ![q] = t] BY <1>8 DEF PreviewRead
  <2> HIDE DEF t
  <2>3. QED BY <1>6, <2>1, <2>2
<1>9. ASSUME PreviewFetch(q) PROVE On
  <2>1. ASSUME NEW merged,
               task' = [task EXCEPT ![q].pc = "previewRecheck", ![q].merged = merged]
        PROVE  On
    <3> DEFINE t == [task[q] EXCEPT !.pc = "previewRecheck", !.merged = merged]
    <3>1. t.pc \in PreviewPc BY <1>1 DEF Task, PreviewPc
    <3>2. task' = [task EXCEPT ![q] = t] BY <2>1
    <3> HIDE DEF t
    <3>3. QED BY <1>6, <3>1, <3>2
  <2>2. QED BY <1>5, <1>9, <2>1, <1>fin DEF PreviewFetch, PreviewPc
<1>10. ASSUME PreviewRecheck(q) PROVE On
  BY <1>5, <1>10, <1>fin DEF PreviewRecheck, PreviewPc
<1>11. ASSUME PreviewWrite(q) PROVE On
  <2>1. ASSUME NEW r,
               task' = [task EXCEPT ![q].pc = "previewClean", ![q].receipt = r]
        PROVE  On
    <3> DEFINE t == [task[q] EXCEPT !.pc = "previewClean", !.receipt = r]
    <3>1. t.pc \in PreviewPc BY <1>1 DEF Task, PreviewPc
    <3>2. task' = [task EXCEPT ![q] = t] BY <2>1
    <3> HIDE DEF t
    <3>3. QED BY <1>6, <3>1, <3>2
  <2>2. QED BY <1>11, <2>1, <1>fin DEF PreviewWrite
<1>12. ASSUME PreviewClean(q) PROVE On
  BY <1>4, <1>12, <1>fin DEF PreviewClean
<1>13. ASSUME PreviewInvalidate(q) PROVE On
  BY <1>4, <1>13, <1>fin DEF PreviewInvalidate
<1>14. On
  BY <1>7, <1>8, <1>9, <1>10, <1>11, <1>12, <1>13 DEF Preview
<1>15. QED BY <1>2, <1>3, <1>14 DEF On

\* A step of an application moves on with its receipt or ends.
LEMMA ApplyMovesOn ==
    ASSUME IInv, NEW q \in Requests, Apply(q)
    PROVE  /\ task[q].pc \in ApplyPc
           /\ task'[q].pc \in ApplyPc \cup {"idle"}
           /\ SameApply(q) /\ OthersStay(q)
           /\ receipt' = receipt /\ superseded' = superseded
           /\ ~WriteSeed(q) => seed' = seed /\ writes' = writes
<1>1. task \in [Requests -> Task] /\ task[q] \in Task BY DEF IInv, TypeOK
<1>2. task[q].pc \in ApplyPc
  BY DEF Apply, ApplyPc, ClaimPc, Load, ResumeReceipt, CheckActive, Claim, SyncClaim,
         RecheckSeed, WriteSeed, VerifySeed, RestoreReceipt, FinalizeReceipt, CleanApplied
<1>3. /\ receipt' = receipt /\ superseded' = superseded
      /\ ~WriteSeed(q) => seed' = seed /\ writes' = writes
  BY DEF Apply, Load, ResumeReceipt, CheckActive, Claim, SyncClaim, RecheckSeed, WriteSeed,
         VerifySeed, RestoreReceipt, FinalizeReceipt, CleanApplied, historyVars
<1> DEFINE On == /\ task'[q].pc \in ApplyPc \cup {"idle"}
                 /\ SameApply(q) /\ OthersStay(q)
<1>4. ASSUME UNCHANGED task PROVE On
  BY <1>2, <1>4 DEF OthersStay, SameApply
<1>5. ASSUME NEW pc \in ApplyPc, Goto(q, pc) PROVE On
  <2>1. pc \in Pc BY DEF Pc
  <2>2. QED BY <1>2, <1>5, <2>1, GotoOps DEF IInv, OthersStay, SameApply
<1>6. ASSUME Finish(q) PROVE On
  BY <1>6, FinishMoves, PcsApart DEF IInv, SameApply
<1> HIDE DEF On
<1>7. ASSUME Load(q) PROVE On
  <2>1. CASE Finish(q) BY <1>6, <2>1
  <2>2. CASE file[task[q].receipt] # "absent" /\ Goto(q, file[task[q].receipt])
    <3>1. task[q].receipt \in Receipts BY <1>2 DEF IInv, TaskInv, Sealed
    <3>2. file[task[q].receipt] \in ApplyPc
      BY <2>2, <3>1 DEF IInv, TypeOK, ApplyPc
    <3>3. QED BY <1>5, <2>2, <3>2
  <2>3. QED BY <1>7, <2>1, <2>2 DEF Load
<1>8. ASSUME ResumeReceipt(q) PROVE On
  BY <1>5, <1>6, <1>8 DEF ResumeReceipt, ApplyPc, ClaimPc
<1>9. ASSUME CheckActive(q) PROVE On
  BY <1>5, <1>6, <1>9 DEF CheckActive, ApplyPc, ClaimPc
<1>10. ASSUME Claim(q) PROVE On
  BY <1>5, <1>6, <1>10 DEF Claim, ApplyPc, ClaimPc
<1>11. ASSUME SyncClaim(q) PROVE On
  BY <1>5, <1>11 DEF SyncClaim, ApplyPc, ClaimPc
<1>12. ASSUME RecheckSeed(q) PROVE On
  BY <1>5, <1>12 DEF RecheckSeed, ApplyPc, ClaimPc
<1>13. ASSUME WriteSeed(q) PROVE On
  BY <1>5, <1>13 DEF WriteSeed, ApplyPc, ClaimPc
<1>14. ASSUME VerifySeed(q) PROVE On
  BY <1>5, <1>6, <1>14 DEF VerifySeed, ApplyPc, ClaimPc
<1>15. ASSUME RestoreReceipt(q) PROVE On
  BY <1>6, <1>15 DEF RestoreReceipt
<1>16. ASSUME FinalizeReceipt(q) PROVE On
  BY <1>5, <1>6, <1>16 DEF FinalizeReceipt, ApplyPc
<1>17. ASSUME CleanApplied(q) PROVE On
  BY <1>4, <1>6, <1>17 DEF CleanApplied
<1>18. On
  BY <1>7, <1>8, <1>9, <1>10, <1>11, <1>12, <1>13, <1>14, <1>15, <1>16, <1>17 DEF Apply
<1>19. QED BY <1>2, <1>3, <1>18 DEF On

\* The begin of a request, an edit, a cancellation and a crash.
LEMMA OtherMoves ==
    ASSUME IInv, NEW q \in Requests,
           \/ BeginPreview(q) \/ BeginEdit(q) \/ ReadSeed(q) \/ SaveSeed(q)
    PROVE  task'[q].pc \notin ApplyPc /\ OthersStay(q) /\ receipt' = receipt
<1>1. task \in [Requests -> Task] /\ task[q] \in Task /\ TypeOK BY DEF IInv, TypeOK
<1>2. ASSUME NEW t, t.pc \notin ApplyPc, task' = [task EXCEPT ![q] = t]
      PROVE  task'[q].pc \notin ApplyPc /\ OthersStay(q)
  BY <1>1, <1>2, TaskTo
<1>3. ASSUME NEW pc \in {"previewCheck", "read"}, task' = [task EXCEPT ![q].pc = pc]
      PROVE  task'[q].pc \notin ApplyPc /\ OthersStay(q)
  <2> DEFINE t == [task[q] EXCEPT !.pc = pc]
  <2>1. t.pc \notin ApplyPc BY <1>1 DEF Task, ApplyPc, ClaimPc
  <2>2. task' = [task EXCEPT ![q] = t] BY <1>3
  <2> HIDE DEF t
  <2>3. QED BY <1>2, <2>1, <2>2
<1>4. ASSUME NEW edited \in Seeds,
             task' = [task EXCEPT ![q].pc = "save", ![q].base = seed, ![q].merged = edited]
      PROVE  task'[q].pc \notin ApplyPc /\ OthersStay(q)
  <2> DEFINE t == [task[q] EXCEPT !.pc = "save", !.base = seed, !.merged = edited]
  <2>1. t.pc \notin ApplyPc BY <1>1 DEF Task, ApplyPc, ClaimPc
  <2>2. task' = [task EXCEPT ![q] = t] BY <1>4
  <2> HIDE DEF t
  <2>3. QED BY <1>2, <2>1, <2>2
<1>5. Finish(q) => task'[q].pc \notin ApplyPc /\ OthersStay(q)
  BY <1>1, FinishMoves, PcsApart
<1>6. receipt' = receipt BY DEF BeginPreview, BeginEdit, ReadSeed, SaveSeed
<1>7. QED BY <1>3, <1>4, <1>5, <1>6 DEF BeginPreview, BeginEdit, ReadSeed, SaveSeed

\* A sealed receipt keeps its bindings, and a request the receipt that it has loaded.
LEMMA AsLoadedKeeps ==
    ASSUME IInv, Loaded, \A r \in Sealed : receipt'[r] = receipt[r],
           \A p \in Requests : task'[p] = task[p] \/ SameApply(p)
    PROVE  Loaded'
<1> SUFFICES ASSUME NEW p \in Requests PROVE AsLoaded(p)'
  BY DEF Loaded
<1> SUFFICES ASSUME task'[p].pc \in ApplyPc
             PROVE  receipt'[task'[p].receipt] = [base |-> task'[p].base, merged |-> task'[p].merged]
  BY DEF AsLoaded
<1>1. /\ task[p].pc \in ApplyPc
      /\ task'[p].receipt = task[p].receipt
      /\ task'[p].base = task[p].base /\ task'[p].merged = task[p].merged
  BY DEF SameApply
<1>2. task[p].receipt \in Sealed BY <1>1 DEF IInv, TaskInv
<1>3. receipt[task[p].receipt] = [base |-> task[p].base, merged |-> task[p].merged]
  BY <1>1 DEF Loaded, AsLoaded
<1>4. QED BY <1>1, <1>2, <1>3

LEMMA LoadedNext == ASSUME IInv, Loaded, [Next]_vars PROVE Loaded'
<1>1. task \in [Requests -> Task] /\ TypeOK BY DEF IInv, TypeOK
<1>2. ASSUME NEW q \in Requests, OthersStay(q), SameApply(q),
             \A r \in Sealed : receipt'[r] = receipt[r]
      PROVE  Loaded'
  BY <1>2, AsLoadedKeeps DEF OthersStay
<1>3. ASSUME NEW q \in Requests, Preview(q) PROVE Loaded'
  <2>1. \A r \in Sealed : receipt'[r] = receipt[r]
    <3>1. receipt \in [Receipts -> Binding \cup {Unsealed}] BY <1>1 DEF TypeOK
    <3>2. QED
      BY <1>3, <3>1 DEF Sealed, Preview, PreviewCheck, PreviewRead, PreviewFetch, PreviewRecheck,
                 PreviewWrite, PreviewClean, PreviewInvalidate
  <2>2. SameApply(q) /\ OthersStay(q) BY <1>1, <1>3, PreviewMoves, PcsApart DEF SameApply
  <2>3. QED BY <1>2, <2>1, <2>2
<1>4. ASSUME NEW q \in Requests, Apply(q) PROVE Loaded'
  BY <1>2, <1>4, ApplyMovesOn
<1>5. ASSUME NEW q \in Requests,
             \/ BeginPreview(q) \/ BeginEdit(q) \/ ReadSeed(q) \/ SaveSeed(q)
      PROVE  Loaded'
  BY <1>2, <1>5, OtherMoves DEF SameApply
<1>6. ASSUME NEW q \in Requests, NEW r \in Receipts, BeginApply(q, r) PROVE Loaded'
  <2> DEFINE t == [pc |-> "load", receipt |-> r,
                   base |-> receipt[r].base, merged |-> receipt[r].merged]
  <2>1. r \in Sealed /\ receipt' = receipt BY <1>6 DEF BeginApply
  <2>2. receipt[r] \in Binding BY <1>1, <2>1 DEF TypeOK, Sealed
  <2>3. receipt[r] = [base |-> receipt[r].base, merged |-> receipt[r].merged]
    BY <2>2 DEF Binding
  <2>4. task' = [task EXCEPT ![q] = t] BY <1>6 DEF BeginApply
  <2>5. task'[q] = t /\ OthersStay(q) BY <1>1, <2>4, TaskTo
  <2>6. AsLoaded(q)' BY <2>1, <2>3, <2>5 DEF AsLoaded
  <2>7. \A p \in Requests \ {q} : AsLoaded(p)' BY <2>1, <2>5 DEF Loaded, AsLoaded, OthersStay
  <2>8. QED BY <2>6, <2>7 DEF Loaded
<1>7. ASSUME NEW q \in Requests, Cancel(q) PROVE Loaded'
  BY <1>7 DEF Cancel, Loaded, AsLoaded
<1>8. ASSUME NEW x \in Processes, Crash(x) PROVE Loaded'
  <2>1. \A p \in Requests : task'[p] = task[p] \/ task'[p] = Idle BY <1>8 DEF Crash
  <2>2. receipt' = receipt BY <1>8 DEF Crash
  <2>3. QED BY <2>1, <2>2, PcsApart DEF Loaded, AsLoaded
<1>9. CASE UNCHANGED vars BY <1>9 DEF vars, Loaded, AsLoaded
<1>10. QED
  BY <1>3, <1>4, <1>5, <1>6, <1>7, <1>8, <1>9 DEF Next, Edit

-----------------------------------------------------------------------------
\* The steps of the register

\* What the mapping of YonoteReceipts makes of the editors and of the receipts.
Editing == [q \in Requests |-> IF task[q].pc = "save" THEN task[q].base ELSE NoSeed]
Written == {r \in Receipts : writes[r] # 0}

\* Requests come, go on and end; those that edited have stopped.
LEMMA LeaveStep ==
    ASSUME UNCHANGED <<seed, receipt, superseded, writes>>,
           \A p \in Requests : task'[p] = task[p] \/ task'[p].pc # "save"
    PROVE  Register!Next
<1> DEFINE left == {p \in Requests : task'[p].pc # "save"}
<1>1. Editing' = [p \in Requests |-> IF p \in left THEN NoSeed ELSE Editing[p]]
  BY DEF Editing
<1>2. left \in SUBSET Requests OBVIOUS
<1>3. Written' = Written BY DEF Written
<1> HIDE DEF left
<1>4. Register!Leave BY <1>1, <1>2, <1>3 DEF Register!Leave, Editing, Written
<1>5. QED BY <1>4 DEF Register!Next

\* Nobody begins or ends to edit.
LEMMA EditingKeeps ==
    ASSUME \A p \in Requests : task'[p] = task[p] \/ NotEditing(p)
    PROVE  Editing' = Editing
BY DEF Editing, NotEditing

LEMMA PreviewSteps ==
    ASSUME OneProcess, IInv, NEW q \in Requests, Preview(q)
    PROVE  Register!Next
<1>1. TypeOK /\ TaskInv(q) BY DEF IInv
<1>2. /\ task[q].pc \in PreviewPc /\ task'[q].pc # "save"
      /\ OthersStay(q) /\ NotEditing(q)
      /\ seed' = seed /\ writes' = writes /\ Written' = Written
  BY <1>1, PreviewMoves, PcsApart DEF NotEditing, Written
<1>3. Editing' = Editing BY <1>2, EditingKeeps DEF OthersStay
<1>4. CASE UNCHANGED <<receipt, superseded>>
  BY <1>2, <1>4, LeaveStep DEF OthersStay
<1>5. ASSUME NEW r \in Receipts \ Sealed, task[q].pc = "previewWrite",
             receipt' = [receipt EXCEPT ![r] =
                  [base |-> task[q].base, merged |-> task[q].merged]],
             UNCHANGED superseded
      PROVE  Register!Next
  <2> DEFINE b == [base |-> task[q].base, merged |-> task[q].merged]
  <2>1. b \in [base : Seeds, merged : Seeds] BY <1>1, <1>5 DEF TaskInv, PreviewPc
  <2>2. receipt' = [receipt EXCEPT ![r] = b] BY <1>5
  <2>3. r \notin Register!Sealed BY <1>5 DEF Sealed, Register!Sealed
  <2> HIDE DEF b
  <2>4. Register!Seal(r)
    BY <1>2, <1>3, <1>5, <2>1, <2>2, <2>3 DEF Register!Seal, Editing, Written
  <2>5. QED BY <1>5, <2>4 DEF Register!Next
<1>6. ASSUME NEW older \in SUBSET Sealed, superseded' = superseded \cup older, receipt' = receipt
      PROVE  Register!Next
  <2>1. older \in SUBSET Register!Sealed BY <1>6 DEF Sealed, Register!Sealed
  <2>2. Register!Supersede
    BY <1>2, <1>3, <1>6, <2>1 DEF Register!Supersede, Editing, Written
  <2>3. QED BY <2>2 DEF Register!Next
<1>7. CASE PreviewWrite(q)
  BY <1>4, <1>5, <1>7 DEF PreviewWrite, historyVars
<1>8. CASE PreviewClean(q)
  <2>1. Sealed \ {task[q].receipt} \in SUBSET Sealed OBVIOUS
  <2>2. QED BY <1>4, <1>6, <1>8, <2>1 DEF PreviewClean
<1>9. CASE PreviewInvalidate(q)
  <2>1. Sealed \in SUBSET Sealed OBVIOUS
  <2>2. QED BY <1>4, <1>6, <1>9, <2>1 DEF PreviewInvalidate
<1>10. CASE PreviewCheck(q) \/ PreviewRead(q) \/ PreviewFetch(q) \/ PreviewRecheck(q)
  BY <1>4, <1>10
  DEF PreviewCheck, PreviewRead, PreviewFetch, PreviewRecheck, historyVars
<1>11. QED BY <1>7, <1>8, <1>9, <1>10 DEF Preview

LEMMA ApplySteps ==
    ASSUME OneProcess, IInv, Loaded, NEW q \in Requests, Apply(q)
    PROVE  Register!Next
<1>1. TypeOK /\ TaskInv(q) /\ AsLoaded(q) BY DEF IInv, Loaded
<1>2. /\ task[q].pc \in ApplyPc
      /\ task'[q].pc # "save" /\ NotEditing(q) /\ OthersStay(q)
      /\ receipt' = receipt /\ superseded' = superseded
      /\ ~WriteSeed(q) => seed' = seed /\ writes' = writes
  BY ApplyMovesOn, PcsApart DEF NotEditing
<1>3. CASE UNCHANGED <<seed, writes>>
  BY <1>2, <1>3, LeaveStep DEF OthersStay
<1>4. CASE /\ task[q].pc = "write" /\ seed' = task[q].merged
           /\ writes' = [writes EXCEPT ![task[q].receipt] = IF @ = 0 THEN 1 ELSE 2]
  <2>0. PICK own \in Receipts : own = task[q].receipt
    BY <1>1, <1>2 DEF TaskInv, Sealed
  <2>1. /\ own \in Sealed /\ own \notin superseded /\ writes[own] = 0
        /\ seed = task[q].base
    BY <1>1, <1>2, <1>4, <2>0 DEF TaskInv, ClaimPc, Unwritten
  <2>2. receipt[own].base = task[q].base /\ receipt[own].merged = task[q].merged
    BY <1>1, <1>2, <2>0 DEF AsLoaded
  <2>3. Written' = Written \cup {own} /\ own \notin Written
    <3>1. writes \in [Receipts -> 0..2] BY <1>1 DEF TypeOK
    <3>2. writes' = [writes EXCEPT ![own] = 1] BY <1>4, <2>0, <2>1, <3>1
    <3>3. QED BY <2>1, <3>1, <3>2 DEF Written
  <2>4. Editing' = Editing BY <1>2, EditingKeeps DEF OthersStay
  <2>5. own \in Register!Sealed BY <2>1 DEF Sealed, Register!Sealed
  <2>6. seed' = receipt[own].merged BY <1>4, <2>2
  <2>7. Register!Apply(own)
    BY <1>2, <2>1, <2>2, <2>3, <2>4, <2>5, <2>6 DEF Register!Apply, Editing, Written
  <2>8. QED BY <2>7 DEF Register!Next
<1>5. QED BY <1>2, <1>3, <1>4 DEF WriteSeed

LEMMA EditSteps ==
    ASSUME OneProcess, IInv, NEW q \in Requests, Edit(q)
    PROVE  Register!Next
<1>1. /\ TypeOK /\ TaskInv(q)
      /\ task \in [Requests -> Task] /\ task[q] \in Task /\ seed \in Seeds
  BY DEF IInv, TypeOK
<1>2. UNCHANGED <<receipt, superseded, writes>> /\ Written' = Written
  BY DEF Edit, ReadSeed, SaveSeed, historyVars, Written
<1>3. ASSUME Finish(q), seed' = seed PROVE Register!Next
  <2>1. task'[q].pc # "save" /\ OthersStay(q) BY <1>1, <1>3, FinishMoves
  <2>2. QED BY <1>2, <1>3, <2>1, LeaveStep DEF OthersStay
<1>4. ASSUME ReadSeed(q), NEW edited \in Seeds,
             task' = [task EXCEPT ![q].pc = "save", ![q].base = seed, ![q].merged = edited]
      PROVE  Register!Next
  <2> DEFINE t == [task[q] EXCEPT !.pc = "save", !.base = seed, !.merged = edited]
  <2>1. t.pc = "save" /\ t.base = seed BY <1>1 DEF Task
  <2>2. task' = [task EXCEPT ![q] = t] BY <1>4
  <2> HIDE DEF t
  <2>3. task'[q] = t /\ OthersStay(q) BY <1>1, <2>2, TaskTo
  <2>4. Editing' = [Editing EXCEPT ![q] = seed] BY <2>1, <2>3 DEF Editing, OthersStay
  <2>5. seed' = seed BY <1>4 DEF ReadSeed
  <2>6. Register!Read(q) BY <1>2, <2>4, <2>5 DEF Register!Read, Editing, Written
  <2>7. QED BY <2>6 DEF Register!Next
<1>5. ASSUME SaveSeed(q), seed' = task[q].merged PROVE Register!Next
  <2>1. task[q].pc = "save" /\ Finish(q) BY <1>5 DEF SaveSeed
  <2>2. seed = task[q].base /\ task[q].merged \in Seeds BY <1>1, <2>1 DEF TaskInv
  <2>3. task'[q].pc # "save" /\ OthersStay(q) BY <1>1, <2>1, FinishMoves
  <2>4. Editing' = [Editing EXCEPT ![q] = NoSeed] BY <2>3 DEF Editing, OthersStay
  <2>5. Editing[q] = seed BY <2>1, <2>2 DEF Editing
  <2>6. Register!Save(q)
    BY <1>2, <1>5, <2>2, <2>4, <2>5 DEF Register!Save, Editing, Written
  <2>7. QED BY <2>6 DEF Register!Next
<1>6. QED BY <1>3, <1>4, <1>5 DEF Edit, ReadSeed, SaveSeed

\* Requests that begin, are cancelled or are lost with their process.
LEMMA OtherSteps ==
    ASSUME OneProcess, IInv,
           \/ \E q \in Requests : \/ BeginPreview(q) \/ BeginEdit(q) \/ Cancel(q)
                                 \/ \E r \in Receipts : BeginApply(q, r)
           \/ \E x \in Processes : Crash(x)
    PROVE  Register!Next
<1>1. task \in [Requests -> Task] BY DEF IInv, TypeOK
<1>2. UNCHANGED <<seed, receipt, superseded, writes>>
  BY DEF BeginPreview, BeginEdit, Cancel, BeginApply, Crash, historyVars
<1>3. ASSUME NEW q \in Requests, BeginPreview(q) \/ BeginEdit(q)
      PROVE  \A p \in Requests : task'[p] = task[p] \/ task'[p].pc # "save"
  <2> DEFINE pc == IF BeginEdit(q) THEN "read" ELSE "previewCheck"
  <2>1. PICK t : t = [task[q] EXCEPT !.pc = pc] OBVIOUS
  <2>2. task' = [task EXCEPT ![q] = t] BY <1>3, <2>1 DEF BeginPreview, BeginEdit
  <2>3. t.pc # "save" BY <1>1, <2>1 DEF Task
  <2>4. QED BY <1>1, <2>2, <2>3
<1>4. ASSUME NEW q \in Requests, NEW r \in Receipts, BeginApply(q, r)
      PROVE  \A p \in Requests : task'[p] = task[p] \/ task'[p].pc # "save"
  <2>1. PICK t : t = [pc |-> "load", receipt |-> r,
                      base |-> receipt[r].base, merged |-> receipt[r].merged]
    OBVIOUS
  <2>2. task' = [task EXCEPT ![q] = t] BY <1>4, <2>1 DEF BeginApply
  <2>3. t.pc # "save" BY <2>1
  <2>4. QED BY <1>1, <2>2, <2>3
<1>5. ASSUME NEW q \in Requests, Cancel(q)
      PROVE  \A p \in Requests : task'[p] = task[p] \/ task'[p].pc # "save"
  BY <1>5 DEF Cancel
<1>6. ASSUME NEW x \in Processes, Crash(x)
      PROVE  \A p \in Requests : task'[p] = task[p] \/ task'[p].pc # "save"
  <2>1. \A p \in Requests : task'[p] = task[p] \/ task'[p] = Idle BY <1>6 DEF Crash
  <2>2. QED BY <2>1, PcsApart
<1>7. QED BY <1>2, <1>3, <1>4, <1>5, <1>6, LeaveStep

LEMMA RegisterInit == Init => Register!Init
<1> SUFFICES ASSUME Init PROVE Register!Init
  OBVIOUS
<1>1. Editing = [q \in Requests |-> NoSeed] BY PcsApart DEF Init, Editing
<1>2. Written = {} BY DEF Init, Written
<1>3. QED BY <1>1, <1>2 DEF Init, Register!Init, Editing, Written

LEMMA RegisterNext ==
    ASSUME OneProcess, IInv, Loaded, [Next]_vars
    PROVE  [Register!Next]_(Register!registerVars)
<1>1. CASE Next
  BY <1>1, PreviewSteps, ApplySteps, EditSteps, OtherSteps DEF Next
<1>2. CASE UNCHANGED vars
  <2>1. Editing' = Editing /\ Written' = Written BY <1>2 DEF vars, Editing, Written
  <2>2. QED BY <1>2, <2>1 DEF vars, Register!registerVars, Editing, Written
<1>3. QED BY <1>1, <1>2

\* In one process, previews, applications, edits, failures, cancellations and crashes come
\* down to the steps of a register that is compared and set: a receipt takes effect once, on
\* the seed it was sealed for and not after it was superseded, an edit on the seed it read
\* (apply_sync, update_chunk).
THEOREM ReceiptsImplementRegister == ASSUME OneProcess PROVE Spec => ImplementsSeedRegister
<1>1. Init => IInv /\ Loaded
  <2>1. Init => Loaded BY PcsApart DEF Init, Loaded, AsLoaded
  <2>2. QED BY <2>1, InitInv
<1>2. IInv /\ Loaded /\ [Next]_vars => (IInv /\ Loaded)' BY StepInv, LoadedNext
<1>3. IInv /\ Loaded /\ [Next]_vars => [Register!Next]_(Register!registerVars)
  BY RegisterNext
<1>4. QED
  BY <1>1, <1>2, <1>3, RegisterInit, PTL
  DEF Spec, ImplementsSeedRegister, Register!RegisterSpec
=============================================================================
