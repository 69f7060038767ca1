---------------------------- MODULE YonoteReceipts ----------------------------
(***************************************************************************)
(* How the administrators change the knowledge base seed: a Yonote preview *)
(* that seals a receipt, an application of that receipt, and the edit of a *)
(* chunk (src/admin/yonote_sync.py, src/admin/kb_store.py, and their       *)
(* handlers in src/main.py).                                               *)
(*                                                                         *)
(* Files survive a restart, locks and threads do not.  Every operation on  *)
(* a file is an action, so that a process may stop between any two, and    *)
(* may fail; operations that only read are taken to succeed.  A seed is    *)
(* known by the hash of its bytes.  A receipt is one file, whose suffix is *)
(* its state: .json (active), .applying, .applied.                         *)
(***************************************************************************)
EXTENDS Naturals, FiniteSets

CONSTANTS
    Seeds,          \* contents of the seed file, by hash
    Receipts,       \* receipt identities (secrets.token_hex)
    Requests,       \* slots for admin requests in progress
    Processes,      \* processes that serve the admin API
    ProcessOf,      \* the process that serves each request slot
    Nobody,         \* a lock that is free
    NoSeed,         \* a receipt that was never sealed, a task without a seed
    NoReceipt,      \* a task without a receipt
    MaxFaults       \* bound: failed file operations and crashes

ASSUME SeedAssumption    == NoSeed \notin Seeds
ASSUME ReceiptAssumption == NoReceipt \notin Receipts
ASSUME RequestAssumption == Nobody \notin Requests
ASSUME ProcessAssumption == ProcessOf \in [Requests -> Processes]
ASSUME FaultAssumption   == MaxFaults \in Nat

VARIABLES
    seed,       \* content of the seed file
    file,       \* file[r]: the suffix of r's receipt file, or "absent"
    receipt,    \* receipt[r]: its bindings, current_seed_sha256 and merged_seed_sha256
    syncLock,   \* _YONOTE_SYNC_LOCK of each process
    editLock,   \* _ADMIN_MUTATION_LOCK of each process
    task,       \* task[q]: the request in slot q and its local variables
    gone,       \* requests in progress whose client has disconnected
    faults,     \* faults so far
    superseded, \* history: receipts sealed before a later full preview that was finished
    writes      \* history: how often r's merged records were written (bound: 2 is twice or more)

lockVars    == <<syncLock, editLock>>
historyVars == <<superseded, writes>>
vars == <<seed, file, receipt, syncLock, editLock, task, gone, faults, superseded, writes>>

Unsealed == [base |-> NoSeed, merged |-> NoSeed]
Idle == [pc |-> "idle", receipt |-> NoReceipt, base |-> NoSeed, merged |-> NoSeed]

Init ==
    /\ seed \in Seeds
    /\ file = [r \in Receipts |-> "absent"]
    /\ receipt = [r \in Receipts |-> Unsealed]
    /\ syncLock = [p \in Processes |-> Nobody]
    /\ editLock = [p \in Processes |-> Nobody]
    /\ task = [q \in Requests |-> Idle]
    /\ gone = {}
    /\ faults = 0
    /\ superseded = {}
    /\ writes = [r \in Receipts |-> 0]

-----------------------------------------------------------------------------
\* Where a request can be, by the operation it is in

PreviewPc == {"previewCheck", "previewRead", "previewFetch", "previewRecheck",
              "previewSeal", "previewWrite", "previewClean", "previewInvalidate"}
ClaimPc   == {"claimed", "claimedCommitted", "recheck", "write", "verify", "restore"}
ApplyPc   == ClaimPc \cup {"load", "json", "applying", "applied", "claim",
                           "claimCommitted", "finalize", "clean"}
EditPc    == {"read", "save"}

-----------------------------------------------------------------------------
\* Helpers

In(state)  == {r \in Receipts : file[r] = state}
Sealed     == {r \in Receipts : receipt[r] # Unsealed}

Goto(q, pc)    == /\ task' = [task EXCEPT ![q].pc = pc]
                  /\ UNCHANGED <<lockVars, gone>>
Rename(r, suffix) == file' = [file EXCEPT ![r] = suffix]

\* The request is answered: its locks are released, its slot is free again.
Free(lock, q) == [p \in DOMAIN lock |-> IF lock[p] = q THEN Nobody ELSE lock[p]]
Finish(q) ==
    /\ task' = [task EXCEPT ![q] = Idle]
    /\ syncLock' = Free(syncLock, q)
    /\ editLock' = Free(editLock, q)
    /\ gone' = gone \ {q}

\* Bound: every preview in progress finds an identity that was never used.
Unsealing   == {q \in Requests : task[q].pc \in PreviewPc \ {"previewClean"}}
ReceiptLeft == Cardinality(Unsealing) < Cardinality(Receipts \ Sealed)

\* A file operation of this step fails.
Fault == faults < MaxFaults /\ faults' = faults + 1
Works == UNCHANGED faults

-----------------------------------------------------------------------------
\* preview_sync, under the sync lock of its process; a taken lock is a 409

BeginPreview(q) ==
    /\ task[q].pc = "idle"
    /\ ReceiptLeft
    /\ syncLock[ProcessOf[q]] = Nobody
    /\ syncLock' = [syncLock EXCEPT ![ProcessOf[q]] = q]
    /\ task' = [task EXCEPT ![q].pc = "previewCheck"]
    /\ UNCHANGED <<seed, file, receipt, editLock, gone, faults, historyVars>>

\* _ensure_no_unresolved_applying, at the start and again before the receipt is written
PreviewCheck(q) ==
    /\ task[q].pc \in {"previewCheck", "previewSeal"}
    /\ IF In("applying") # {}
       THEN Finish(q)
       ELSE Goto(q, IF task[q].pc = "previewCheck" THEN "previewRead" ELSE "previewWrite")
    /\ UNCHANGED <<seed, file, receipt, faults, historyVars>>

PreviewRead(q) ==
    /\ task[q].pc = "previewRead"
    /\ task' = [task EXCEPT ![q].pc = "previewFetch", ![q].base = seed]
    /\ UNCHANGED <<seed, file, receipt, lockVars, gone, faults, historyVars>>

\* The snapshot of Yonote and its merge with the seed: Yonote may not answer, the
\* snapshot may be invalid, its quality may be a STOP (merged = NoSeed) or a GO.
PreviewFetch(q) ==
    /\ task[q].pc = "previewFetch"
    /\ \/ Finish(q)
       \/ Goto(q, "previewInvalidate")
       \/ \E merged \in Seeds \cup {NoSeed} :
            /\ task' = [task EXCEPT ![q].pc = "previewRecheck", ![q].merged = merged]
            /\ UNCHANGED <<lockVars, gone>>
    /\ UNCHANGED <<seed, file, receipt, faults, historyVars>>

\* Mutation: a STOP is reported and leaves older receipts active.
PreviewRecheckForgets(q) ==
    /\ task[q].pc = "previewRecheck"
    /\ IF seed = task[q].base /\ task[q].merged # NoSeed
       THEN Goto(q, "previewSeal") /\ UNCHANGED superseded
       ELSE /\ Finish(q)
            /\ superseded' = IF seed = task[q].base THEN superseded \cup Sealed ELSE superseded
    /\ UNCHANGED <<seed, file, receipt, faults, writes>>

PreviewRecheck(q) ==
    /\ task[q].pc = "previewRecheck"
    /\ \/ seed # task[q].base /\ Finish(q)
       \/ /\ seed = task[q].base
          /\ Goto(q, IF task[q].merged = NoSeed THEN "previewInvalidate" ELSE "previewSeal")
    /\ UNCHANGED <<seed, file, receipt, faults, historyVars>>

\* _seal_preview_receipt and _write_receipt, up to the new file, which a failed write
\* does not leave behind.
PreviewWrite(q) ==
    /\ task[q].pc = "previewWrite"
    /\ \/ /\ \E r \in Receipts \ Sealed :
                /\ receipt' = [receipt EXCEPT ![r] =
                      [base |-> task[q].base, merged |-> task[q].merged]]
                /\ Rename(r, "json")
                /\ task' = [task EXCEPT ![q].pc = "previewClean", ![q].receipt = r]
                /\ UNCHANGED <<lockVars, gone>>
          /\ Works
       \/ /\ Finish(q)
          /\ UNCHANGED <<file, receipt>>
          /\ Fault
    /\ UNCHANGED <<seed, historyVars>>

\* _remove_superseded_receipts, one unlink at a time, while the new receipt is
\* already there; when one fails the new receipt is withdrawn.
PreviewClean(q) ==
    LET own == task[q].receipt
        old == (In("json") \cup In("applied")) \ {own} IN
    /\ task[q].pc = "previewClean"
    /\ \/ /\ \E r \in old : Rename(r, "absent")
          /\ UNCHANGED <<task, lockVars, gone, superseded>>
          /\ Works
       \/ /\ old = {}
          /\ Finish(q)
          /\ superseded' = superseded \cup (Sealed \ {own})
          /\ UNCHANGED file
          /\ Works
       \/ /\ Rename(own, IF file[own] = "json" THEN "absent" ELSE file[own])
          /\ Finish(q)
          /\ UNCHANGED superseded
          /\ Fault
    /\ UNCHANGED <<seed, receipt, writes>>

\* _invalidate_active_receipts, after an invalid snapshot or a STOP.
PreviewInvalidate(q) ==
    /\ task[q].pc = "previewInvalidate"
    /\ \/ /\ \E r \in In("json") : Rename(r, "absent")
          /\ UNCHANGED <<task, lockVars, gone, superseded>>
          /\ Works
       \/ /\ In("json") = {}
          /\ Finish(q)
          /\ superseded' = superseded \cup Sealed
          /\ UNCHANGED file
          /\ Works
       \/ /\ Finish(q)
          /\ UNCHANGED <<file, superseded>>
          /\ Fault
    /\ UNCHANGED <<seed, receipt, writes>>

-----------------------------------------------------------------------------
\* apply_sync, under both locks.  A receipt can be named as soon as it has a file.

BeginApply(q, r) ==
    /\ task[q].pc = "idle"
    /\ r \in Sealed
    /\ syncLock[ProcessOf[q]] = Nobody
    /\ editLock[ProcessOf[q]] = Nobody
    /\ syncLock' = [syncLock EXCEPT ![ProcessOf[q]] = q]
    /\ editLock' = [editLock EXCEPT ![ProcessOf[q]] = q]
    /\ task' = [task EXCEPT ![q] = [pc |-> "load", receipt |-> r,
                    base |-> receipt[r].base, merged |-> receipt[r].merged]]
    /\ UNCHANGED <<seed, file, receipt, gone, faults, historyVars>>

\* _load_receipt_state: the receipt is gone, has expired (and is removed), or is read
\* in one of its states.
Load(q) ==
    LET r == task[q].receipt IN
    /\ task[q].pc = "load"
    /\ \/ /\ file[r] = "absent"
          /\ Finish(q)
          /\ UNCHANGED file
       \/ /\ file[r] = "json"
          /\ Rename(r, "absent")
          /\ Finish(q)
       \/ /\ file[r] # "absent"
          /\ Goto(q, file[r])
          /\ UNCHANGED file
    /\ UNCHANGED <<seed, receipt, faults, historyVars>>

\* Mutation: an interrupted application is refused whatever became of the seed.
ResumeRefuses(q) ==
    /\ task[q].pc \in {"applied", "applying"}
    /\ Finish(q)
    /\ UNCHANGED <<seed, file, receipt, faults, historyVars>>

\* An applied receipt is only reported, or refused after a later change; an interrupted application is finalised when
\* its seed was committed, and refused otherwise.
ResumeReceipt(q) ==
    /\ task[q].pc \in {"applied", "applying"}
    /\ IF task[q].pc = "applying" /\ seed = task[q].merged
       THEN Goto(q, "finalize")
       ELSE Finish(q)
    /\ UNCHANGED <<seed, file, receipt, faults, historyVars>>

\* An active receipt is claimed when the seed is the one it was made from and the
\* merged seed is still semantically sound, or, to be finalised only, when the seed
\* is the merged one already.
CheckActive(q) ==
    /\ task[q].pc = "json"
    /\ \/ seed = task[q].merged /\ Goto(q, "claimCommitted")
       \/ seed # task[q].merged /\ seed = task[q].base /\ Goto(q, "claim")
       \/ seed # task[q].merged /\ Finish(q)
    /\ UNCHANGED <<seed, file, receipt, faults, historyVars>>

\* Mutation: the claim does not notice that the receipt has been claimed meanwhile.
ClaimAnyway(q) ==
    /\ task[q].pc \in {"claim", "claimCommitted"}
    /\ Rename(task[q].receipt, "applying")
    /\ Goto(q, IF task[q].pc = "claim" THEN "claimed" ELSE "claimedCommitted")
    /\ UNCHANGED <<seed, receipt, faults, historyVars>>

\* os.replace(.json, .applying): whoever finds the file gone reads its state again.
Claim(q) ==
    LET r == task[q].receipt IN
    /\ task[q].pc \in {"claim", "claimCommitted"}
    /\ \/ /\ file[r] = "json"
          /\ Rename(r, "applying")
          /\ Goto(q, IF task[q].pc = "claim" THEN "claimed" ELSE "claimedCommitted")
          /\ Works
       \/ file[r] # "json" /\ Goto(q, "load") /\ UNCHANGED file /\ Works
       \/ Finish(q) /\ UNCHANGED file /\ Fault
    /\ UNCHANGED <<seed, receipt, historyVars>>

\* _sync_directory after the claim.
SyncClaim(q) ==
    /\ task[q].pc \in {"claimed", "claimedCommitted"}
    /\ \/ /\ Goto(q, IF task[q].pc = "claimed" THEN "recheck" ELSE "finalize")
          /\ Works
       \/ Goto(q, "restore") /\ Fault
    /\ UNCHANGED <<seed, file, receipt, historyVars>>

RecheckSeed(q) ==
    /\ task[q].pc = "recheck"
    /\ Goto(q, IF seed = task[q].base THEN "write" ELSE "restore")
    /\ UNCHANGED <<seed, file, receipt, faults, historyVars>>

\* write_seed_records replaces the seed or raises; what it raises after the
\* replacement does not matter to what follows.
WriteSeed(q) ==
    /\ task[q].pc = "write"
    /\ \/ /\ seed' = task[q].merged
          /\ writes' = [writes EXCEPT ![task[q].receipt] = IF @ = 0 THEN 1 ELSE 2]
          /\ Goto(q, "verify")
          /\ Works
       \/ Goto(q, "verify") /\ UNCHANGED <<seed, writes>> /\ Fault
    /\ UNCHANGED <<file, receipt, superseded>>

\* Mutation: a write that may have failed always gives the receipt back.
VerifySeedRestores(q) ==
    /\ task[q].pc = "verify"
    /\ \/ Goto(q, "restore")
       \/ seed = task[q].merged /\ Goto(q, "finalize")
    /\ UNCHANGED <<seed, file, receipt, faults, historyVars>>

\* The seed's hash decides, not the exception.
VerifySeed(q) ==
    /\ task[q].pc = "verify"
    /\ \/ seed = task[q].merged /\ Goto(q, "finalize")
       \/ seed # task[q].merged /\ seed = task[q].base /\ Goto(q, "restore")
       \/ seed \notin {task[q].merged, task[q].base} /\ Finish(q)
    /\ UNCHANGED <<seed, file, receipt, faults, historyVars>>

\* Mutation: a receipt is given back under a suffix that nobody reads.
RestoreAsTemporary(q) ==
    /\ task[q].pc = "restore"
    /\ Finish(q)
    /\ Rename(task[q].receipt, "tmp")
    /\ UNCHANGED <<seed, receipt, faults, historyVars>>

\* _restore_active_receipt
RestoreReceipt(q) ==
    LET r == task[q].receipt IN
    /\ task[q].pc = "restore"
    /\ Finish(q)
    /\ \/ file[r] = "applying" /\ Rename(r, "json") /\ Works
       \/ file[r] # "applying" /\ UNCHANGED file /\ Works
       \/ UNCHANGED file /\ Fault
    /\ UNCHANGED <<seed, receipt, historyVars>>

\* _finalize_claimed_receipt: a failed rename is reported as pending.
FinalizeReceipt(q) ==
    LET r == task[q].receipt IN
    /\ task[q].pc = "finalize"
    /\ \/ file[r] = "applying" /\ Rename(r, "applied") /\ Goto(q, "clean") /\ Works
       \/ file[r] # "applying" /\ UNCHANGED file /\ Finish(q) /\ Works
       \/ UNCHANGED file /\ Finish(q) /\ Fault
    /\ UNCHANGED <<seed, receipt, historyVars>>

CleanApplied(q) ==
    LET old == In("applied") \ {task[q].receipt} IN
    /\ task[q].pc = "clean"
    /\ \/ /\ \E r \in old : Rename(r, "absent")
          /\ UNCHANGED <<task, lockVars, gone>>
          /\ Works
       \/ old = {} /\ Finish(q) /\ UNCHANGED file /\ Works
       \/ Finish(q) /\ UNCHANGED file /\ Fault
    /\ UNCHANGED <<seed, receipt, historyVars>>

-----------------------------------------------------------------------------
\* update_chunk, under the mutation lock

BeginEdit(q) ==
    /\ task[q].pc = "idle"
    /\ editLock[ProcessOf[q]] = Nobody
    /\ editLock' = [editLock EXCEPT ![ProcessOf[q]] = q]
    /\ task' = [task EXCEPT ![q].pc = "read"]
    /\ UNCHANGED <<seed, file, receipt, syncLock, gone, faults, historyVars>>

\* Read, change one record, validate.
ReadSeed(q) ==
    /\ task[q].pc = "read"
    /\ \/ Finish(q)
       \/ \E edited \in Seeds :
            /\ task' = [task EXCEPT ![q].pc = "save", ![q].base = seed, ![q].merged = edited]
            /\ UNCHANGED <<lockVars, gone>>
    /\ UNCHANGED <<seed, file, receipt, faults, historyVars>>

SaveSeed(q) ==
    /\ task[q].pc = "save"
    /\ Finish(q)
    /\ \/ seed' = task[q].merged /\ Works
       \/ UNCHANGED seed /\ Fault
    /\ UNCHANGED <<file, receipt, historyVars>>

-----------------------------------------------------------------------------
\* Requests that are cancelled, and processes that stop

\* Mutation: the cancelled request gives its locks back while its thread still runs.
CancelReleases(q) ==
    /\ task[q].pc # "idle"
    /\ q \notin gone
    /\ gone' = gone \cup {q}
    /\ syncLock' = Free(syncLock, q)
    /\ editLock' = Free(editLock, q)
    /\ UNCHANGED <<seed, file, receipt, task, faults, historyVars>>

\* _await_cancellation_safe_mutation, _run_with_yonote_sync_lock: the client has
\* left, and the thread goes on under the locks of the request.
Cancel(q) ==
    /\ task[q].pc # "idle"
    /\ q \notin gone
    /\ gone' = gone \cup {q}
    /\ UNCHANGED <<seed, file, receipt, lockVars, task, faults, historyVars>>

Crash(p) ==
    LET lost == {q \in Requests : ProcessOf[q] = p /\ task[q].pc # "idle"} IN
    /\ lost # {}
    /\ Fault
    /\ task' = [q \in Requests |-> IF q \in lost THEN Idle ELSE task[q]]
    /\ syncLock' = [syncLock EXCEPT ![p] = Nobody]
    /\ editLock' = [editLock EXCEPT ![p] = Nobody]
    /\ gone' = gone \ lost
    /\ UNCHANGED <<seed, file, receipt, historyVars>>

-----------------------------------------------------------------------------

Preview(q) ==
    \/ PreviewCheck(q) \/ PreviewRead(q) \/ PreviewFetch(q) \/ PreviewRecheck(q)
    \/ PreviewWrite(q) \/ PreviewClean(q) \/ PreviewInvalidate(q)

Apply(q) ==
    \/ Load(q) \/ ResumeReceipt(q) \/ CheckActive(q) \/ Claim(q) \/ SyncClaim(q)
    \/ RecheckSeed(q) \/ WriteSeed(q) \/ VerifySeed(q) \/ RestoreReceipt(q)
    \/ FinalizeReceipt(q) \/ CleanApplied(q)

Edit(q) == ReadSeed(q) \/ SaveSeed(q)

Next ==
    \/ \E q \in Requests :
          \/ BeginPreview(q) \/ BeginEdit(q) \/ \E r \in Receipts : BeginApply(q, r)
          \/ Preview(q) \/ Apply(q) \/ Edit(q) \/ Cancel(q)
    \/ \E p \in Processes : Crash(p)

Spec == Init /\ [][Next]_vars

\* A thread that was started runs to its end.  The administrator follows the advice
\* of the panel (admin/ui.py): an interrupted application is repeated with its receipt.
Fairness ==
    /\ \A q \in Requests : WF_vars(Preview(q) \/ Apply(q) \/ Edit(q))
    /\ \A r \in Receipts : SF_vars(file[r] = "applying" /\ \E q \in Requests : BeginApply(q, r))

FairSpec == Spec /\ Fairness

-----------------------------------------------------------------------------
\* Properties

Binding == [base : Seeds, merged : Seeds]
Task    == [pc : {"idle"} \cup PreviewPc \cup ApplyPc \cup EditPc,
            receipt : Receipts \cup {NoReceipt},
            base : Seeds \cup {NoSeed}, merged : Seeds \cup {NoSeed}]

\* Every variable has its type.
TypeOK ==
    /\ seed \in Seeds
    /\ file \in [Receipts -> {"absent", "json", "applying", "applied"}]
    /\ receipt \in [Receipts -> Binding \cup {Unsealed}]
    /\ syncLock \in [Processes -> Requests \cup {Nobody}]
    /\ editLock \in [Processes -> Requests \cup {Nobody}]
    /\ task \in [Requests -> Task]
    /\ gone \in SUBSET Requests
    /\ faults \in 0..MaxFaults
    /\ superseded \in SUBSET Receipts
    /\ writes \in [Receipts -> 0..2]

\* No lost update: whoever is about to replace the seed still has before it the
\* content that it read, or, for a receipt, the content that was previewed.
WriterSeesItsBase ==
    \A q \in Requests : task[q].pc \in {"write", "save"} => seed = task[q].base

\* A receipt is consumed by its first write, however often it is applied, given back,
\* finalised late, or repeated after a crash.
AppliedOnce == \A r \in Receipts : writes[r] <= 1

\* What a later preview replaced or a STOP invalidated is never written.
SupersededNotApplied ==
    \A q \in Requests : task[q].pc = "write" => task[q].receipt \notin superseded

\* The seed, its receipts and its editors, as a register that is compared and set.
Register == INSTANCE SeedRegister WITH
    Contents <- Seeds, Editors <- Requests, NoContent <- NoSeed,
    content <- seed, binding <- receipt, consumed <- {r \in Receipts : writes[r] # 0},
    seen <- [q \in Requests |-> IF task[q].pc = "save" THEN task[q].base ELSE NoSeed]

\* In one process, apply_sync and update_chunk, with their locks, claims, retries and
\* restorations, come down to one comparison and one replacement: a receipt takes effect
\* once, on the seed that was previewed, and not after a later preview; an edit, on the seed
\* that it has read.
ImplementsSeedRegister == Register!RegisterSpec

\* Two processes that apply the same receipt: at most one has claimed it.
OneClaim ==
    \A p, q \in Requests :
        /\ task[p].pc \in ClaimPc /\ task[q].pc \in ClaimPc
        /\ task[p].receipt = task[q].receipt
        => p = q

\* An application that was interrupted after it committed the seed is finalised when
\* it is repeated, unless the seed has been edited since.
CommittedResolves ==
    \A r \in Receipts :
        (file[r] = "applying" /\ seed = receipt[r].merged)
            ~> (file[r] # "applying" \/ seed # receipt[r].merged)

-----------------------------------------------------------------------------
\* What the documents say and the code does not keep

\* docs/CURRENT_STATE.md: the lifecycle active -> applying -> applied recovers safely
\* from an interrupted request; admin/ui.py: repeat Apply with the same receipt.
InterruptedResolves ==
    \A r \in Receipts : file[r] = "applying" ~> file[r] # "applying"
=============================================================================
