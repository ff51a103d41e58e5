-------------------------------- MODULE ImportJob --------------------------------
(***************************************************************************)
(* import.service.js: a validated import from its confirmation to its end. *)
(* A processor claims the job under a lock that goes stale, and works on   *)
(* one chunk of pending rows at a time: it reads the balances, posts the   *)
(* chunk under a key fixed at staging, folds the posting, and marks and    *)
(* counts the rows - each a write of its own.  A master sheet's quantities *)
(* are received on top of what is there; a fresh-inventory sheet restates  *)
(* the shelf.  A file names a SKU once, so a row stands for its balance.   *)
(***************************************************************************)
EXTENDS Integers, FiniteSets

CONSTANTS
  Row,
  ChunkOf,   \* ChunkOf[r]: the chunk of row r, a number
  Figure,    \* Figure[mode][r]: the sheet's quantity
  OnHand,    \* OnHand[r]: the balance of the row's SKU before the import
  Reserved,  \* Reserved[r]: its units committed to live bookings
  Worker,    \* concurrent requests and detached processors
  MaxLosses  \* BOUND: lost acknowledgements, failures and deaths

Mode == {"receive", "restate"}

ASSUME ImportAssumption ==
  /\ IsFiniteSet(Row)
  /\ ChunkOf \in [Row -> Nat]
  /\ Figure \in [Mode -> [Row -> Int]]
  /\ OnHand \in [Row -> Nat] /\ Reserved \in [Row -> Nat]
  /\ MaxLosses \in Nat

VARIABLES
  jobStatus,
  lock,        \* lockedAt: "free", "held", or "stale" - which its holder may survive
  rowState,    \* rowState[r]: pending, processed, failed, or gone with a cancelled job
  onHand,      \* onHand[r]: the balance, as folded
  chunkBatch,  \* chunkBatch[k]: the ledger batch of chunk k, quantities by row
  tally,       \* the job's counters: successful and failed rows
  worker,      \* worker[w]: what worker w is doing
  importMode,
  importFaults,
  importOdd    \* history: a fold "lost", rows "uncounted", a lock "taken over", a save "overtaken"

importVars == <<jobStatus, lock, rowState, onHand, chunkBatch, tally, worker, importMode,
                importFaults, importOdd>>

JobStatus == {"Validated", "Processing", "Completed", "Partial", "Failed", "Cancelled"}
Chunk == {ChunkOf[r] : r \in Row}
Quantities == UNION {[S -> Int] : S \in SUBSET Row}
NoLines == [r \in {} |-> 0]

NoWork == [step |-> "none", chunk |-> 0, rows |-> {}, lines |-> NoLines, refused |-> {},
           replayed |-> FALSE]
Processing == {"pick", "read", "post", "fold", "mark", "count", "finish", "failing"}
Working == {w \in Worker : worker[w].step \in Processing}

\* What a row asks of its balance.
Asked(r) == IF importMode = "receive" THEN Figure["receive"][r] ELSE Figure["restate"][r] - OnHand[r]

ImportTypeOK ==
  /\ jobStatus \in JobStatus
  /\ lock \in {"free", "held", "stale"}
  /\ rowState \in [Row -> {"pending", "processed", "failed", "gone"}]
  /\ onHand \in [Row -> Int]
  /\ \A k \in Chunk : DOMAIN chunkBatch[k] \subseteq {r \in Row : ChunkOf[r] = k}
  /\ tally \in [good : Nat, bad : Nat]
  /\ \A w \in Worker :
       /\ worker[w].step \in Processing \cup {"none", "confirm", "cancel", "purge", "claim"}
       /\ worker[w].rows \subseteq Row /\ worker[w].refused \subseteq worker[w].rows
  /\ importMode \in Mode /\ importFaults \in 0..MaxLosses
  /\ importOdd \subseteq {"lost", "uncounted", "taken over", "overtaken"}

Pending == {r \in Row : rowState[r] = "pending"}
StepsTo(w, step) == worker' = [worker EXCEPT ![w].step = step]
Leaves(w) == worker' = [worker EXCEPT ![w] = NoWork]
Befalls(what) == importOdd' = importOdd \cup what
ImportFault == importFaults < MaxLosses /\ importFaults' = importFaults + 1

-----------------------------------------------------------------------------
(* Requests: read the job, then save it.                                   *)

\* A job that is being processed may be confirmed too: its status is not saved
\* again, but another processor is started.
ReadsToConfirm(w) ==
  /\ worker[w] = NoWork /\ jobStatus \in {"Validated", "Processing"}
  /\ StepsTo(w, IF jobStatus = "Validated" THEN "confirm" ELSE "claim")
  /\ UNCHANGED <<jobStatus, lock, rowState, onHand, chunkBatch, tally, importMode, importFaults, importOdd>>

\* The job is saved as Processing and runJob started, detached.
ConfirmsJob(w) ==
  /\ worker[w].step = "confirm"
  /\ jobStatus' = "Processing"
  /\ Befalls(IF jobStatus # "Validated" THEN {"overtaken"} ELSE {})
  /\ StepsTo(w, "claim")
  /\ UNCHANGED <<lock, rowState, onHand, chunkBatch, tally, importMode, importFaults>>

ReadsToResume(w) ==
  /\ worker[w] = NoWork /\ jobStatus = "Processing" /\ Pending # {}
  /\ StepsTo(w, "claim")
  /\ UNCHANGED <<jobStatus, lock, rowState, onHand, chunkBatch, tally, importMode, importFaults, importOdd>>

ReadsToCancelJob(w) ==
  /\ worker[w] = NoWork /\ jobStatus = "Validated"
  /\ StepsTo(w, "cancel")
  /\ UNCHANGED <<jobStatus, lock, rowState, onHand, chunkBatch, tally, importMode, importFaults, importOdd>>

\* cancelJob: the status, and then the rows.
CancelsJob(w) ==
  /\ worker[w].step = "cancel"
  /\ jobStatus' = "Cancelled"
  /\ Befalls(IF jobStatus # "Validated" THEN {"overtaken"} ELSE {})
  /\ StepsTo(w, "purge")
  /\ UNCHANGED <<lock, rowState, onHand, chunkBatch, tally, importMode, importFaults>>

PurgesRows(w) ==
  /\ worker[w].step = "purge"
  /\ rowState' = [r \in Row |-> "gone"]
  /\ Leaves(w)
  /\ UNCHANGED <<jobStatus, lock, onHand, chunkBatch, tally, importMode, importFaults, importOdd>>

-----------------------------------------------------------------------------
(* runJob.                                                                 *)

\* findOneAndUpdate: a job in Processing whose lock is free or stale.
ClaimsJob(w) ==
  /\ worker[w].step = "claim"
  /\ IF jobStatus = "Processing" /\ lock # "held"
     THEN /\ lock' = "held"
          /\ Befalls(IF Working # {} THEN {"taken over"} ELSE {})
          /\ StepsTo(w, "pick")
     ELSE UNCHANGED <<lock, importOdd>> /\ Leaves(w)
  /\ UNCHANGED <<jobStatus, rowState, onHand, chunkBatch, tally, importMode, importFaults>>

\* LOCK_STALE_MS pass; the lock is not renewed while its holder works.
LockAges ==
  /\ lock = "held"
  /\ lock' = "stale"
  /\ UNCHANGED <<jobStatus, rowState, onHand, chunkBatch, tally, worker, importMode, importFaults, importOdd>>

\* Mutant: the rows picked are not kept to one chunk.
PicksRows(w) ==
  /\ worker[w].step = "pick"
  /\ IF Pending = {}
     THEN StepsTo(w, "finish")
     ELSE LET k == CHOOSE n \in {ChunkOf[r] : r \in Pending} : \A r \in Pending : n <= ChunkOf[r]
          IN  worker' = [worker EXCEPT ![w] = [NoWork EXCEPT !.step = "read", !.chunk = k,
                           !.rows = Pending]]
  /\ UNCHANGED <<jobStatus, lock, rowState, onHand, chunkBatch, tally, importMode, importFaults, importOdd>>

\* The first chunk that has pending rows; without any the job is done.
PicksChunk(w) ==
  /\ worker[w].step = "pick"
  /\ IF Pending = {}
     THEN StepsTo(w, "finish")
     ELSE LET k == CHOOSE n \in {ChunkOf[r] : r \in Pending} : \A r \in Pending : n <= ChunkOf[r]
          IN  worker' = [worker EXCEPT ![w] = [NoWork EXCEPT !.step = "read", !.chunk = k,
                           !.rows = {r \in Pending : ChunkOf[r] = k}]]
  /\ UNCHANGED <<jobStatus, lock, rowState, onHand, chunkBatch, tally, importMode, importFaults, importOdd>>

\* What a row would leave on hand, and whether that is refused: a deduction below
\* zero or below what is reserved, a restatement below what is reserved.
After(r) == onHand[r] + Figure["receive"][r]
Refused(r) ==
  IF importMode = "receive"
  THEN Figure["receive"][r] < 0 /\ (After(r) < 0 \/ After(r) < Reserved[r])
  ELSE Figure["restate"][r] # onHand[r] /\ Figure["restate"][r] < Reserved[r]

\* The line a row becomes: its quantity, or the difference to the shelf.
LineOf(r) == IF importMode = "receive" THEN Figure["receive"][r] ELSE Figure["restate"][r] - onHand[r]

\* The balances are read and the chunk's lines made; no lines, nothing to post.
ReadsBalances(w) ==
  /\ worker[w].step = "read"
  /\ LET rows == worker[w].rows
         lines == {r \in rows : ~Refused(r) /\ LineOf(r) # 0}
     IN  worker' = [worker EXCEPT ![w].lines = [r \in lines |-> LineOf(r)],
                                  ![w].refused = {r \in rows : Refused(r)},
                                  ![w].step = IF lines = {} THEN "mark" ELSE "post"]
  /\ UNCHANGED <<jobStatus, lock, rowState, onHand, chunkBatch, tally, importMode, importFaults, importOdd>>

\* Mutant: a key of its own for each attempt.
PostsChunkAfresh(w) ==
  /\ worker[w].step = "post"
  /\ chunkBatch' = [chunkBatch EXCEPT ![worker[w].chunk] = worker[w].lines]
  /\ StepsTo(w, "fold")
  /\ UNCHANGED <<jobStatus, lock, rowState, onHand, tally, importMode, importFaults, importOdd>>

\* postBatch under import-<job>-<chunk>: a chunk already posted is replayed.
PostsChunk(w) ==
  /\ worker[w].step = "post"
  /\ LET k == worker[w].chunk
         replay == chunkBatch[k] # NoLines
     IN  /\ chunkBatch' = IF replay THEN chunkBatch ELSE [chunkBatch EXCEPT ![k] = worker[w].lines]
         /\ worker' = [worker EXCEPT ![w].step = "fold", ![w].replayed = replay]
  /\ UNCHANGED <<jobStatus, lock, rowState, onHand, tally, importMode, importFaults, importOdd>>

\* A transient error: nothing was written, and the chunk is tried again.
RetriesChunk(w) ==
  /\ worker[w].step = "post"
  /\ StepsTo(w, "read")
  /\ UNCHANGED <<jobStatus, lock, rowState, onHand, chunkBatch, tally, importMode, importFaults, importOdd>>

\* UnknownTransactionCommitResult: the chunk is tried again, and had been written.
RetriesCommitted(w) ==
  /\ ImportFault
  /\ worker[w].step = "post"
  /\ chunkBatch[worker[w].chunk] = NoLines
  /\ chunkBatch' = [chunkBatch EXCEPT ![worker[w].chunk] = worker[w].lines]
  /\ StepsTo(w, "read")
  /\ Befalls({"lost"})
  /\ UNCHANGED <<jobStatus, lock, rowState, onHand, tally, importMode>>

\* Any other error of the posting fails the rows that were in it.
PostFails(w) ==
  /\ ImportFault
  /\ worker[w].step = "post"
  /\ worker' = [worker EXCEPT ![w].step = "mark", ![w].refused = @ \cup DOMAIN worker[w].lines]
  /\ UNCHANGED <<jobStatus, lock, rowState, onHand, chunkBatch, tally, importMode, importOdd>>

\* applyMovements with what the batch holds, unless it was a replay.
FoldsChunk(w) ==
  /\ worker[w].step = "fold"
  /\ LET lines == chunkBatch[worker[w].chunk]
     IN  onHand' = IF worker[w].replayed THEN onHand
                   ELSE [r \in Row |-> IF r \in DOMAIN lines THEN onHand[r] + lines[r] ELSE onHand[r]]
  /\ StepsTo(w, "mark")
  /\ UNCHANGED <<jobStatus, lock, rowState, chunkBatch, tally, importMode, importFaults, importOdd>>

\* A row of a master sheet succeeds once its product is written, whatever becomes
\* of its quantity: it may be among the successes and among the failures.
Successes(w) == IF importMode = "receive" THEN worker[w].rows
                                          ELSE worker[w].rows \ worker[w].refused

\* The unordered bulkWrite, filtered on status "pending": the first write of a row
\* counts.
MarksRows(w) ==
  /\ worker[w].step = "mark"
  /\ \E failing \in SUBSET (worker[w].refused \cap Successes(w)) :
       rowState' = [r \in Row |->
         IF rowState[r] # "pending" THEN rowState[r]
         ELSE IF r \in Successes(w) \ failing THEN "processed"
         ELSE IF r \in worker[w].refused THEN "failed" ELSE "pending"]
  /\ StepsTo(w, "count")
  /\ UNCHANGED <<jobStatus, lock, onHand, chunkBatch, tally, importMode, importFaults, importOdd>>

CountsRows(w) ==
  /\ worker[w].step = "count"
  /\ tally' = [good |-> tally.good + Cardinality(Successes(w)),
               bad |-> tally.bad + Cardinality(worker[w].refused)]
  /\ StepsTo(w, "pick")
  /\ UNCHANGED <<jobStatus, lock, rowState, onHand, chunkBatch, importMode, importFaults, importOdd>>

\* Mutant: a job with failed rows is reported as complete.
FinishesComplete(w) ==
  /\ worker[w].step = "finish"
  /\ jobStatus' = "Completed"
  /\ lock' = "free"
  /\ Befalls(IF jobStatus # "Processing" THEN {"overtaken"} ELSE {})
  /\ Leaves(w)
  /\ UNCHANGED <<rowState, onHand, chunkBatch, tally, importMode, importFaults>>

\* The job's end, and its lock's.
FinishesJob(w) ==
  /\ worker[w].step = "finish"
  /\ jobStatus' = IF tally.bad > 0 THEN "Partial" ELSE "Completed"
  /\ lock' = "free"
  /\ Befalls(IF jobStatus # "Processing" THEN {"overtaken"} ELSE {})
  /\ Leaves(w)
  /\ UNCHANGED <<rowState, onHand, chunkBatch, tally, importMode, importFaults>>

\* What is lost with a worker: a fold that was its own to make, a count of rows that
\* are marked.
Loses(w) ==
  CASE worker[w].step = "fold" /\ ~worker[w].replayed -> {"lost"}
    [] worker[w].step = "count" -> {"uncounted"}
    [] OTHER -> {}

\* A write throws, for good or for the third time ...
ThrowsProcessing(w) ==
  /\ ImportFault
  /\ worker[w].step \in Processing \ {"failing"}
  /\ Befalls(Loses(w))
  /\ StepsTo(w, "failing")
  /\ UNCHANGED <<jobStatus, lock, rowState, onHand, chunkBatch, tally, importMode>>

\* ... and the job is failed and unlocked.
FailsJob(w) ==
  /\ worker[w].step = "failing"
  /\ jobStatus' = "Failed"
  /\ lock' = "free"
  /\ Befalls(IF jobStatus # "Processing" THEN {"overtaken"} ELSE {})
  /\ Leaves(w)
  /\ UNCHANGED <<rowState, onHand, chunkBatch, tally, importMode, importFaults>>

\* The process dies and leaves the lock behind.
DiesImporting(w) ==
  /\ ImportFault
  /\ worker[w].step # "none"
  /\ Befalls(Loses(w))
  /\ Leaves(w)
  /\ UNCHANGED <<jobStatus, lock, rowState, onHand, chunkBatch, tally, importMode>>

-----------------------------------------------------------------------------
ImportInit ==
  /\ jobStatus = "Validated"
  /\ lock = "free"
  /\ rowState = [r \in Row |-> "pending"]
  /\ onHand = OnHand
  /\ chunkBatch = [k \in Chunk |-> NoLines]
  /\ tally = [good |-> 0, bad |-> 0]
  /\ worker = [w \in Worker |-> NoWork]
  /\ importMode \in Mode
  /\ importFaults = 0
  /\ importOdd = {}

ImportNext ==
  \/ LockAges
  \/ \E w \in Worker :
       \/ ReadsToConfirm(w) \/ ConfirmsJob(w) \/ ReadsToResume(w)
       \/ ReadsToCancelJob(w) \/ CancelsJob(w) \/ PurgesRows(w)
       \/ ClaimsJob(w) \/ PicksChunk(w) \/ ReadsBalances(w) \/ PostsChunk(w)
       \/ RetriesChunk(w) \/ RetriesCommitted(w) \/ PostFails(w) \/ FoldsChunk(w)
       \/ MarksRows(w) \/ CountsRows(w) \/ FinishesJob(w)
       \/ ThrowsProcessing(w) \/ FailsJob(w) \/ DiesImporting(w)

ImportSpec == ImportInit /\ [][ImportNext]_importVars

-----------------------------------------------------------------------------
(* Properties.                                                             *)

\* A row moves its balance once or not at all, whatever is retried, resumed, taken
\* over or cancelled under way.
RowsMoveOnce == \A r \in Row : onHand[r] \in {OnHand[r], OnHand[r] + Asked(r)}

\* A job that ends as Completed has done what its sheet asks, and one that ends as
\* Cancelled has done nothing, unless a fold was lost, rows were left uncounted, the
\* lock was taken over or a save overtaken.
JobTellsTruth ==
  importOdd = {} =>
    /\ jobStatus = "Completed" =>
         \A r \in Row : rowState[r] = "processed" /\ onHand[r] = OnHand[r] + Asked(r)
    /\ jobStatus = "Cancelled" => onHand = OnHand /\ \A k \in Chunk : chunkBatch[k] = NoLines
================================================================================
