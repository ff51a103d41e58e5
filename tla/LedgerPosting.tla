----------------------------- MODULE LedgerPosting -----------------------------
(***************************************************************************)
(* ledger.service.js: postBatch and reverseMovement, as several callers    *)
(* run them at once.  A posting is a look-up of its idempotency key        *)
(* followed by one transaction; a reversal is a look-up of the original, a *)
(* conditional claim on it, a posting, and the stamp.  Each write is a     *)
(* step; any of them may be the last of a process that dies, and a commit  *)
(* may apply although the driver reports an error.                         *)
(***************************************************************************)
EXTENDS FiniteSets

CONSTANTS
  Key,      \* idempotency keys
  Orig,     \* Orig[k]: the movement key k asks to reverse, or None for a plain posting
  Caller,   \* concurrent calls of the service
  None,
  Pending   \* PENDING_REVERSAL, the sentinel in reversedBy

ASSUME LedgerAssumption ==
  /\ Key # {}
  /\ Orig \in [Key -> Key \cup {None}]
  /\ None \notin Key /\ Pending \notin Key /\ Pending # None

VARIABLES
  batch,       \* keys of the batches committed; a batch's movement is named by its key
  reversedBy,  \* reversedBy[m]: the field of movement m
  pc,          \* pc[c]: where call c is
  asks,        \* asks[c]: its key
  replayed,    \* replayed[c]: what postBatch told it
  doubtful,    \* movements whose reversal was committed and reported as failed
  orphaned     \* movements whose claim died with its holder

ledgerVars == <<batch, reversedBy, pc, asks, replayed, doubtful, orphaned>>

Phase == {"idle", "claiming", "posting", "writing", "stamping", "failing", "done"}

LedgerTypeOK ==
  /\ batch \subseteq Key
  /\ reversedBy \in [Key -> Key \cup {None, Pending}]
  /\ pc \in [Caller -> Phase]
  /\ asks \in [Caller -> Key]
  /\ replayed \in [Caller -> BOOLEAN]
  /\ doubtful \subseteq Key
  /\ orphaned \subseteq Key

\* The movement call c wants reversed, if any; and the calls past their claim on m.
Target(c) == Orig[asks[c]]
Holding == {"posting", "writing", "stamping", "failing"}
Holders(m) == {c \in Caller : Target(c) = m /\ pc[c] \in Holding}

Goto(c, phase) == pc' = [pc EXCEPT ![c] = phase]

-----------------------------------------------------------------------------
\* postBatch is entered with a key of its own: there is nothing to claim.
BeginsPosting(c, k) ==
  /\ pc[c] = "idle"
  /\ Orig[k] = None
  /\ asks' = [asks EXCEPT ![c] = k]
  /\ Goto(c, "posting")
  /\ UNCHANGED <<batch, reversedBy, replayed, doubtful, orphaned>>

\* reverseMovement finds its original: posted, not a reversal, not reversed yet.
BeginsReversal(c, k) ==
  /\ pc[c] = "idle"
  /\ Orig[k] \in batch
  /\ Orig[Orig[k]] = None
  /\ reversedBy[Orig[k]] = None
  /\ asks' = [asks EXCEPT ![c] = k]
  /\ Goto(c, "claiming")
  /\ UNCHANGED <<batch, reversedBy, replayed, doubtful, orphaned>>

\* Mutant: the claim does not look at reversedBy again.
ClaimsUnguarded(c) ==
  /\ pc[c] = "claiming"
  /\ reversedBy' = [reversedBy EXCEPT ![Target(c)] = Pending]
  /\ Goto(c, "posting")
  /\ UNCHANGED <<batch, asks, replayed, doubtful, orphaned>>

\* updateOne({ _id, reversedBy: null }, PENDING): one caller wins, the others are
\* refused.
Claims(c) ==
  /\ pc[c] = "claiming"
  /\ IF reversedBy[Target(c)] = None
     THEN reversedBy' = [reversedBy EXCEPT ![Target(c)] = Pending] /\ Goto(c, "posting")
     ELSE UNCHANGED reversedBy /\ Goto(c, "idle")
  /\ UNCHANGED <<batch, asks, replayed, doubtful, orphaned>>

\* postBatch has an answer for c: a reversal still has its stamp to write.
Answers(c, isReplay) ==
  /\ replayed' = [replayed EXCEPT ![c] = isReplay]
  /\ Goto(c, IF Target(c) = None THEN "done" ELSE "stamping")

\* The replay check, before any work.
LooksUp(c) ==
  /\ pc[c] = "posting"
  /\ IF asks[c] \in batch THEN Answers(c, TRUE) ELSE Goto(c, "writing") /\ UNCHANGED replayed
  /\ UNCHANGED <<batch, reversedBy, asks, doubtful, orphaned>>

\* Mutant: a lost race for the key is answered as if it had been won.
WritesBatchUnaware(c) ==
  /\ pc[c] = "writing"
  /\ Answers(c, FALSE)
  /\ batch' = batch \cup {asks[c]}
  /\ UNCHANGED <<reversedBy, asks, doubtful, orphaned>>

\* The transaction inserts the batch and its movements; the unique key makes the
\* loser of a race a replay of the winner.
WritesBatch(c) ==
  /\ pc[c] = "writing"
  /\ Answers(c, asks[c] \in batch)
  /\ batch' = batch \cup {asks[c]}
  /\ UNCHANGED <<reversedBy, asks, doubtful, orphaned>>

\* The transaction fails and nothing is written (a write conflict is not retried).
WriteErrors(c) ==
  /\ pc[c] = "writing"
  /\ Goto(c, "failing")
  /\ UNCHANGED <<batch, reversedBy, asks, replayed, doubtful, orphaned>>

\* The commit applies, but its acknowledgement is lost and postBatch throws.
CommitUnknown(c) ==
  /\ pc[c] = "writing"
  /\ asks[c] \notin batch
  /\ batch' = batch \cup {asks[c]}
  /\ doubtful' = IF Target(c) = None THEN doubtful ELSE doubtful \cup {Target(c)}
  /\ Goto(c, "failing")
  /\ UNCHANGED <<reversedBy, asks, replayed, orphaned>>

\* A failed call ends; a reversal first releases its claim, so that it can be
\* tried again.
Fails(c) ==
  /\ pc[c] = "failing"
  /\ reversedBy' = IF Target(c) # None /\ reversedBy[Target(c)] = Pending
                   THEN [reversedBy EXCEPT ![Target(c)] = None] ELSE reversedBy
  /\ Goto(c, "idle")
  /\ UNCHANGED <<batch, asks, replayed, doubtful, orphaned>>

\* The real reversal replaces the sentinel - without a condition.
Stamps(c) ==
  /\ pc[c] = "stamping"
  /\ reversedBy' = [reversedBy EXCEPT ![Target(c)] = asks[c]]
  /\ Goto(c, "done")
  /\ UNCHANGED <<batch, asks, replayed, doubtful, orphaned>>

\* The process dies: nothing is released and nobody is told.  Its caller may ask
\* again, with the same key or another.
Dies(c) ==
  /\ pc[c] \notin {"idle", "done"}
  /\ Goto(c, "idle")
  /\ orphaned' = IF pc[c] \in Holding /\ Target(c) # None
                 THEN orphaned \cup {Target(c)} ELSE orphaned
  /\ UNCHANGED <<batch, reversedBy, asks, replayed, doubtful>>

-----------------------------------------------------------------------------
LedgerInit ==
  /\ batch = {}
  /\ reversedBy = [m \in Key |-> None]
  /\ pc = [c \in Caller |-> "idle"]
  /\ asks = [c \in Caller |-> CHOOSE k \in Key : TRUE]
  /\ replayed = [c \in Caller |-> FALSE]
  /\ doubtful = {}
  /\ orphaned = {}

LedgerNext ==
  \E c \in Caller :
    \/ \E k \in Key : BeginsPosting(c, k) \/ BeginsReversal(c, k)
    \/ Claims(c) \/ LooksUp(c) \/ WritesBatch(c) \/ WriteErrors(c)
    \/ CommitUnknown(c) \/ Fails(c) \/ Stamps(c) \/ Dies(c)

LedgerSpec == LedgerInit /\ [][LedgerNext]_ledgerVars

-----------------------------------------------------------------------------
(* Properties.                                                             *)

\* "exactly one caller can win the claim": a movement has at most one
\* contra-entry, whatever calls overlap, die or are retried under the same key or
\* another - unless a commit that applied was reported as failed.
OneContra ==
  \A k, l \in batch :
    Orig[k] # None /\ Orig[k] = Orig[l] /\ Orig[k] \notin doubtful => k = l

\* A movement that has a contra-entry is marked as reversed (or being reversed),
\* and the mark, once it is an id, is that of a contra-entry of this movement.
MarkedAsReversed ==
  \A m \in Key :
    /\ reversedBy[m] = None /\ m \notin doubtful => \A k \in batch : Orig[k] # m
    /\ reversedBy[m] \in Key => reversedBy[m] \in batch /\ Orig[reversedBy[m]] = m

\* Of all the calls with one key at most one is told that it posted: the callers
\* fold a batch into the balances exactly when they are told so.
OneWriter ==
  \A c, d \in Caller :
    /\ pc[c] \in {"stamping", "done"} /\ ~replayed[c]
    /\ pc[d] \in {"stamping", "done"} /\ ~replayed[d]
    /\ asks[c] = asks[d]
    => c = d

\* "Release the claim so a corrected retry is possible":
\* a movement says it is being reversed only while some call is reversing it, or if
\* that call's process died.
ClaimIsOwned ==
  \A m \in Key : reversedBy[m] = Pending => Holders(m) # {} \/ m \in orphaned

\* The service implements the book.
Book == INSTANCE LedgerBook WITH book <- batch

ImplementsBook == Book!BookSpec
================================================================================
