------------------------------- MODULE StockCount -------------------------------
(***************************************************************************)
(* count.service.js: a physical count from its sheet to the ledger.        *)
(*                                                                         *)
(* Every operation reads the session, checks its status, and saves the     *)
(* session later, whatever it has become in between; creating and posting  *)
(* take several writes.  `odd' is history: it names the events on a count  *)
(* that the code has no answer to.                                         *)
(***************************************************************************)
EXTENDS Integers, FiniteSets

CONSTANTS
  Count,     \* count sessions
  Item,      \* SKUs at the location that is counted
  User,
  Request,   \* concurrent requests
  Nobody,
  MaxDeaths, \* BOUND: requests that die between two of their writes
  MaxCalls   \* BOUND: requests in all

ASSUME CountAssumption == Nobody \notin User /\ MaxDeaths \in Nat /\ MaxCalls \in Nat

VARIABLES
  status,     \* status[c]: the session's status, "none" before it exists
  sheet,      \* sheet[c][s]: the session's line for SKU s
  people,     \* people[c]: counter, submittedBy, approvedBy
  posting,    \* posting[c]: what posting left: ledger batch, folds, records, linkage
  approvedAs, \* history: the lines that differed when the count was approved
  call,       \* call[r]: the request under way, at its next write
  deaths,     \* requests that died
  calls,      \* requests so far
  odd         \* history: odd[c], the events in Oddity that befell count c

countVars == <<status, sheet, people, posting, approvedAs, call, deaths, calls, odd>>

Statuses == {"Draft", "Counting", "Submitted", "Approved", "Rejected", "Posted", "Cancelled"}

\* A late entry was written after counting closed; an overtaken request saved a
\* status it had not read; a died one left its writes half done.
Oddity == {"late", "overtaken", "died"}

\* COUNT_TRANSITIONS.
Allowed(from) ==
  CASE from = "Draft"     -> {"Counting", "Cancelled"}
    [] from = "Counting"  -> {"Submitted", "Cancelled"}
    [] from = "Submitted" -> {"Approved", "Rejected", "Cancelled"}
    [] from = "Approved"  -> {"Posted"}
    [] from = "Rejected"  -> {"Counting", "Cancelled"}
    [] OTHER              -> {}

\* A line: in the sheet or not, holding its SKU's openLock, what was found, and
\* whether its variance has been posted.
CountLine ==
  [on : BOOLEAN, lock : BOOLEAN, found : {"uncounted", "same", "different"},
   posted : BOOLEAN, countedBy : User \cup {Nobody}]
NoCountLine ==
  [on |-> FALSE, lock |-> FALSE, found |-> "uncounted", posted |-> FALSE, countedBy |-> Nobody]
FreshLine == [NoCountLine EXCEPT !.on = TRUE, !.lock = TRUE]

\* adjustmentRequired.
Variances(c) == {s \in Item : sheet[c][s].on /\ sheet[c][s].found = "different"}

NoPosting == [batch |-> {}, folds |-> 0, records |-> 0, linked |-> FALSE]
NoCall == [step |-> "none"]

Steps == {"insert", "undo", "close", "enter", "save", "find", "post", "fold", "stamp",
          "record", "finish", "unlock"}

CountTypeOK ==
  /\ status \in [Count -> Statuses \cup {"none"}]
  /\ sheet \in [Count -> [Item -> CountLine]]
  /\ people \in [Count -> [counter : User \cup {Nobody}, submitter : User \cup {Nobody},
                           approver : User \cup {Nobody}]]
  /\ posting \in [Count -> [batch : SUBSET Item, folds : 0..1, records : Nat, linked : BOOLEAN]]
  /\ approvedAs \in [Count -> SUBSET Item]
  /\ \A r \in Request : call[r] = NoCall \/ (call[r].step \in Steps /\ call[r].count \in Count)
  /\ deaths \in 0..MaxDeaths /\ calls \in 0..MaxCalls
  /\ odd \in [Count -> SUBSET Oddity]

\* The requests under way on a count, and the next write of a request.
On(c) == {r \in Request : call[r] # NoCall /\ call[r].count = c}
Begins(r) == call[r] = NoCall /\ calls < MaxCalls /\ calls' = calls + 1
At(r, step) == call[r].step = step
Proceed(r, step) == call' = [call EXCEPT ![r].step = step]
Ends(r) == call' = [call EXCEPT ![r] = NoCall]
Happens(c, what) == odd' = [odd EXCEPT ![c] = @ \cup what]

-----------------------------------------------------------------------------
(* createCount.                                                            *)

\* The session is written first, as a Draft without lines.
CreatesCount(r, c, items) ==
  /\ Begins(r)
  /\ status[c] = "none"
  /\ status' = [status EXCEPT ![c] = "Draft"]
  /\ call' = [call EXCEPT ![r] = [step |-> "insert", count |-> c, items |-> items]]
  /\ UNCHANGED <<sheet, people, posting, approvedAs, deaths, odd>>

Locked(s) == \E d \in Count : sheet[d][s].lock

\* Mutant: the sheet is written without the unique index on open locks.
InsertsUnlocked(r) ==
  /\ At(r, "insert")
  /\ LET c == call[r].count
     IN  sheet' = [sheet EXCEPT ![c] =
           [s \in Item |-> IF s \in call[r].items THEN FreshLine ELSE @[s]]]
  /\ Ends(r)
  /\ UNCHANGED <<status, people, posting, approvedAs, deaths, calls, odd>>

\* insertMany, unordered: the partial unique index refuses the SKUs inside another
\* open count and lets the others in.
InsertsLines(r) ==
  /\ At(r, "insert")
  /\ LET c == call[r].count
         free == {s \in call[r].items : ~Locked(s)}
     IN  /\ sheet' = [sheet EXCEPT ![c] = [s \in Item |-> IF s \in free THEN FreshLine ELSE @[s]]]
         /\ IF free = call[r].items THEN Ends(r) ELSE Proceed(r, "undo")
  /\ UNCHANGED <<status, people, posting, approvedAs, deaths, calls, odd>>

\* An overlap: the lines that got in are deleted ...
DeletesLines(r) ==
  /\ At(r, "undo")
  /\ sheet' = [sheet EXCEPT ![call[r].count] = [s \in Item |-> NoCountLine]]
  /\ Proceed(r, "close")
  /\ UNCHANGED <<status, people, posting, approvedAs, deaths, calls, odd>>

\* ... and the session is cancelled, whatever it has become.
ClosesOverlap(r) ==
  /\ At(r, "close")
  /\ LET c == call[r].count
     IN  /\ status' = [status EXCEPT ![c] = "Cancelled"]
         /\ Happens(c, IF status[c] # "Draft" THEN {"overtaken"} ELSE {})
  /\ Ends(r)
  /\ UNCHANGED <<sheet, people, posting, approvedAs, deaths, calls>>

-----------------------------------------------------------------------------
(* The session's steps: each reads the session and saves it later.         *)

Reads(r, c, u, aim, step) ==
  /\ Begins(r)
  /\ aim \in Allowed(status[c])
  /\ call' = [call EXCEPT ![r] = [step |-> step, count |-> c, user |-> u,
                                  aim |-> aim, saw |-> status[c], lines |-> {}, replayed |-> FALSE]]
  /\ UNCHANGED <<status, sheet, people, posting, approvedAs, deaths, odd>>

ReadsToStart(r, c, u) == Reads(r, c, u, "Counting", "save")

\* Every line is counted, or the caller allows uncounted ones: no bar either way.
ReadsToSubmit(r, c, u) == Reads(r, c, u, "Submitted", "save")
ReadsToReject(r, c) == Reads(r, c, Nobody, "Rejected", "save")
ReadsToCancel(r, c) == Reads(r, c, Nobody, "Cancelled", "save")

\* BR-27: not by the counter on record, nor by who submitted.
ReadsToApprove(r, c, u) ==
  /\ u \notin {people[c].counter, people[c].submitter}
  /\ Reads(r, c, u, "Approved", "save")

ReadsToPost(r, c) == Reads(r, c, Nobody, "Posted", "find")

\* count.save(): the fields this request changed, over whatever is there.  A
\* cancellation has its locks to release.
SavesCount(r) ==
  /\ At(r, "save")
  /\ LET c == call[r].count
         u == call[r].user
         aim == call[r].aim
     IN  /\ status' = [status EXCEPT ![c] = aim]
         /\ people' = [people EXCEPT ![c] =
              CASE aim = "Counting"  -> [@ EXCEPT !.counter = u]
                [] aim = "Submitted" -> [@ EXCEPT !.submitter = u]
                [] aim = "Approved"  -> [@ EXCEPT !.approver = u]
                [] OTHER             -> @]
         /\ approvedAs' = IF aim = "Approved" THEN [approvedAs EXCEPT ![c] = Variances(c)]
                                              ELSE approvedAs
         /\ Happens(c, IF status[c] # call[r].saw THEN {"overtaken"} ELSE {})
         /\ IF aim = "Cancelled" THEN Proceed(r, "unlock") ELSE Ends(r)
  /\ UNCHANGED <<sheet, posting, deaths, calls>>

\* recordCounts, for one line (a request with several is several of these): the
\* session is counting when it is read ...
ReadsToEnter(r, c, u, s, found) ==
  /\ Begins(r)
  /\ status[c] = "Counting"
  /\ sheet[c][s].on
  /\ call' = [call EXCEPT ![r] = [step |-> "enter", count |-> c, user |-> u,
                                  line |-> s, found |-> found]]
  /\ UNCHANGED <<status, sheet, people, posting, approvedAs, deaths, odd>>

\* ... and the line is written unless its variance has been posted.
Enters(r) ==
  /\ At(r, "enter")
  /\ LET c == call[r].count
         s == call[r].line
     IN  /\ sheet' = IF sheet[c][s].on /\ ~sheet[c][s].posted
                     THEN [sheet EXCEPT ![c][s].found = call[r].found,
                                        ![c][s].countedBy = call[r].user]
                     ELSE sheet
         /\ Happens(c, IF status[c] # "Counting" THEN {"late"} ELSE {})
  /\ Ends(r)
  /\ UNCHANGED <<status, people, posting, approvedAs, deaths, calls>>

-----------------------------------------------------------------------------
(* postCount.                                                              *)

\* Mutant: every counted line is posted, not only those that differ.
FindsCounted(r) ==
  /\ At(r, "find")
  /\ LET c == call[r].count
         open == {s \in Item : sheet[c][s].found # "uncounted" /\ ~sheet[c][s].posted}
     IN  call' = [call EXCEPT ![r].lines = open,
                              ![r].step = IF open = {} THEN "finish" ELSE "post"]
  /\ UNCHANGED <<status, sheet, people, posting, approvedAs, deaths, calls, odd>>

\* The variances not yet posted; without any, the session is only closed.
FindsVariances(r) ==
  /\ At(r, "find")
  /\ LET c == call[r].count
         open == {s \in Variances(c) : ~sheet[c][s].posted}
     IN  call' = [call EXCEPT ![r].lines = open,
                              ![r].step = IF open = {} THEN "finish" ELSE "post"]
  /\ UNCHANGED <<status, sheet, people, posting, approvedAs, deaths, calls, odd>>

\* Mutant: a key of its own for each attempt, so that nothing is replayed.
PostsAfresh(r) ==
  /\ At(r, "post")
  /\ posting' = [posting EXCEPT ![call[r].count].batch = call[r].lines]
  /\ call' = [call EXCEPT ![r].step = "fold"]
  /\ UNCHANGED <<status, sheet, people, approvedAs, deaths, calls, odd>>

\* postBatch under the key count-<id>-post: written once, replayed afterwards.
PostsVariances(r) ==
  /\ At(r, "post")
  /\ LET c == call[r].count
         replay == posting[c].batch # {}
     IN  /\ posting' = IF replay THEN posting ELSE [posting EXCEPT ![c].batch = call[r].lines]
         /\ call' = [call EXCEPT ![r].step = "fold", ![r].replayed = replay]
  /\ UNCHANGED <<status, sheet, people, approvedAs, deaths, calls, odd>>

\* applyMovements, unless the batch was a replay; health and mirror follow.
FoldsBatch(r) ==
  /\ At(r, "fold")
  /\ posting' = IF call[r].replayed THEN posting
                ELSE [posting EXCEPT ![call[r].count].folds = @ + 1]
  /\ Proceed(r, "stamp")
  /\ UNCHANGED <<status, sheet, people, approvedAs, deaths, calls, odd>>

StampsLines(r) ==
  /\ At(r, "stamp")
  /\ sheet' = [sheet EXCEPT ![call[r].count] =
       [s \in Item |-> IF s \in call[r].lines THEN [@[s] EXCEPT !.posted = TRUE] ELSE @[s]]]
  /\ Proceed(r, "record")
  /\ UNCHANGED <<status, people, posting, approvedAs, deaths, calls, odd>>

WritesRecord(r) ==
  /\ At(r, "record")
  /\ posting' = [posting EXCEPT ![call[r].count].records = @ + 1]
  /\ Proceed(r, "finish")
  /\ UNCHANGED <<status, sheet, people, approvedAs, deaths, calls, odd>>

\* Mutant: the linkage to the ledger is not saved with the status.
SavesPostedUnlinked(r) ==
  /\ At(r, "finish")
  /\ LET c == call[r].count
     IN  /\ status' = [status EXCEPT ![c] = "Posted"]
         /\ Happens(c, IF status[c] \notin {"Approved", "Posted"} THEN {"overtaken"} ELSE {})
  /\ Proceed(r, "unlock")
  /\ UNCHANGED <<sheet, people, posting, approvedAs, deaths, calls>>

\* The session is saved as Posted; the linkage only by a posting that had lines.
SavesPosted(r) ==
  /\ At(r, "finish")
  /\ LET c == call[r].count
     IN  /\ status' = [status EXCEPT ![c] = "Posted"]
         /\ posting' = [posting EXCEPT ![c].linked = @ \/ call[r].lines # {}]
         /\ Happens(c, IF status[c] \notin {"Approved", "Posted"} THEN {"overtaken"} ELSE {})
  /\ Proceed(r, "unlock")
  /\ UNCHANGED <<sheet, people, approvedAs, deaths, calls>>

\* releaseLocks, last: of a posting or of a cancellation.
ReleasesLocks(r) ==
  /\ At(r, "unlock")
  /\ sheet' = [sheet EXCEPT ![call[r].count] = [s \in Item |-> [@[s] EXCEPT !.lock = FALSE]]]
  /\ Ends(r)
  /\ UNCHANGED <<status, people, posting, approvedAs, deaths, calls, odd>>

\* A request dies, or a write of it throws.  What it wrote stays.
DiesCounting(r) ==
  /\ deaths < MaxDeaths
  /\ call[r] # NoCall
  /\ Happens(call[r].count, {"died"})
  /\ Ends(r)
  /\ deaths' = deaths + 1
  /\ UNCHANGED <<status, sheet, people, posting, approvedAs, calls>>

-----------------------------------------------------------------------------
CountInit ==
  /\ status = [c \in Count |-> "none"]
  /\ sheet = [c \in Count |-> [s \in Item |-> NoCountLine]]
  /\ people = [c \in Count |-> [counter |-> Nobody, submitter |-> Nobody, approver |-> Nobody]]
  /\ posting = [c \in Count |-> NoPosting]
  /\ approvedAs = [c \in Count |-> {}]
  /\ call = [r \in Request |-> NoCall]
  /\ deaths = 0
  /\ calls = 0
  /\ odd = [c \in Count |-> {}]

CountNext ==
  \E r \in Request :
    \/ \E c \in Count :
         \/ \E items \in SUBSET Item \ {{}} : CreatesCount(r, c, items)
         \/ ReadsToReject(r, c) \/ ReadsToCancel(r, c) \/ ReadsToPost(r, c)
         \/ \E u \in User :
              \/ ReadsToStart(r, c, u) \/ ReadsToSubmit(r, c, u) \/ ReadsToApprove(r, c, u)
              \/ \E s \in Item, found \in {"same", "different"} : ReadsToEnter(r, c, u, s, found)
    \/ InsertsLines(r) \/ DeletesLines(r) \/ ClosesOverlap(r)
    \/ SavesCount(r) \/ Enters(r)
    \/ FindsVariances(r) \/ PostsVariances(r) \/ FoldsBatch(r) \/ StampsLines(r)
    \/ WritesRecord(r) \/ SavesPosted(r) \/ ReleasesLocks(r)
    \/ DiesCounting(r)

CountSpec == CountInit /\ [][CountNext]_countVars

-----------------------------------------------------------------------------
(* Properties.                                                             *)

Open(c) == status[c] \in {"Draft", "Counting", "Submitted", "Approved", "Rejected"}

\* BR-45, "two overlapping counts would both post the same variance": no SKU is on
\* the sheets of two open counts, at any moment of their creation and closing,
\* unless one of them was reopened by a request that had been overtaken.
OpenCountsDisjoint ==
  \A c, d \in Count, s \in Item :
    /\ c # d /\ Open(c) /\ Open(d)
    /\ "overtaken" \notin odd[c] /\ "overtaken" \notin odd[d]
    => ~(sheet[c][s].on /\ sheet[d][s].on)

\* "a count that had posted but did not know it" (models/StockCount.js): whatever
\* postings of a count overlap, once they are over a Posted count whose variances
\* are in the ledger is linked to them, they are in the balance exactly once, and
\* an adjustment record tells of them - unless a posting died half way.
PostedIsExplained ==
  \A c \in Count :
    status[c] = "Posted" /\ posting[c].batch # {} /\ On(c) = {} /\ "died" \notin odd[c] =>
      posting[c].linked /\ posting[c].folds = 1 /\ posting[c].records > 0

\* What reaches the ledger is what was approved, unless an entry was written after
\* the counting closed or a review was overtaken; and a cancelled count, unless it
\* was approved meanwhile, leaves the ledger alone.
PostedAsApproved ==
  \A c \in Count :
    posting[c].batch # {} /\ odd[c] \cap {"late", "overtaken"} = {} =>
      posting[c].batch = approvedAs[c] /\ status[c] # "Cancelled"

\* BR-27, "the approver may not be the person who counted": no line of an approved
\* count was counted by its approver, races and late entries apart.
FourEyes ==
  \A c \in Count : status[c] = "Approved" /\ odd[c] = {} =>
    \A s \in Item : sheet[c][s].on => sheet[c][s].countedBy # people[c].approver
================================================================================
