------------------------------ MODULE SelectionList ------------------------------
(***************************************************************************)
(* One customer's reservations of one SKU, from the selection list to the  *)
(* indent and back: reservation.controller.js changes them, some of it by  *)
(* reading a document and saving it later without a condition, while       *)
(* arriving stock serves the indents and the daily job of                  *)
(* reservationExpiryJob.js, on one server or several, reminds and expires. *)
(*                                                                         *)
(* What a pass over the indents does beyond its claim is IndentAllocation's *)
(* subject, and what a confirmation does to the shelf BookingStock's.      *)
(***************************************************************************)
EXTENDS StockLedger, Totals

CONSTANTS
  Entry,       \* reservation documents, 1..n in the order they are created
  Clerk,       \* BOUND: places for requests under way, 1..n
  ExpiryRun,   \* BOUND: places for runs of the daily job, 1..n
  Aging,       \* BOUND: the lines whose window may grow old
  OnList,      \* units free at the start
  MaxOnList,   \* BOUND: the quantity of a line
  MaxArriving, \* BOUND: units that arrive
  MaxListCalls, \* BOUND: requests
  MaxUnderWay  \* BOUND: requests and runs under way at once

ASSUME ListAssumption ==
  /\ Entry \subseteq Nat \ {0} /\ IsFiniteSet(Entry)
  /\ Clerk \subseteq Nat /\ ExpiryRun \subseteq Nat
  /\ Aging \subseteq Entry
  /\ OnList \in Nat /\ MaxOnList \in Nat /\ MaxArriving \in Nat
  /\ MaxListCalls \in Nat /\ MaxUnderWay \in Nat

VARIABLES
  entry,     \* entry[l]: status, quantity, lastReminderSent and how old its window is
  free,      \* availableForSale of the product
  given,     \* given[l]: units booked for the line so far
  want,      \* want[l]: units the customer has asked for, and not withdrawn, on it
  request,   \* request[c]: what c has read and is going to save
  run,       \* run[j]: what a run of the job has still to claim and to mail
  mailed,    \* mailed[l][g]: mails of stage g in the line's present window
  overtaken, \* history: lines a save was made to after they had moved on
  rewound,   \* history: lines given a new window under a run that had listed them
  arrivals,  \* units that have arrived
  listCalls  \* requests so far

listVars ==
  <<entry, free, given, want, request, run, mailed, overtaken, rewound, arrivals, listCalls>>

OnTheList == "Reserved"
OpenIndent == {"Pending", "Partially Confirmed"}
Ended == {"Confirmed", "Expired", "Cancelled"}
Stage == {"day5", "day7", "expired"}

\* How old a window is: less than five days, five, six, seven and over.
Age == 0..3

NoEntry == [status |-> "none", quantity |-> 0, reminded |-> "none", age |-> 0]
NewLine(n) == [status |-> OnTheList, quantity |-> n, reminded |-> "none", age |-> 0]
NoRequest == [kind |-> "none"]
NoRun == [active |-> FALSE]
NoMail == [g \in Stage |-> 0]

InState(states) == {l \in Entry : entry[l].status \in states}
Listed == InState({OnTheList})

ListTypeOK ==
  /\ entry \in [Entry -> [status : {"none", OnTheList} \cup OpenIndent \cup Ended, quantity : Nat,
                          reminded : {"none", "day5", "day7"}, age : Age]]
  /\ free \in Nat /\ given \in [Entry -> Nat] /\ want \in [Entry -> Nat]
  /\ \A c \in Clerk : request[c].kind \in {"none", "add", "edit", "cancel", "restore"}
  /\ \A j \in ExpiryRun : run[j] # NoRun => run[j].due \in [Entry -> Stage \cup {"none"}]
  /\ mailed \in [Entry -> [Stage -> Nat]]
  /\ overtaken \subseteq Entry /\ rewound \subseteq Entry
  /\ arrivals \in 0..MaxArriving /\ listCalls \in 0..MaxListCalls

HasPlace ==
  Cardinality({c \in Clerk : request[c] # NoRequest})
    + Cardinality({j \in ExpiryRun : run[j] # NoRun}) < MaxUnderWay

-----------------------------------------------------------------------------
(* Requests: each reads, and saves later; one that dies in between never   *)
(* saves.  Which of them is which does not matter: the free place that     *)
(* comes first is taken.                                                   *)

Reads(c, r) ==
  /\ request[c] = NoRequest /\ \A d \in Clerk : d < c => request[d] # NoRequest
  /\ HasPlace
  /\ listCalls < MaxListCalls /\ listCalls' = listCalls + 1
  /\ request' = [request EXCEPT ![c] = r]
  /\ UNCHANGED <<entry, free, given, want, run, mailed, overtaken, rewound, arrivals>>

Saves(c) ==
  /\ request' = [request EXCEPT ![c] = NoRequest]
  /\ UNCHANGED <<free, given, run, arrivals, listCalls>>

\* createReservation finds a line of the SKU on the list, if there is one.
ReadsToAdd(c, n) ==
  \E l \in IF Listed = {} THEN {0} ELSE Listed :
    Reads(c, [kind |-> "add", line |-> l, quantity |-> n])

ReadsToEdit(c, l, n) ==
  /\ l \in Listed
  /\ Reads(c, [kind |-> "edit", line |-> l, quantity |-> n, had |-> given[l]])

ReadsToCancel(c, l) ==
  /\ l \in Listed \cup InState(OpenIndent)
  /\ Reads(c, [kind |-> "cancel", line |-> l])

\* An indent the shelf can cover.  (Two more refusals, an indent scheduled for later
\* and one held for the MSIL decision, only take cases away.)
ReadsToRestore(c, l) ==
  /\ l \in InState(OpenIndent) /\ entry[l].quantity <= free
  /\ Reads(c, [kind |-> "restore", line |-> l])

\* Mutant: the line that was found is topped up wherever it is by now.
TopsUpFound(c) ==
  LET r == request[c]
  IN  /\ r.kind = "add" /\ r.line # 0
      /\ entry[r.line].quantity + r.quantity <= MaxOnList
      /\ entry' = [entry EXCEPT ![r.line].quantity = @ + r.quantity]
      /\ want' = [want EXCEPT ![r.line] = @ + r.quantity]
      /\ Saves(c)
      /\ UNCHANGED <<mailed, overtaken, rewound>>

\* The update is conditional on the status: a line that has left the list since is not
\* topped up, a new one is created.
TopsUp(c) ==
  LET r == request[c]
  IN  /\ r.kind = "add" /\ r.line \in Listed
      /\ entry[r.line].quantity + r.quantity <= MaxOnList
      /\ entry' = [entry EXCEPT ![r.line].quantity = @ + r.quantity]
      /\ want' = [want EXCEPT ![r.line] = @ + r.quantity]
      /\ Saves(c)
      /\ UNCHANGED <<mailed, overtaken, rewound>>

Unused == InState({"none"})

Creates(c) ==
  LET r == request[c]
  IN  /\ r.kind = "add" /\ r.line \notin Listed
      /\ \E l \in Unused :
           /\ \A k \in Unused : l <= k
           /\ entry' = [entry EXCEPT ![l] = NewLine(r.quantity)]
           /\ want' = [want EXCEPT ![l] = r.quantity]
      /\ Saves(c)
      /\ UNCHANGED <<mailed, overtaken, rewound>>

\* updateReservationQuantity saves the quantity whatever has become of the line.
SavesQuantity(c) ==
  LET r == request[c]
  IN  /\ r.kind = "edit"
      /\ entry' = [entry EXCEPT ![r.line].quantity = r.quantity]
      /\ want' = [want EXCEPT ![r.line] = IF r.line \in Listed THEN r.had + r.quantity ELSE @]
      /\ overtaken' = IF r.line \in Listed /\ r.had = given[r.line]
                      THEN overtaken ELSE overtaken \cup {r.line}
      /\ Saves(c)
      /\ UNCHANGED <<mailed, rewound>>

\* cancelReservation saves the status: what the line still asked for is withdrawn.
SavesCancel(c) ==
  LET r == request[c]
  IN  /\ r.kind = "cancel"
      /\ entry' = [entry EXCEPT ![r.line].status = "Cancelled"]
      /\ want' = [want EXCEPT ![r.line] = given[r.line]]
      /\ Saves(c)
      /\ UNCHANGED <<mailed, overtaken, rewound>>

Follows(j, l) == run[j] # NoRun /\ (run[j].due[l] # "none" \/ \E g \in Stage : <<l, g>> \in run[j].claimed)

\* restoreBackorder saves the status and a new window.
SavesRestore(c) ==
  LET r == request[c]
  IN  /\ r.kind = "restore"
      /\ entry' = [entry EXCEPT ![r.line] = NewLine(@.quantity)]
      /\ mailed' = [mailed EXCEPT ![r.line] = NoMail]
      /\ overtaken' = IF entry[r.line].status \in Ended THEN overtaken \cup {r.line} ELSE overtaken
      /\ rewound' = IF \E j \in ExpiryRun : Follows(j, r.line) THEN rewound \cup {r.line} ELSE rewound
      /\ Saves(c)
      /\ UNCHANGED want

-----------------------------------------------------------------------------
(* Stock.                                                                  *)

\* runConfirmBooking, a transaction over the whole list in its order: each line gets
\* what is left, and what it did not get it becomes an indent for.
Before(l) == Total([k \in Listed |-> entry[k].quantity], {k \in Listed : k < l})

Outcome(e, got) ==
  LET short == e.quantity - got
  IN  IF short = 0 THEN [e EXCEPT !.status = "Confirmed", !.quantity = got]
      ELSE [e EXCEPT !.status = IF got > 0 THEN "Partially Confirmed" ELSE "Pending", !.quantity = short]

Confirms ==
  /\ Listed # {}
  /\ \E got \in [Listed -> 0..MaxOnList] :
       /\ \A l \in Listed : got[l] = LesserOf(entry[l].quantity, GreaterOf(0, free - Before(l)))
       /\ entry' = [l \in Entry |-> IF l \in Listed THEN Outcome(entry[l], got[l]) ELSE entry[l]]
       /\ given' = [l \in Entry |-> IF l \in Listed THEN given[l] + got[l] ELSE given[l]]
       /\ free' = free - Total(got, Listed)
  /\ UNCHANGED <<want, request, run, mailed, overtaken, rewound, arrivals, listCalls>>

\* claimIndentQuantity: all of an indent closes it, a part leaves the rest open.
IndentTaken(l, n) ==
  /\ l \in InState(OpenIndent)
  /\ n <= free /\ n \in 1..entry[l].quantity
  /\ entry' = [entry EXCEPT ![l] = Outcome(@, n)]
  /\ given' = [given EXCEPT ![l] = @ + n]
  /\ free' = free - n
  /\ UNCHANGED <<want, request, run, mailed, overtaken, rewound, arrivals, listCalls>>

UnitArrives ==
  /\ arrivals < MaxArriving /\ arrivals' = arrivals + 1
  /\ free' = free + 1
  /\ UNCHANGED <<entry, given, want, request, run, mailed, overtaken, rewound, listCalls>>

-----------------------------------------------------------------------------
(* The daily job.                                                          *)

\* What a line that was read is due for.
DueFor(e) ==
  CASE e.age = 3 -> "expired"
    [] e.age = 2 /\ e.reminded # "day7" -> "day7"
    [] e.age = 1 /\ e.reminded = "none" -> "day5"
    [] OTHER -> "none"

Grows(l) ==
  /\ l \in Listed \cap Aging /\ entry[l].age < 3
  /\ entry' = [entry EXCEPT ![l].age = @ + 1]
  /\ UNCHANGED <<free, given, want, request, run, mailed, overtaken, rewound, arrivals, listCalls>>

RunLists(j) ==
  /\ run[j] = NoRun /\ \A i \in ExpiryRun : i < j => run[i] # NoRun
  /\ HasPlace
  /\ \E l \in Listed : DueFor(entry[l]) # "none"
  /\ run' = [run EXCEPT ![j] =
       [active |-> TRUE, claimed |-> {},
        due |-> [l \in Entry |-> IF l \in Listed THEN DueFor(entry[l]) ELSE "none"]]]
  /\ UNCHANGED <<entry, free, given, want, request, mailed, overtaken, rewound, arrivals, listCalls>>

\* The write is conditional on the state it moves from: on the list, and for a
\* reminder not sent yet - neither this one nor a later one.
MayClaim(l, g) ==
  /\ l \in Listed
  /\ g = "day7" => entry[l].reminded # "day7"
  /\ g = "day5" => entry[l].reminded = "none"

\* Mutant: the write is conditional on the line being on the list, and on nothing else.
RunClaimsListed(j, l) ==
  LET g == run[j].due[l]
  IN  /\ run[j] # NoRun /\ g # "none"
      /\ run' = [run EXCEPT ![j] =
           [active |-> TRUE, claimed |-> IF l \in Listed THEN @.claimed \cup {<<l, g>>} ELSE @.claimed,
            due |-> [@.due EXCEPT ![l] = "none"]]]
      /\ IF l \in Listed
         THEN /\ entry' = [entry EXCEPT ![l] = IF g = "expired" THEN [@ EXCEPT !.status = "Expired"]
                                               ELSE [@ EXCEPT !.reminded = g]]
              /\ want' = IF g = "expired" THEN [want EXCEPT ![l] = given[l]] ELSE want
         ELSE UNCHANGED <<entry, want>>
      /\ UNCHANGED <<free, given, request, mailed, overtaken, rewound, arrivals, listCalls>>

RunClaims(j, l) ==
  LET g == run[j].due[l]
  IN  /\ run[j] # NoRun /\ g # "none"
      /\ run' = [run EXCEPT ![j] =
           [active |-> TRUE, claimed |-> IF MayClaim(l, g) THEN @.claimed \cup {<<l, g>>} ELSE @.claimed,
            due |-> [@.due EXCEPT ![l] = "none"]]]
      /\ IF MayClaim(l, g)
         THEN /\ entry' = [entry EXCEPT ![l] = IF g = "expired" THEN [@ EXCEPT !.status = "Expired"]
                                               ELSE [@ EXCEPT !.reminded = g]]
              /\ want' = IF g = "expired" THEN [want EXCEPT ![l] = given[l]] ELSE want
         ELSE UNCHANGED <<entry, want>>
      /\ UNCHANGED <<free, given, request, mailed, overtaken, rewound, arrivals, listCalls>>

\* notifyStage, once every line has been dealt with.
RunMails(j) ==
  /\ run[j] # NoRun /\ \A l \in Entry : run[j].due[l] = "none"
  /\ mailed' = [l \in Entry |-> [g \in Stage |->
                  IF <<l, g>> \in run[j].claimed THEN mailed[l][g] + 1 ELSE mailed[l][g]]]
  /\ run' = [run EXCEPT ![j] = NoRun]
  /\ UNCHANGED <<entry, free, given, want, request, overtaken, rewound, arrivals, listCalls>>

\* The process dies, or a query fails and the job gives up.
RunDies(j) ==
  /\ run[j] # NoRun
  /\ run' = [run EXCEPT ![j] = NoRun]
  /\ UNCHANGED <<entry, free, given, want, request, mailed, overtaken, rewound, arrivals, listCalls>>

-----------------------------------------------------------------------------
\* A list of one line, as its customer left it.
ListInit ==
  /\ \E l \in Entry, n \in 1..MaxOnList :
       /\ \A k \in Entry : l <= k
       /\ want = [k \in Entry |-> IF k = l THEN n ELSE 0]
       /\ entry = [k \in Entry |-> IF k = l THEN NewLine(n) ELSE NoEntry]
  /\ free = OnList
  /\ given = [l \in Entry |-> 0]
  /\ request = [c \in Clerk |-> NoRequest]
  /\ run = [j \in ExpiryRun |-> NoRun]
  /\ mailed = [l \in Entry |-> NoMail]
  /\ overtaken = {} /\ rewound = {}
  /\ arrivals = 0 /\ listCalls = 0

ListNext ==
  \/ \E c \in Clerk :
       \/ \E n \in 1..MaxOnList : ReadsToAdd(c, n) \/ \E l \in Entry : ReadsToEdit(c, l, n)
       \/ \E l \in Entry : ReadsToCancel(c, l) \/ ReadsToRestore(c, l)
       \/ TopsUp(c) \/ Creates(c) \/ SavesQuantity(c) \/ SavesCancel(c) \/ SavesRestore(c)
  \/ Confirms \/ UnitArrives
  \/ \E l \in Entry : Grows(l) \/ \E n \in 1..MaxOnList : IndentTaken(l, n)
  \/ \E j \in ExpiryRun :
       RunLists(j) \/ RunMails(j) \/ RunDies(j) \/ \E l \in Entry : RunClaims(j, l)

ListSpec == ListInit /\ [][ListNext]_listVars

-----------------------------------------------------------------------------
(* Properties.                                                             *)

StillAsked(l) == IF l \in Listed \cup InState(OpenIndent) THEN entry[l].quantity ELSE 0

\* What a customer asked for on a line is booked once or still asked for: adds, edits,
\* cancellations, confirmations, stock arriving and the job, in whatever order, lose
\* no unit and book none twice - unless an edit was saved after the line had left
\* the list, or a restore after its indent had been closed.
PromisedOnce == \A l \in Entry \ overtaken : given[l] + StillAsked(l) = want[l]

\* "only the run whose write lands notifies": with several runs at once a line has
\* one mail of each stage in a window, it expires only at the end of the window, and
\* one the customer was told has expired is off the list - unless it was restored
\* while a run that had listed it was under way.
RemindedOnce ==
  \A l \in Entry \ (rewound \cup overtaken) :
    /\ \A g \in Stage : mailed[l][g] <= 1
    /\ entry[l].status = "Expired" => entry[l].age = 3
    /\ mailed[l]["expired"] = 1 => entry[l].status \in Ended
================================================================================
