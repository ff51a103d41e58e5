------------------------------- MODULE DeskProofs -------------------------------
(***************************************************************************)
(* Of the selection list, for any number of lines, requests, runs of the   *)
(* daily job and calls: no unit a customer asked for is lost or booked     *)
(* twice, and no reminder goes out twice, outside the windows the          *)
(* histories overtaken and rewound name.                                   *)
(*                                                                         *)
(* What makes it inductive: a request or a run only knows lines that have  *)
(* been created; a stage that was claimed or mailed left its mark on the   *)
(* line; and a stage has one holder, the run that claimed it or the        *)
(* customer's mailbox.                                                     *)
(*                                                                         *)
(* Of the edits of a booking, for any number of lines, SKUs, quantities    *)
(* and edits: the counters of every SKU and its indent are read off the    *)
(* booking's rows, unless something befell the SKU that the code has no    *)
(* answer to.                                                              *)
(*                                                                         *)
(* What makes it inductive: such a SKU has one row at most, so that what a *)
(* step does to the row is all that it does to the sums over the rows; and *)
(* a row whose units were given back was cancelled, so that giving them    *)
(* back again befalls the SKU.                                             *)
(***************************************************************************)
EXTENDS MCDesk, StockProjectionProofs, WellFoundedInduction, FiniteSetTheorems, TLAPS

Document ==
  [status : {"none", OnTheList} \cup OpenIndent \cup Ended, quantity : Nat,
   reminded : {"none", "day5", "day7"}, age : Age]

AnyRequest ==
  [kind : {"none"}]
    \cup [kind : {"add"}, line : Entry \cup {0}, quantity : Nat]
    \cup [kind : {"edit"}, line : Entry, quantity : Nat, had : Nat]
    \cup [kind : {"cancel", "restore"}, line : Entry]

AnyRun ==
  {NoRun}
    \cup [active : {TRUE}, claimed : SUBSET (Entry \X Stage), due : [Entry -> Stage \cup {"none"}]]

ListTypes ==
  /\ entry \in [Entry -> Document]
  /\ given \in [Entry -> Nat] /\ want \in [Entry -> Nat]
  /\ request \in [Clerk -> AnyRequest]
  /\ run \in [ExpiryRun -> AnyRun]
  /\ mailed \in [Entry -> [Stage -> Nat]]

Claimed(j, l, g) == run[j] # NoRun /\ <<l, g>> \in run[j].claimed

\* Nothing has happened to a document that does not exist yet, and nobody knows it.
UnusedIsNew ==
  \A l \in Entry : entry[l].status = "none" =>
    /\ given[l] = 0 /\ mailed[l] = NoMail
    /\ \A j \in ExpiryRun : ~Follows(j, l)
    /\ \A c \in Clerk : request[c].kind \in {"edit", "cancel", "restore"} => request[c].line # l

Fresh == Entry \ (rewound \cup overtaken)

\* The trace a claim of stage g leaves on the line.
Marked(l, g) ==
  CASE g = "day5" -> entry[l].reminded \in {"day5", "day7"}
    [] g = "day7" -> entry[l].reminded = "day7"
    [] OTHER -> entry[l].status \in Ended

ClaimedIsMarked ==
  \A l \in Fresh, g \in Stage, j \in ExpiryRun : Claimed(j, l, g) => Marked(l, g) /\ mailed[l][g] = 0

MailedIsMarked ==
  \A l \in Fresh, g \in Stage : mailed[l][g] # 0 => Marked(l, g) /\ mailed[l][g] = 1

OneClaim ==
  \A l \in Fresh, g \in Stage : \A i, j \in ExpiryRun : Claimed(i, l, g) /\ Claimed(j, l, g) => i = j

\* A line that a run is going to expire, and one that has expired, is at its end.
ExpiryIsAtTheEnd ==
  \A l \in Fresh :
    /\ entry[l].status = "Expired" => entry[l].age = 3
    /\ \A j \in ExpiryRun : run[j] # NoRun /\ run[j].due[l] = "expired" => entry[l].age = 3

PromiseInv == ListTypes /\ UnusedIsNew /\ PromisedOnce

ReminderInv == ClaimedIsMarked /\ MailedIsMarked /\ OneClaim /\ ExpiryIsAtTheEnd

USE ListAssumption

LEMMA InitPromise == ListInit => PromiseInv /\ ReminderInv
<1> SUFFICES ASSUME ListInit PROVE PromiseInv /\ ReminderInv
  OBVIOUS
<1> USE DEF ListInit, NoEntry, NewLine, NoRequest, NoRun, NoMail
<1>1. ListTypes
  <2>1. entry \in [Entry -> Document]
    <3>1. PICK l \in Entry, n \in 1..MaxOnList :
            entry = [k \in Entry |-> IF k = l THEN NewLine(n) ELSE NoEntry]
      OBVIOUS
    <3>2. NoEntry \in Document
      BY DEF Document, Age
    <3>3. NewLine(n) \in Document
      BY DEF Document, Age, NewLine, OnTheList
    <3>4. QED
      BY ONLY <3>1, <3>2, <3>3
  <2>2. given \in [Entry -> Nat] /\ want \in [Entry -> Nat]
    OBVIOUS
  <2>3. request \in [Clerk -> AnyRequest]
    BY DEF AnyRequest
  <2>4. run \in [ExpiryRun -> AnyRun]
    BY DEF AnyRun
  <2>5. mailed \in [Entry -> [Stage -> Nat]]
    OBVIOUS
  <2>6. QED
    BY <2>1, <2>2, <2>3, <2>4, <2>5 DEF ListTypes
<1>2. UnusedIsNew
  BY DEF UnusedIsNew, Follows
<1>3. PromisedOnce
  BY DEF PromisedOnce, StillAsked, InState, Listed, OnTheList, OpenIndent
<1>4. ReminderInv
  BY DEF ReminderInv, ClaimedIsMarked, MailedIsMarked, OneClaim, ExpiryIsAtTheEnd, Fresh, Claimed,
         OnTheList
<1>5. QED
  BY <1>1, <1>2, <1>3, <1>4 DEF PromiseInv
-----------------------------------------------------------------------------
(* The steps that change lines.  Each lemma: what the step keeps of the    *)
(* types and of what was asked for.                                        *)

\* Reading a line: the request knows a line that exists.
LEMMA ReadsStep ==
  ASSUME PromiseInv, NEW c \in Clerk, NEW r \in AnyRequest, Reads(c, r),
         r.kind \in {"edit", "cancel", "restore"} => entry[r.line].status # "none"
  PROVE  PromiseInv'
<1>1. ListTypes'
  BY DEF PromiseInv, ListTypes, Reads
<1>2. UnusedIsNew'
  <2>1. request' = [request EXCEPT ![c] = r] /\ UNCHANGED <<entry, given, mailed, run>>
    BY DEF Reads
  <2>2. request'[c] = r /\ \A d \in Clerk \ {c} : request'[d] = request[d]
    BY <2>1 DEF PromiseInv, ListTypes
  <2>3. ASSUME NEW l \in Entry, entry'[l].status = "none"
        PROVE  /\ given'[l] = 0 /\ mailed'[l] = NoMail
               /\ \A j \in ExpiryRun : ~Follows(j, l)'
               /\ \A d \in Clerk :
                    request'[d].kind \in {"edit", "cancel", "restore"} => request'[d].line # l
    <3>1. entry[l].status = "none"
      BY <2>1, <2>3
    <3>2. given'[l] = 0 /\ mailed'[l] = NoMail
      BY <2>1, <3>1 DEF PromiseInv, UnusedIsNew
    <3>3. \A j \in ExpiryRun : ~Follows(j, l)
      BY <3>1 DEF PromiseInv, UnusedIsNew
    <3>4. \A j \in ExpiryRun : ~Follows(j, l)'
      BY <2>1, <3>3 DEF Follows
    <3>5. ASSUME NEW d \in Clerk, request'[d].kind \in {"edit", "cancel", "restore"}
          PROVE  request'[d].line # l
      <4>1. CASE d = c
        BY <2>2, <3>1, <3>5, <4>1
      <4>2. CASE d # c
        <5>1. request'[d] = request[d]
          BY <2>2, <4>2
        <5>2. request[d].kind \in {"edit", "cancel", "restore"}
          BY <3>5, <5>1
        <5>3. request[d].line # l
          BY <3>1, <5>2 DEF PromiseInv, UnusedIsNew
        <5>4. QED
          BY <5>1, <5>3
      <4>3. QED
        BY <4>1, <4>2
    <3>6. QED
      BY <3>2, <3>4, <3>5
  <2>4. QED
    BY <2>3 DEF UnusedIsNew
<1>3. PromisedOnce'
  BY DEF PromiseInv, Reads, PromisedOnce, StillAsked, InState, Listed
<1>4. QED
  BY <1>1, <1>2, <1>3 DEF PromiseInv

LEMMA TopsUpStep == ASSUME PromiseInv, NEW c \in Clerk, TopsUp(c) PROVE PromiseInv'
<1> DEFINE r == request[c]
<1>0. r.line \in Entry /\ r.quantity \in Nat /\ entry[r.line].status = OnTheList
  BY DEF PromiseInv, ListTypes, AnyRequest, TopsUp, Listed, InState
<1>1. ListTypes'
  <2>1. PICK x \in Entry, n \in Nat : x = r.line /\ n = r.quantity
    BY <1>0
  <2>2. entry' = [entry EXCEPT ![x].quantity = @ + n]
    BY <2>1 DEF TopsUp
  <2>3. entry[x] \in Document /\ entry \in [Entry -> Document]
    BY DEF PromiseInv, ListTypes
  <2>4. entry' \in [Entry -> Document]
    BY ONLY <2>2, <2>3, n \in Nat, x \in Entry DEF Document
  <2>5. want' \in [Entry -> Nat]
    BY <2>1 DEF PromiseInv, ListTypes, TopsUp
  <2>6. request' \in [Clerk -> AnyRequest]
    BY DEF PromiseInv, ListTypes, TopsUp, Saves, AnyRequest, NoRequest
  <2> QED
    BY <2>4, <2>5, <2>6 DEF PromiseInv, ListTypes, TopsUp, Saves
<1>2. UnusedIsNew'
  BY <1>0 DEF PromiseInv, ListTypes, TopsUp, Saves, NoRequest, UnusedIsNew, Follows, Document, OnTheList
<1>3. PromisedOnce'
  BY <1>0 DEF PromiseInv, ListTypes, TopsUp, Saves, PromisedOnce, StillAsked, InState, Listed, Document
<1>4. QED
  BY <1>1, <1>2, <1>3 DEF PromiseInv

LEMMA CreatesStep == ASSUME PromiseInv, NEW c \in Clerk, Creates(c) PROVE PromiseInv'
<1> DEFINE r == request[c]
<1>0. r.quantity \in Nat
  BY DEF PromiseInv, ListTypes, AnyRequest, Creates
<1>1. PICK l \in Unused : entry' = [entry EXCEPT ![l] = NewLine(r.quantity)] /\ want' = [want EXCEPT ![l] = r.quantity]
  BY DEF Creates
<1>2. l \in Entry /\ entry[l].status = "none"
  BY DEF Unused, InState
<1>3. NewLine(r.quantity) \in Document
  BY <1>0 DEF Document, NewLine, Age, OnTheList
<1>4. ListTypes'
  BY <1>0, <1>1, <1>2, <1>3 DEF PromiseInv, ListTypes, Creates, Saves, AnyRequest, NoRequest
<1>5. UnusedIsNew'
  BY <1>1, <1>2
     DEF PromiseInv, ListTypes, Creates, Saves, NoRequest, UnusedIsNew, Follows, NewLine, OnTheList
<1>6. PromisedOnce'
  <2> SUFFICES ASSUME NEW k \in Entry \ overtaken'
               PROVE  given'[k] + StillAsked(k)' = want'[k]
    BY DEF PromisedOnce
  <2>1. CASE k = l
    BY <1>0, <1>1, <1>2, <1>3, <2>1
       DEF PromiseInv, ListTypes, Creates, Saves, UnusedIsNew, StillAsked, InState, Listed, NewLine
  <2>2. CASE k # l
    BY <1>1, <1>2, <2>2
       DEF PromiseInv, ListTypes, Creates, Saves, PromisedOnce, StillAsked, InState, Listed
  <2>3. QED
    BY <2>1, <2>2
<1>7. QED
  BY <1>4, <1>5, <1>6 DEF PromiseInv

LEMMA SavedRequest ==
  ASSUME ListTypes, NEW c \in Clerk, Saves(c)
  PROVE  /\ request' \in [Clerk -> AnyRequest] /\ request'[c].kind = "none"
         /\ \A d \in Clerk \ {c} : request'[d] = request[d]
<1>1. NoRequest \in AnyRequest /\ NoRequest.kind = "none"
  BY DEF NoRequest, AnyRequest
<1>2. QED
  BY <1>1 DEF ListTypes, Saves

\* Nobody comes to know an unused document, and none is made unused.
LEMMA UnusedKept ==
  ASSUME UnusedIsNew, run' = run,
         \A l \in Entry : entry'[l].status = "none" =>
           entry[l].status = "none" /\ given'[l] = given[l] /\ mailed'[l] = mailed[l],
         \A c \in Clerk : request'[c] = request[c] \/ request'[c].kind = "none"
  PROVE  UnusedIsNew'
<1> SUFFICES ASSUME NEW l \in Entry, entry'[l].status = "none"
             PROVE  /\ given'[l] = 0 /\ mailed'[l] = NoMail
                    /\ \A j \in ExpiryRun : ~Follows(j, l)'
                    /\ \A c \in Clerk :
                         request'[c].kind \in {"edit", "cancel", "restore"} => request'[c].line # l
  BY DEF UnusedIsNew
<1>1. entry[l].status = "none" /\ given'[l] = given[l] /\ mailed'[l] = mailed[l]
  OBVIOUS
<1>2. given'[l] = 0 /\ mailed'[l] = NoMail
  BY <1>1 DEF UnusedIsNew
<1>3. \A j \in ExpiryRun : ~Follows(j, l)'
  <2>1. \A j \in ExpiryRun : ~Follows(j, l)
    BY <1>1 DEF UnusedIsNew
  <2>2. \A j \in ExpiryRun : Follows(j, l)' = Follows(j, l)
    BY DEF Follows
  <2>3. QED
    BY <2>1, <2>2
<1>4. ASSUME NEW c \in Clerk, request'[c].kind \in {"edit", "cancel", "restore"}
      PROVE  request'[c].line # l
  <2>1. request'[c] = request[c]
    BY <1>4
  <2>2. request[c].kind \in {"edit", "cancel", "restore"}
    BY <1>4, <2>1
  <2>3. request[c].line # l
    BY <1>1, <2>2 DEF UnusedIsNew
  <2>4. QED
    BY <2>1, <2>3
<1>5. QED
  BY <1>2, <1>3, <1>4

LEMMA SavesQuantityStep == ASSUME PromiseInv, NEW c \in Clerk, SavesQuantity(c) PROVE PromiseInv'
<1>0. PICK x \in Entry, n \in Nat, had \in Nat :
        x = request[c].line /\ n = request[c].quantity /\ had = request[c].had /\ entry[x].status # "none"
  BY DEF PromiseInv, ListTypes, UnusedIsNew, AnyRequest, SavesQuantity
<1>1. entry[x] \in Document /\ entry' = [entry EXCEPT ![x] = [@ EXCEPT !.quantity = n]]
  BY <1>0 DEF PromiseInv, ListTypes, SavesQuantity
<1>2. /\ entry'[x] \in Document /\ entry'[x].status = entry[x].status
      /\ entry'[x].quantity = n
      /\ \A k \in Entry \ {x} : entry'[k] = entry[k]
      /\ entry' \in [Entry -> Document]
  BY <1>0, <1>1 DEF PromiseInv, ListTypes, Document
<1>3. Saves(c) /\ mailed' = mailed
  BY DEF SavesQuantity
<1>4. ListTypes'
  <2>1. want' \in [Entry -> Nat]
    BY <1>0 DEF PromiseInv, ListTypes, SavesQuantity
  <2>2. QED
    BY <1>2, <1>3, <2>1, SavedRequest DEF PromiseInv, ListTypes, Saves
<1>5. UnusedIsNew'
  BY <1>0, <1>2, <1>3, SavedRequest, UnusedKept DEF PromiseInv, Saves
<1>6. PromisedOnce'
  <2> SUFFICES ASSUME NEW l \in Entry \ overtaken'
               PROVE  given'[l] + StillAsked(l)' = want'[l]
    BY DEF PromisedOnce
  <2>1. l \notin overtaken /\ given' = given /\ given[l] + StillAsked(l) = want[l]
    BY DEF PromiseInv, PromisedOnce, SavesQuantity, Saves
  <2>2. CASE l = x
    <3>1. l \in Listed /\ had = given[l]
      BY <1>0, <2>1, <2>2 DEF SavesQuantity
    <3>2. want'[l] = had + n
      BY <1>0, <2>2, <3>1 DEF SavesQuantity, PromiseInv, ListTypes
    <3>3. StillAsked(l)' = n
      BY <1>0, <1>2, <2>2, <3>1 DEF StillAsked, InState, Listed
    <3>4. QED
      BY <2>1, <3>1, <3>2, <3>3
  <2>3. CASE l # x
    <3>1. entry'[l] = entry[l] /\ want'[l] = want[l]
      BY <1>0, <1>2, <2>3 DEF SavesQuantity, PromiseInv, ListTypes
    <3>2. QED
      BY <2>1, <3>1 DEF StillAsked, InState, Listed
  <2>4. QED
    BY <2>2, <2>3
<1>7. QED
  BY <1>4, <1>5, <1>6 DEF PromiseInv

LEMMA SavesCancelStep == ASSUME PromiseInv, NEW c \in Clerk, SavesCancel(c) PROVE PromiseInv'
<1>0. PICK x \in Entry : x = request[c].line /\ entry[x].status # "none"
  BY DEF PromiseInv, ListTypes, UnusedIsNew, AnyRequest, SavesCancel
<1>1. entry[x] \in Document /\ entry' = [entry EXCEPT ![x] = [@ EXCEPT !.status = "Cancelled"]]
  BY <1>0 DEF PromiseInv, ListTypes, SavesCancel
<1>2. /\ entry'[x] \in Document /\ entry'[x].status = "Cancelled"
      /\ \A k \in Entry \ {x} : entry'[k] = entry[k]
      /\ entry' \in [Entry -> Document]
  BY <1>0, <1>1 DEF PromiseInv, ListTypes, Document, Ended
<1>3. Saves(c) /\ mailed' = mailed /\ overtaken' = overtaken
  BY DEF SavesCancel
<1>4. want' \in [Entry -> Nat] /\ want'[x] = given[x]
      /\ \A k \in Entry \ {x} : want'[k] = want[k]
  BY <1>0 DEF PromiseInv, ListTypes, SavesCancel
<1>5. ListTypes'
  BY <1>2, <1>3, <1>4, SavedRequest DEF PromiseInv, ListTypes, Saves
<1>6. UnusedIsNew'
  BY <1>0, <1>2, <1>3, SavedRequest, UnusedKept DEF PromiseInv, Saves
<1>7. PromisedOnce'
  <2>1. StillAsked(x)' = 0
    BY <1>2 DEF StillAsked, InState, Listed, OnTheList, OpenIndent
  <2>2. \A k \in Entry \ {x} : StillAsked(k)' = StillAsked(k)
    BY <1>2 DEF StillAsked, InState, Listed
  <2>3. given[x] \in Nat
    BY <1>0 DEF PromiseInv, ListTypes
  <2>4. QED
    BY <1>3, <1>4, <2>1, <2>2, <2>3 DEF PromiseInv, PromisedOnce, Saves
<1>8. QED
  BY <1>5, <1>6, <1>7 DEF PromiseInv

LEMMA SavesRestoreStep == ASSUME PromiseInv, NEW c \in Clerk, SavesRestore(c) PROVE PromiseInv'
<1>0. PICK x \in Entry : x = request[c].line /\ entry[x].status # "none"
  BY DEF PromiseInv, ListTypes, UnusedIsNew, AnyRequest, SavesRestore
<1>1. entry[x] \in Document
  BY <1>0 DEF PromiseInv, ListTypes
<1>2. entry' = [entry EXCEPT ![x] = NewLine(@.quantity)]
  BY <1>0 DEF SavesRestore
<1>3. /\ entry'[x] \in Document /\ entry'[x].status = OnTheList
      /\ entry'[x].quantity = entry[x].quantity
      /\ \A k \in Entry \ {x} : entry'[k] = entry[k]
      /\ entry' \in [Entry -> Document]
  BY <1>0, <1>1, <1>2 DEF PromiseInv, ListTypes, Document, NewLine, Age
<1>4. /\ Saves(c) /\ want' = want /\ overtaken \subseteq overtaken'
      /\ entry[x].status \in Ended => x \in overtaken'
  BY <1>0 DEF SavesRestore
<1>5. mailed' \in [Entry -> [Stage -> Nat]] /\ \A k \in Entry \ {x} : mailed'[k] = mailed[k]
  BY <1>0 DEF PromiseInv, ListTypes, SavesRestore, NoMail
<1>6. ListTypes'
  BY <1>3, <1>4, <1>5, SavedRequest DEF PromiseInv, ListTypes, Saves
<1>7. UnusedIsNew'
  BY <1>0, <1>3, <1>4, <1>5, SavedRequest, UnusedKept DEF PromiseInv, Saves, OnTheList
<1>8. PromisedOnce'
  <2>1. entry[x].status \in OpenIndent \cup {OnTheList} => StillAsked(x)' = StillAsked(x)
    BY <1>0, <1>3 DEF StillAsked, InState, Listed
  <2>2. \A k \in Entry \ {x} : StillAsked(k)' = StillAsked(k)
    BY <1>3 DEF StillAsked, InState, Listed
  <2>3. entry[x].status \in OpenIndent \cup {OnTheList} \cup Ended
    BY <1>0, <1>1 DEF Document
  <2>4. QED
    BY <1>4, <2>1, <2>2, <2>3 DEF PromiseInv, PromisedOnce, Saves
<1>9. QED
  BY <1>6, <1>7, <1>8 DEF PromiseInv

\* What a line gets is never more than it asks for.
LEMMA OutcomeSplits ==
  ASSUME NEW e \in Document, NEW g \in Nat, g <= e.quantity,
         NEW o, o = Outcome(e, g)
  PROVE  /\ o \in Document /\ o.status \in OpenIndent \cup {"Confirmed"}
         /\ o.status \in OpenIndent => o.quantity = e.quantity - g
         /\ o.status = "Confirmed" => g = e.quantity
         /\ o.reminded = e.reminded /\ o.age = e.age
<1>0. e.quantity \in Nat /\ e.reminded \in {"none", "day5", "day7"} /\ e.age \in Age
  BY DEF Document
<1>1. e.quantity \in Nat /\ e = [status |-> e.status, quantity |-> e.quantity,
                              reminded |-> e.reminded, age |-> e.age]
  BY DEF Document
<1>2. CASE e.quantity - g = 0
  <2>1. o = [e EXCEPT !.status = "Confirmed", !.quantity = g]
    BY <1>2 DEF Outcome
  <2>2. o = [status |-> "Confirmed", quantity |-> g, reminded |-> e.reminded, age |-> e.age]
    BY <1>1, <2>1
  <2>3. o \in Document
    BY <1>0, <2>2 DEF Document, Ended
  <2>4. g = e.quantity
    BY <1>0, <1>2
  <2>5. QED
    BY <2>2, <2>3, <2>4 DEF OpenIndent
<1>3. CASE e.quantity - g # 0
  <2>1. PICK s \in OpenIndent : o = [e EXCEPT !.status = s, !.quantity = e.quantity - g]
    BY <1>3 DEF Outcome, OpenIndent
  <2>2. o = [status |-> s, quantity |-> e.quantity - g, reminded |-> e.reminded, age |-> e.age]
    BY <1>1, <2>1
  <2>3. o \in Document
    BY <1>0, <2>1, <2>2 DEF Document
  <2>4. QED
    BY <2>1, <2>2, <2>3 DEF OpenIndent
<1>4. QED
  BY <1>2, <1>3

\* A confirmation or an indent that is served moves a line on, whatever its quantities.
LEMMA OutcomeKeeps ==
  ASSUME NEW e \in Document, NEW g, NEW o, o = Outcome(e, g)
  PROVE  o.status \in OpenIndent \cup {"Confirmed"} /\ o.reminded = e.reminded /\ o.age = e.age
<1>1. CASE e.quantity - g = 0
  BY <1>1 DEF Outcome, Document
<1>2. CASE e.quantity - g # 0
  BY <1>2 DEF Outcome, Document, OpenIndent
<1>3. QED
  BY <1>1, <1>2

LEMMA ConfirmsStep == ASSUME PromiseInv, Confirms PROVE PromiseInv'
<1>1. PICK got \in [Listed -> 0..MaxOnList] :
        /\ \A l \in Listed : got[l] = LesserOf(entry[l].quantity, GreaterOf(0, free - Before(l)))
        /\ entry' = [l \in Entry |-> IF l \in Listed THEN Outcome(entry[l], got[l]) ELSE entry[l]]
        /\ given' = [l \in Entry |-> IF l \in Listed THEN given[l] + got[l] ELSE given[l]]
  BY DEF Confirms
<1>2. ASSUME NEW l \in Listed
      PROVE  l \in Entry /\ entry[l] \in Document /\ entry[l].status = OnTheList
  BY DEF PromiseInv, ListTypes, Listed, InState
<1>3. ASSUME NEW l \in Listed PROVE got[l] \in Nat /\ got[l] <= entry[l].quantity
  <2>1. got[l] \in Nat /\ entry[l].quantity \in Nat
    BY <1>1, <1>2 DEF Document
  <2>2. got[l] = LesserOf(entry[l].quantity, GreaterOf(0, free - Before(l)))
    BY <1>1
  <2>3. QED
    BY <2>1, <2>2 DEF LesserOf
<1>4. ASSUME NEW l \in Entry
      PROVE  entry'[l] = IF l \in Listed THEN Outcome(entry[l], got[l]) ELSE entry[l]
  BY <1>1
<1>5. ASSUME NEW l \in Listed
      PROVE  /\ entry'[l] \in Document /\ entry'[l].status \in OpenIndent \cup {"Confirmed"}
             /\ entry'[l].status \in OpenIndent => entry'[l].quantity = entry[l].quantity - got[l]
             /\ entry'[l].status = "Confirmed" => got[l] = entry[l].quantity
  <2>1. entry'[l] = Outcome(entry[l], got[l])
    BY <1>2, <1>4
  <2>2. QED
    BY <1>2, <1>3, <2>1, OutcomeSplits
<1>6. ListTypes'
  <2>1. entry' \in [Entry -> Document]
    BY <1>1, <1>4, <1>5 DEF PromiseInv, ListTypes
  <2>2. given' \in [Entry -> Nat]
    BY <1>1, <1>3 DEF PromiseInv, ListTypes
  <2>3. QED
    BY <2>1, <2>2 DEF PromiseInv, ListTypes, Confirms
<1>7. UnusedIsNew'
  <2>1. ASSUME NEW l \in Entry, entry'[l].status = "none"
        PROVE  entry[l].status = "none" /\ given'[l] = given[l]
    <3>1. l \notin Listed
      BY <1>5, <2>1 DEF OpenIndent
    <3>2. QED
      BY <1>1, <1>4, <2>1, <3>1
  <2>2. UNCHANGED <<request, run, mailed>>
    BY DEF Confirms
  <2>3. QED
    BY <2>1, <2>2, UnusedKept DEF PromiseInv
<1>8. PromisedOnce'
  <2> SUFFICES ASSUME NEW l \in Entry \ overtaken
               PROVE  given'[l] + StillAsked(l)' = want[l]
    BY DEF PromisedOnce, Confirms
  <2>1. given[l] + StillAsked(l) = want[l] /\ given[l] \in Nat
    BY DEF PromiseInv, PromisedOnce, ListTypes
  <2>2. CASE l \in Listed
    <3>1. StillAsked(l) = entry[l].quantity /\ entry[l].quantity \in Nat
      BY <1>2, <2>2 DEF StillAsked, Document
    <3>2. StillAsked(l)' = entry[l].quantity - got[l]
      <4>1. CASE entry'[l].status \in OpenIndent
        BY <1>2, <1>5, <2>2, <4>1 DEF StillAsked, InState, Listed
      <4>2. CASE entry'[l].status = "Confirmed"
        <5>1. l \notin Listed' /\ l \notin InState(OpenIndent)'
          BY <4>2 DEF InState, Listed, OpenIndent, OnTheList
        <5>2. QED
          BY <1>3, <1>5, <2>2, <3>1, <4>2, <5>1 DEF StillAsked
      <4>3. QED
        BY <1>5, <2>2, <4>1, <4>2
    <3>3. given'[l] = given[l] + got[l]
      BY <1>1, <2>2
    <3>4. QED
      BY <1>3, <2>1, <2>2, <3>1, <3>2, <3>3
  <2>3. CASE l \notin Listed
    <3>1. entry'[l] = entry[l] /\ given'[l] = given[l]
      BY <1>1, <1>4, <2>3
    <3>2. QED
      BY <2>1, <3>1 DEF StillAsked, InState, Listed
  <2>4. QED
    BY <2>2, <2>3
<1>9. QED
  BY <1>6, <1>7, <1>8 DEF PromiseInv

LEMMA IndentTakenStep ==
  ASSUME PromiseInv, NEW l \in Entry, NEW n \in 1..MaxOnList, IndentTaken(l, n) PROVE PromiseInv'
<1>1. /\ entry[l] \in Document /\ entry[l].status \in OpenIndent
      /\ entry[l].quantity \in Nat /\ n \in Nat /\ n <= entry[l].quantity
  BY DEF PromiseInv, ListTypes, IndentTaken, InState, Document
<1>2. /\ entry'[l] \in Document /\ entry'[l].status \in OpenIndent \cup {"Confirmed"}
      /\ entry'[l].status \in OpenIndent => entry'[l].quantity = entry[l].quantity - n
      /\ entry'[l].status = "Confirmed" => n = entry[l].quantity
      /\ entry' \in [Entry -> Document] /\ \A k \in Entry \ {l} : entry'[k] = entry[k]
  <2>1. entry'[l] = Outcome(entry[l], n) /\ \A k \in Entry \ {l} : entry'[k] = entry[k]
    BY DEF PromiseInv, ListTypes, IndentTaken
  <2>2. entry' = [k \in Entry |-> entry'[k]]
    BY DEF PromiseInv, ListTypes, IndentTaken
  <2>3. \A k \in Entry : entry[k] \in Document
    BY DEF PromiseInv, ListTypes
  <2>4. QED
    BY <1>1, <2>1, <2>2, <2>3, OutcomeSplits
<1>3. /\ given' \in [Entry -> Nat] /\ given'[l] = given[l] + n
      /\ \A k \in Entry \ {l} : given'[k] = given[k]
  BY <1>1 DEF PromiseInv, ListTypes, IndentTaken
<1>4. UNCHANGED <<want, request, run, mailed, overtaken>>
  BY DEF IndentTaken
<1>5. ListTypes'
  BY <1>2, <1>3, <1>4 DEF PromiseInv, ListTypes
<1>6. UnusedIsNew'
  <2>1. entry'[l].status # "none"
    BY <1>2 DEF OpenIndent
  <2>2. QED
    BY <1>2, <1>3, <1>4, <2>1, UnusedKept DEF PromiseInv
<1>7. PromisedOnce'
  <2>1. StillAsked(l) = entry[l].quantity
    BY <1>1 DEF StillAsked, InState
  <2>2. StillAsked(l)' = entry[l].quantity - n
    <3>1. CASE entry'[l].status \in OpenIndent
      BY <1>2, <3>1 DEF StillAsked, InState, Listed
    <3>2. CASE entry'[l].status = "Confirmed"
      <4>1. l \notin Listed' /\ l \notin InState(OpenIndent)'
        BY <3>2 DEF InState, Listed, OpenIndent, OnTheList
      <4>2. QED
        BY <1>1, <1>2, <3>2, <4>1 DEF StillAsked
    <3>3. QED
      BY <1>2, <3>1, <3>2
  <2>3. \A k \in Entry \ {l} : StillAsked(k)' = StillAsked(k)
    BY <1>2 DEF StillAsked, InState, Listed
  <2>4. given[l] \in Nat
    BY DEF PromiseInv, ListTypes
  <2>5. ASSUME l \notin overtaken PROVE given'[l] + StillAsked(l)' = want'[l]
    <3>1. given[l] + entry[l].quantity = want[l]
      BY <2>1, <2>5 DEF PromiseInv, PromisedOnce
    <3>2. want'[l] = want[l] /\ given'[l] = given[l] + n
      BY <1>3, <1>4
    <3>3. entry[l].quantity \in Nat /\ n \in Nat
      BY <1>1
    <3>4. QED
      BY <2>2, <2>4, <3>1, <3>2, <3>3
  <2>6. \A k \in Entry \ (overtaken \cup {l}) : given'[k] + StillAsked(k)' = want'[k]
    BY <1>3, <1>4, <2>3 DEF PromiseInv, PromisedOnce
  <2>7. QED
    BY <1>4, <2>5, <2>6 DEF PromisedOnce
<1>8. QED
  BY <1>5, <1>6, <1>7 DEF PromiseInv

LEMMA GrowsStep == ASSUME PromiseInv, NEW l \in Entry, Grows(l) PROVE PromiseInv'
<1>1. entry[l] \in Document /\ entry[l].age \in 0..2 /\ entry' = [entry EXCEPT ![l].age = @ + 1]
  BY DEF PromiseInv, ListTypes, Grows, Document, Age
<1>2. /\ entry' \in [Entry -> Document]
      /\ \A k \in Entry : entry'[k].status = entry[k].status /\ entry'[k].quantity = entry[k].quantity
  BY <1>1, SMTT(30) DEF PromiseInv, ListTypes, Document, Age
<1>3. UNCHANGED <<given, want, request, run, mailed, overtaken>>
  BY DEF Grows
<1>4. ListTypes'
  BY <1>2, <1>3 DEF PromiseInv, ListTypes
<1>5. UnusedIsNew'
  BY <1>2, <1>3, UnusedKept DEF PromiseInv
<1>6. PromisedOnce'
  BY <1>2, <1>3 DEF PromiseInv, PromisedOnce, StillAsked, InState, Listed
<1>7. QED
  BY <1>4, <1>5, <1>6 DEF PromiseInv

\* What a claim of stage g does to a line that may be claimed.
LEMMA ClaimEffect ==
  ASSUME PromiseInv, NEW j \in ExpiryRun, NEW l \in Entry, RunClaims(j, l)
  PROVE  /\ entry' \in [Entry -> Document] /\ want' \in [Entry -> Nat]
         /\ \A k \in Entry \ {l} : entry'[k] = entry[k] /\ want'[k] = want[k]
         /\ \/ entry'[l] = entry[l] /\ want'[l] = want[l]
            \/ /\ l \in Listed
               /\ entry'[l].status = OnTheList /\ entry'[l].quantity = entry[l].quantity
               /\ want'[l] = want[l]
            \/ l \in Listed /\ entry'[l].status = "Expired" /\ want'[l] = given[l]
<1> DEFINE g == run[j].due[l]
<1>1. entry[l] \in Document /\ g \in Stage
  <2>1. run[j] \in AnyRun /\ run[j] # NoRun /\ g # "none" /\ entry[l] \in Document
    BY DEF PromiseInv, ListTypes, RunClaims
  <2>2. run[j].due \in [Entry -> Stage \cup {"none"}]
    BY <2>1 DEF AnyRun
  <2>3. QED
    BY <2>1, <2>2
<1>2. CASE ~MayClaim(l, g)
  BY <1>2 DEF PromiseInv, ListTypes, RunClaims
<1>3. CASE MayClaim(l, g) /\ g = "expired"
  <2>1. entry' = [entry EXCEPT ![l] = [@ EXCEPT !.status = "Expired"]] /\ want' = [want EXCEPT ![l] = given[l]]
    BY <1>3 DEF RunClaims
  <2>2. [entry[l] EXCEPT !.status = "Expired"] \in Document
    BY <1>1 DEF Document, Ended
  <2>3. l \in Listed
    BY <1>3 DEF MayClaim
  <2>4. entry'[l].status = "Expired"
    BY <1>1, <2>1 DEF PromiseInv, ListTypes, Document
  <2>5. QED
    BY <2>1, <2>2, <2>3, <2>4 DEF PromiseInv, ListTypes
<1>4. CASE MayClaim(l, g) /\ g # "expired"
  <2>1. entry' = [entry EXCEPT ![l] = [@ EXCEPT !.reminded = g]] /\ want' = want
    BY <1>4 DEF RunClaims
  <2>2. [entry[l] EXCEPT !.reminded = g] \in Document
    BY <1>1, <1>4 DEF Document, Stage
  <2>3. l \in Listed /\ entry[l].status = OnTheList
    BY <1>4 DEF MayClaim, Listed, InState
  <2>4. entry'[l].status = OnTheList /\ entry'[l].quantity = entry[l].quantity
    BY <1>1, <2>1, <2>3 DEF PromiseInv, ListTypes, Document
  <2>5. QED
    BY <2>1, <2>2, <2>3, <2>4 DEF PromiseInv, ListTypes
<1>5. QED
  BY <1>2, <1>3, <1>4

\* What it does to the run.
LEMMA ClaimNoted ==
  ASSUME PromiseInv, NEW j \in ExpiryRun, NEW l \in Entry, RunClaims(j, l)
  PROVE  LET g == run[j].due[l]
         IN  /\ run' \in [ExpiryRun -> AnyRun]
             /\ g \in Stage /\ run[j] # NoRun /\ run'[j] # NoRun
             /\ run'[j].due = [run[j].due EXCEPT ![l] = "none"]
             /\ run'[j].claimed = IF MayClaim(l, g) THEN run[j].claimed \cup {<<l, g>>} ELSE run[j].claimed
             /\ \A i \in ExpiryRun \ {j} : run'[i] = run[i]
             /\ run[j].due \in [Entry -> Stage \cup {"none"}]
<1> DEFINE g == run[j].due[l]
<1> DEFINE C == IF MayClaim(l, g) THEN run[j].claimed \cup {<<l, g>>} ELSE run[j].claimed
<1>1. run[j] \in AnyRun /\ run[j] # NoRun /\ g # "none"
  BY DEF PromiseInv, ListTypes, RunClaims
<1>2. /\ run[j].due \in [Entry -> Stage \cup {"none"}] /\ run[j].claimed \in SUBSET (Entry \X Stage)
      /\ run[j].active = TRUE
      /\ run[j] = [active |-> TRUE, claimed |-> run[j].claimed, due |-> run[j].due]
  BY <1>1 DEF AnyRun
<1>3. g \in Stage
  BY <1>1, <1>2
<1>4. run' = [run EXCEPT ![j] = [active |-> TRUE, claimed |-> C, due |-> [@.due EXCEPT ![l] = "none"]]]
  BY DEF RunClaims
<1>5. run'[j] = [active |-> TRUE, claimed |-> C, due |-> [run[j].due EXCEPT ![l] = "none"]]
  BY <1>4 DEF PromiseInv, ListTypes
<1>6. C \in SUBSET (Entry \X Stage) /\ [run[j].due EXCEPT ![l] = "none"] \in [Entry -> Stage \cup {"none"}]
  BY <1>2, <1>3
<1>7. run'[j] \in AnyRun /\ run'[j] # NoRun
  BY <1>5, <1>6 DEF AnyRun, NoRun
<1>8. run' \in [ExpiryRun -> AnyRun] /\ \A i \in ExpiryRun \ {j} : run'[i] = run[i]
  BY <1>4, <1>7 DEF PromiseInv, ListTypes
<1>9. QED
  BY <1>1, <1>2, <1>3, <1>5, <1>7, <1>8

LEMMA RunClaimsStep ==
  ASSUME PromiseInv, NEW j \in ExpiryRun, NEW l \in Entry, RunClaims(j, l) PROVE PromiseInv'
<1>1. UNCHANGED <<given, request, mailed, overtaken>>
  BY DEF RunClaims
<1>2. ListTypes'
  BY <1>1, ClaimEffect, ClaimNoted DEF PromiseInv, ListTypes
<1>3. UnusedIsNew'
  <2> SUFFICES ASSUME NEW k \in Entry, entry'[k].status = "none"
               PROVE  entry[k].status = "none" /\ \A i \in ExpiryRun : ~Follows(i, k)'
    BY <1>1 DEF PromiseInv, UnusedIsNew
  <2>1. Follows(j, l)
    BY ClaimNoted DEF Follows, Stage
  <2>2. entry[l].status # "none"
    BY <2>1 DEF PromiseInv, UnusedIsNew
  <2>3. k # l /\ entry[k].status = "none"
    BY <2>2, ClaimEffect DEF OnTheList
  <2>4. ASSUME NEW i \in ExpiryRun PROVE ~Follows(i, k)'
    <3>1. ~Follows(i, k)
      BY <2>3 DEF PromiseInv, UnusedIsNew
    <3>2. CASE i # j
      BY <3>1, <3>2, ClaimNoted DEF Follows
    <3>3. CASE i = j
      <4>1. run[j].due[k] = "none" /\ \A g \in Stage : <<k, g>> \notin run[j].claimed
        BY <3>1, <3>3, ClaimNoted DEF Follows
      <4>2. run'[j].due[k] = "none" /\ \A g \in Stage : <<k, g>> \notin run'[j].claimed
        <5>1. run'[j].due = [run[j].due EXCEPT ![l] = "none"] /\ run[j].due \in [Entry -> Stage \cup {"none"}]
          BY ClaimNoted
        <5>2. run'[j].due[k] = "none"
          BY <4>1, <5>1
        <5>3. run'[j].claimed \subseteq run[j].claimed \cup {<<l, run[j].due[l]>>}
          BY ClaimNoted
        <5>4. QED
          BY <2>3, <4>1, <5>2, <5>3
      <4>3. QED
        BY <3>3, <4>2 DEF Follows
    <3>4. QED
      BY <3>2, <3>3
  <2>5. QED
    BY <2>3, <2>4
<1>4. PromisedOnce'
  <2>1. given[l] \in Nat
    BY DEF PromiseInv, ListTypes
  <2>2. \A k \in Entry \ {l} : StillAsked(k)' = StillAsked(k) /\ want'[k] = want[k]
    BY ClaimEffect DEF StillAsked, InState, Listed
  <2>3. CASE entry'[l] = entry[l] /\ want'[l] = want[l]
    <3>1. StillAsked(l)' = StillAsked(l)
      BY <2>3 DEF StillAsked, InState, Listed
    <3>2. QED
      BY <1>1, <2>2, <2>3, <3>1 DEF PromiseInv, PromisedOnce
  <2>4. CASE l \in Listed /\ entry'[l].status = OnTheList /\ entry'[l].quantity = entry[l].quantity
             /\ want'[l] = want[l]
    <3>1. StillAsked(l)' = StillAsked(l)
      BY <2>4 DEF StillAsked, InState, Listed
    <3>2. QED
      BY <1>1, <2>2, <2>4, <3>1 DEF PromiseInv, PromisedOnce
  <2>5. CASE l \in Listed /\ entry'[l].status = "Expired" /\ want'[l] = given[l]
    <3>1. StillAsked(l)' = 0
      BY <2>5 DEF StillAsked, InState, Listed, OnTheList, OpenIndent
    <3>2. QED
      <4>1. given'[l] + StillAsked(l)' = want'[l]
        BY <1>1, <2>1, <2>5, <3>1
      <4>2. \A k \in Entry \ (overtaken \cup {l}) : given'[k] + StillAsked(k)' = want'[k]
        BY <1>1, <2>2 DEF PromiseInv, PromisedOnce
      <4>3. QED
        BY <1>1, <4>1, <4>2 DEF PromisedOnce
  <2>6. QED
    BY <2>3, <2>4, <2>5, ClaimEffect
<1>5. QED
  BY <1>2, <1>3, <1>4 DEF PromiseInv

LEMMA DueIsStage == \A l \in Entry : DueFor(entry[l]) \in Stage \cup {"none"}
  BY DEF DueFor, Stage

LEMMA RunListsStep == ASSUME PromiseInv, NEW j \in ExpiryRun, RunLists(j) PROVE PromiseInv'
<1> DEFINE d == [l \in Entry |-> IF l \in Listed THEN DueFor(entry[l]) ELSE "none"]
<1>1. /\ run' = [run EXCEPT ![j] = [active |-> TRUE, claimed |-> {}, due |-> d]]
      /\ UNCHANGED <<entry, given, want, request, mailed, overtaken>>
  BY DEF RunLists
<1>2. [active |-> TRUE, claimed |-> {}, due |-> d] \in AnyRun
  BY DueIsStage DEF AnyRun
<1>3. ListTypes'
  BY <1>1, <1>2 DEF PromiseInv, ListTypes
<1>4. UnusedIsNew'
  <2> SUFFICES ASSUME NEW l \in Entry, entry[l].status = "none", NEW i \in ExpiryRun
               PROVE  ~Follows(i, l)'
    BY <1>1 DEF PromiseInv, UnusedIsNew
  <2>1. l \notin Listed
    BY DEF Listed, InState, OnTheList
  <2>2. CASE i = j
    BY <1>1, <2>1, <2>2 DEF PromiseInv, ListTypes, Follows
  <2>3. CASE i # j
    BY <1>1, <2>3 DEF PromiseInv, ListTypes, UnusedIsNew, Follows
  <2>4. QED
    BY <2>2, <2>3
<1>5. PromisedOnce'
  BY <1>1 DEF PromiseInv, PromisedOnce, StillAsked, InState, Listed
<1>6. QED
  BY <1>3, <1>4, <1>5 DEF PromiseInv

LEMMA RunEndsStep ==
  ASSUME PromiseInv, NEW j \in ExpiryRun, RunMails(j) \/ RunDies(j) PROVE PromiseInv'
<1>1. /\ run[j] # NoRun /\ run' = [run EXCEPT ![j] = NoRun]
      /\ UNCHANGED <<entry, given, want, request, overtaken>>
  BY DEF RunMails, RunDies
<1>2. /\ mailed' \in [Entry -> [Stage -> Nat]]
      /\ \A l \in Entry : entry[l].status = "none" => mailed'[l] = mailed[l]
  <2>1. CASE RunDies(j)
    BY <2>1 DEF RunDies, PromiseInv, ListTypes
  <2>2. CASE RunMails(j)
    <3>1. mailed' \in [Entry -> [Stage -> Nat]]
      BY <2>2 DEF RunMails, PromiseInv, ListTypes
    <3>2. ASSUME NEW l \in Entry, entry[l].status = "none" PROVE mailed'[l] = mailed[l]
      <4>1. \A g \in Stage : <<l, g>> \notin run[j].claimed
        BY <1>1, <3>2 DEF PromiseInv, UnusedIsNew, Follows
      <4>2. \A g \in Stage : mailed'[l][g] = mailed[l][g]
        BY <2>2, <4>1 DEF RunMails
      <4>3. mailed'[l] \in [Stage -> Nat] /\ mailed[l] \in [Stage -> Nat]
        BY <3>1 DEF PromiseInv, ListTypes
      <4>4. QED
        BY <4>2, <4>3
    <3>3. QED
      BY <3>1, <3>2
  <2>3. QED
    BY <2>1, <2>2
<1>3. run' \in [ExpiryRun -> AnyRun]
  BY <1>1 DEF AnyRun, PromiseInv, ListTypes
<1>4. ListTypes'
  BY <1>1, <1>2, <1>3 DEF PromiseInv, ListTypes
<1>5. UnusedIsNew'
  BY <1>1, <1>2 DEF PromiseInv, ListTypes, UnusedIsNew, Follows
<1>6. PromisedOnce'
  BY <1>1 DEF PromiseInv, PromisedOnce, StillAsked, InState, Listed
<1>7. QED
  BY <1>4, <1>5, <1>6 DEF PromiseInv

LEMMA UntouchedStep ==
  ASSUME PromiseInv, UNCHANGED <<entry, given, want, request, run, mailed, overtaken>>
  PROVE  PromiseInv'
  BY DEF PromiseInv, ListTypes, UnusedIsNew, Follows, PromisedOnce, StillAsked, InState, Listed

\* A request knows a line that exists.
LEMMA EditsKnowALine ==
  ASSUME PromiseInv, NEW c \in Clerk, NEW n \in 1..MaxOnList, NEW l \in Entry, ReadsToEdit(c, l, n)
  PROVE  PromiseInv'
<1> DEFINE r == [kind |-> "edit", line |-> l, quantity |-> n, had |-> given[l]]
<1>1. Reads(c, r) /\ entry[l].status # "none"
  BY DEF ReadsToEdit, Listed, InState, OnTheList
<1>2. r \in AnyRequest /\ r.line = l
  <2>1. given[l] \in Nat /\ n \in Nat
    BY DEF PromiseInv, ListTypes
  <2>2. QED
    BY <2>1 DEF AnyRequest
<1>3. QED
  BY <1>1, <1>2, ReadsStep

LEMMA EndsKnowALine ==
  ASSUME PromiseInv, NEW c \in Clerk, NEW l \in Entry, ReadsToCancel(c, l) \/ ReadsToRestore(c, l)
  PROVE  PromiseInv'
<1>1. CASE ReadsToCancel(c, l)
  <2> DEFINE r == [kind |-> "cancel", line |-> l]
  <2>1. Reads(c, r) /\ entry[l].status # "none"
    BY <1>1 DEF ReadsToCancel, Listed, InState, OnTheList, OpenIndent
  <2>2. r \in AnyRequest /\ r.line = l
    BY DEF AnyRequest
  <2>3. QED
    BY <2>1, <2>2, ReadsStep
<1>2. CASE ReadsToRestore(c, l)
  <2> DEFINE r == [kind |-> "restore", line |-> l]
  <2>1. Reads(c, r) /\ entry[l].status # "none"
    BY <1>2 DEF ReadsToRestore, Listed, InState, OpenIndent
  <2>2. r \in AnyRequest /\ r.line = l
    BY DEF AnyRequest
  <2>3. QED
    BY <2>1, <2>2, ReadsStep
<1>3. QED
  BY <1>1, <1>2

\* Every step, and a step that does nothing.
LEMMA StepPromise == PromiseInv /\ [ListNext]_listVars => PromiseInv'
<1> SUFFICES ASSUME PromiseInv, [ListNext]_listVars PROVE PromiseInv'
  OBVIOUS
<1>1. CASE UNCHANGED listVars
  BY <1>1, UntouchedStep DEF listVars
<1>2. ASSUME NEW c \in Clerk, NEW n \in 1..MaxOnList,
             ReadsToAdd(c, n) \/ \E l \in Entry : ReadsToEdit(c, l, n)
      PROVE  PromiseInv'
  <2>1. CASE ReadsToAdd(c, n)
    <3>1. PICK k \in Entry \cup {0} : Reads(c, [kind |-> "add", line |-> k, quantity |-> n])
      BY <2>1 DEF ReadsToAdd, Listed, InState
    <3>2. [kind |-> "add", line |-> k, quantity |-> n] \in AnyRequest
      BY DEF AnyRequest
    <3>3. QED
      BY <3>1, <3>2, ReadsStep
  <2>2. CASE \E l \in Entry : ReadsToEdit(c, l, n)
    BY <2>2, EditsKnowALine
  <2>3. QED
    BY <1>2, <2>1, <2>2
<1>3. ASSUME NEW c \in Clerk, NEW l \in Entry, ReadsToCancel(c, l) \/ ReadsToRestore(c, l)
      PROVE  PromiseInv'
  BY <1>3, EndsKnowALine
<1>4. ASSUME NEW c \in Clerk, TopsUp(c) \/ Creates(c) \/ SavesQuantity(c) \/ SavesCancel(c) \/ SavesRestore(c)
      PROVE  PromiseInv'
  BY <1>4, TopsUpStep, CreatesStep, SavesQuantityStep, SavesCancelStep, SavesRestoreStep
<1>5. CASE UnitArrives
  BY <1>5, UntouchedStep DEF UnitArrives
<1>6. ASSUME NEW j \in ExpiryRun,
             RunLists(j) \/ RunMails(j) \/ RunDies(j) \/ \E l \in Entry : RunClaims(j, l)
      PROVE  PromiseInv'
  BY <1>6, RunListsStep, RunEndsStep, RunClaimsStep
<1>7. QED
  BY <1>1, <1>2, <1>3, <1>4, <1>5, <1>6, ConfirmsStep, IndentTakenStep, GrowsStep DEF ListNext

\* What a customer asked for is booked once or still asked for, for any number of
\* lines, requests, runs and calls.
THEOREM AlwaysPromisedOnce == ListSpec => []PromisedOnce
<1>1. PromiseInv => PromisedOnce
  BY DEF PromiseInv
<1>2. QED
  BY <1>1, InitPromise, StepPromise, PTL DEF ListSpec

-----------------------------------------------------------------------------
(* Reminders.                                                              *)

\* What the history of line l rests on stands through a step.
Stands(l) ==
  /\ mailed'[l] = mailed[l] /\ entry'[l].reminded = entry[l].reminded
  /\ entry[l].age = 3 => entry'[l].age = 3
  /\ entry[l].status \in Ended => entry'[l].status \in Ended
  /\ entry'[l].status = "Expired" => entry[l].status = "Expired"

\* Line l begins a window that nobody follows.
Begins(l) ==
  /\ \A j \in ExpiryRun : ~Follows(j, l)
  /\ mailed'[l] = NoMail /\ entry'[l].status # "Expired"

\* A step of anybody but a run of the job.
LEMMA OthersKeepReminders ==
  ASSUME PromiseInv, ReminderInv, run' = run, Fresh' \subseteq Fresh,
         \A l \in Fresh' : Stands(l) \/ Begins(l)
  PROVE  ReminderInv'
<1>1. \A l \in Fresh : l \in Entry
  BY DEF Fresh
<1>2. ASSUME NEW l \in Fresh', NEW g \in Stage, NEW j \in ExpiryRun, Claimed(j, l, g)'
      PROVE  Marked(l, g)' /\ mailed'[l][g] = 0
  <2>1. Claimed(j, l, g) /\ Stands(l)
    BY <1>2 DEF Claimed, Begins, Follows
  <2>2. Marked(l, g) /\ mailed[l][g] = 0
    BY <2>1 DEF ReminderInv, ClaimedIsMarked
  <2>3. QED
    BY <2>1, <2>2 DEF Stands, Marked
<1>3. ASSUME NEW l \in Fresh', NEW g \in Stage, mailed'[l][g] # 0
      PROVE  Marked(l, g)' /\ mailed'[l][g] = 1
  <2>1. Stands(l)
    BY <1>3 DEF Begins, NoMail
  <2>2. Marked(l, g) /\ mailed[l][g] = 1
    BY <1>3, <2>1 DEF ReminderInv, MailedIsMarked, Stands
  <2>3. QED
    BY <2>1, <2>2 DEF Stands, Marked
<1>4. OneClaim'
  BY DEF ReminderInv, OneClaim, Claimed
<1>5. ASSUME NEW l \in Fresh'
      PROVE  /\ entry'[l].status = "Expired" => entry'[l].age = 3
             /\ \A j \in ExpiryRun : run[j] # NoRun /\ run[j].due[l] = "expired" => entry'[l].age = 3
  <2>1. CASE Stands(l)
    BY <2>1 DEF ReminderInv, ExpiryIsAtTheEnd, Stands
  <2>2. CASE Begins(l)
    BY <2>2 DEF Begins, Follows
  <2>3. QED
    BY <2>1, <2>2
<1>6. ClaimedIsMarked' /\ MailedIsMarked' /\ ExpiryIsAtTheEnd'
  BY <1>2, <1>3, <1>5 DEF ClaimedIsMarked, MailedIsMarked, ExpiryIsAtTheEnd
<1>7. QED
  BY <1>4, <1>6 DEF ReminderInv

LEMMA RunListsReminds ==
  ASSUME PromiseInv, ReminderInv, NEW j \in ExpiryRun, RunLists(j) PROVE ReminderInv'
<1> DEFINE d == [l \in Entry |-> IF l \in Listed THEN DueFor(entry[l]) ELSE "none"]
<1> DEFINE new == [active |-> TRUE, claimed |-> {}, due |-> d]
<1>1. run' = [run EXCEPT ![j] = new] /\ UNCHANGED <<entry, mailed, overtaken, rewound>>
  BY DEF RunLists
<1>2. run'[j] = new /\ \A i \in ExpiryRun \ {j} : run'[i] = run[i]
  BY <1>1 DEF PromiseInv, ListTypes
<1>3. Fresh' = Fresh /\ Fresh \subseteq Entry
  BY <1>1 DEF Fresh
<1>4. \A i \in ExpiryRun, l \in Entry, g \in Stage : Claimed(i, l, g)' => Claimed(i, l, g)
  BY <1>2 DEF Claimed
<1>5. \A l \in Entry, g \in Stage : Marked(l, g)' = Marked(l, g)
  BY <1>1 DEF Marked
<1>6. ASSUME NEW l \in Fresh, NEW i \in ExpiryRun, run'[i] # NoRun, run'[i].due[l] = "expired"
      PROVE  entry[l].age = 3
  <2>1. CASE i = j
    <3>1. run'[j].due = d
      BY <1>2
    <3>2. DueFor(entry[l]) = "expired"
      BY <1>3, <1>6, <2>1, <3>1
    <3>3. QED
      BY <3>2 DEF DueFor
  <2>2. CASE i # j
    BY <1>2, <1>6, <2>2 DEF ReminderInv, ExpiryIsAtTheEnd
  <2>3. QED
    BY <2>1, <2>2
<1>7. ClaimedIsMarked'
  BY <1>1, <1>3, <1>4, <1>5 DEF ReminderInv, ClaimedIsMarked
<1>8. MailedIsMarked'
  BY <1>1, <1>3, <1>5 DEF ReminderInv, MailedIsMarked
<1>9. OneClaim'
  BY <1>3, <1>4 DEF ReminderInv, OneClaim
<1>10. ExpiryIsAtTheEnd'
  BY <1>1, <1>3, <1>6 DEF ReminderInv, ExpiryIsAtTheEnd
<1>11. QED
  BY <1>7, <1>8, <1>9, <1>10 DEF ReminderInv

LEMMA RunEndsReminds ==
  ASSUME PromiseInv, ReminderInv, NEW j \in ExpiryRun, RunMails(j) \/ RunDies(j) PROVE ReminderInv'
<1>1. run[j] # NoRun /\ run' = [run EXCEPT ![j] = NoRun] /\ UNCHANGED <<entry, overtaken, rewound>>
  BY DEF RunMails, RunDies
<1>2. run'[j] = NoRun /\ \A i \in ExpiryRun \ {j} : run'[i] = run[i]
  BY <1>1 DEF PromiseInv, ListTypes
<1>3. Fresh' = Fresh /\ Fresh \subseteq Entry
  BY <1>1 DEF Fresh
<1>4. \A i \in ExpiryRun, l \in Entry, g \in Stage : Claimed(i, l, g)' => i # j /\ Claimed(i, l, g)
  BY <1>2 DEF Claimed
<1>5. \A l \in Entry, g \in Stage : Marked(l, g)' = Marked(l, g)
  BY <1>1 DEF Marked
<1>6. ASSUME NEW l \in Fresh, NEW g \in Stage
      PROVE  \/ mailed'[l][g] = mailed[l][g]
             \/ Claimed(j, l, g) /\ mailed'[l][g] = mailed[l][g] + 1
  <2>1. CASE RunDies(j)
    BY <2>1 DEF RunDies
  <2>2. CASE RunMails(j)
    <3>1. mailed'[l][g] = IF <<l, g>> \in run[j].claimed THEN mailed[l][g] + 1 ELSE mailed[l][g]
      BY <1>3, <2>2 DEF RunMails
    <3>2. QED
      BY <1>1, <3>1 DEF Claimed
  <2>3. QED
    BY <2>1, <2>2
<1>7. ASSUME NEW l \in Fresh, NEW g \in Stage, NEW i \in ExpiryRun, Claimed(i, l, g)'
      PROVE  Marked(l, g)' /\ mailed'[l][g] = 0
  <2>1. i # j /\ Claimed(i, l, g)
    BY <1>3, <1>4, <1>7
  <2>2. Marked(l, g) /\ mailed[l][g] = 0 /\ ~Claimed(j, l, g)
    BY <2>1 DEF ReminderInv, ClaimedIsMarked, OneClaim
  <2>3. QED
    BY <1>3, <1>5, <1>6, <2>2
<1>8. ASSUME NEW l \in Fresh, NEW g \in Stage, mailed'[l][g] # 0
      PROVE  Marked(l, g)' /\ mailed'[l][g] = 1
  <2>1. CASE mailed'[l][g] = mailed[l][g]
    BY <1>3, <1>5, <1>8, <2>1 DEF ReminderInv, MailedIsMarked
  <2>2. CASE Claimed(j, l, g) /\ mailed'[l][g] = mailed[l][g] + 1
    <3>1. Marked(l, g) /\ mailed[l][g] = 0
      BY <2>2 DEF ReminderInv, ClaimedIsMarked
    <3>2. Marked(l, g)'
      BY <1>3, <1>5, <3>1
    <3>3. mailed'[l][g] = 1
      BY <2>2, <3>1
    <3>4. QED
      BY <3>2, <3>3
  <2>3. QED
    BY <1>6, <2>1, <2>2
<1>9. ClaimedIsMarked' /\ MailedIsMarked'
  BY <1>3, <1>7, <1>8 DEF ClaimedIsMarked, MailedIsMarked
<1>10. OneClaim'
  BY <1>3, <1>4 DEF ReminderInv, OneClaim
<1>11. ExpiryIsAtTheEnd'
  BY <1>1, <1>2, <1>3 DEF ReminderInv, ExpiryIsAtTheEnd
<1>12. QED
  BY <1>9, <1>10, <1>11 DEF ReminderInv

LEMMA RunClaimsReminds ==
  ASSUME PromiseInv, ReminderInv, NEW j \in ExpiryRun, NEW l \in Entry, RunClaims(j, l)
  PROVE  ReminderInv'
<1>0. PICK s \in Stage : s = run[j].due[l]
  BY ClaimNoted
<1>1. UNCHANGED <<mailed, overtaken, rewound>> /\ Fresh' = Fresh /\ Fresh \subseteq Entry
  BY DEF RunClaims, Fresh
<1>2. \A k \in Entry \ {l} : entry'[k] = entry[k]
  BY ClaimEffect
<1>3. \A i \in ExpiryRun, k \in Entry, g \in Stage :
        Claimed(i, k, g)' =>
          Claimed(i, k, g) \/ (i = j /\ k = l /\ g = s /\ MayClaim(l, s))
  <2>1. /\ run[j] # NoRun /\ \A i \in ExpiryRun \ {j} : run'[i] = run[i]
        /\ run'[j].claimed = IF MayClaim(l, s) THEN run[j].claimed \cup {<<l, s>>} ELSE run[j].claimed
    BY <1>0, ClaimNoted
  <2>2. \A i \in ExpiryRun \ {j}, k \in Entry, g \in Stage : Claimed(i, k, g)' => Claimed(i, k, g)
    BY <2>1 DEF Claimed
  <2>3. \A k \in Entry, g \in Stage :
          Claimed(j, k, g)' => Claimed(j, k, g) \/ (k = l /\ g = s /\ MayClaim(l, s))
    BY <2>1 DEF Claimed
  <2>4. QED
    BY <2>2, <2>3
<1>4. \A i \in ExpiryRun, k \in Entry :
        run'[i] # NoRun /\ run'[i].due[k] = "expired" => run[i] # NoRun /\ run[i].due[k] = "expired"
  <2>1. run'[j].due = [run[j].due EXCEPT ![l] = "none"] /\ run[j].due \in [Entry -> Stage \cup {"none"}]
    BY ClaimNoted
  <2>2. \A k \in Entry : run'[j].due[k] = "expired" => run[j].due[k] = "expired"
    BY <2>1
  <2>3. run[j] # NoRun /\ \A i \in ExpiryRun \ {j} : run'[i] = run[i]
    BY ClaimNoted
  <2>4. QED
    BY <2>2, <2>3
<1>5. entry[l] \in Document
  BY DEF PromiseInv, ListTypes
<1>6. CASE ~MayClaim(l, s)
  <2>1. entry' = entry
    BY <1>0, <1>6 DEF RunClaims
  <2>2. \A k \in Entry, g \in Stage : Marked(k, g)' = Marked(k, g)
    BY <2>1 DEF Marked
  <2>3. \A i \in ExpiryRun, k \in Entry, g \in Stage : Claimed(i, k, g)' => Claimed(i, k, g)
    BY <1>3, <1>6
  <2>4. ClaimedIsMarked' /\ MailedIsMarked'
    BY <1>1, <2>2, <2>3 DEF ReminderInv, ClaimedIsMarked, MailedIsMarked
  <2>5. OneClaim' /\ ExpiryIsAtTheEnd'
    BY <1>1, <1>4, <2>1, <2>3 DEF ReminderInv, OneClaim, ExpiryIsAtTheEnd
  <2>6. QED
    BY <2>4, <2>5 DEF ReminderInv
<1>7. CASE MayClaim(l, s)
  <2>1. ~Marked(l, s) /\ entry[l].status = OnTheList
    BY <1>5, <1>7 DEF MayClaim, Marked, Listed, InState, OnTheList, Ended, Stage
  <2>2. entry'[l] = IF s = "expired" THEN [entry[l] EXCEPT !.status = "Expired"]
                    ELSE [entry[l] EXCEPT !.reminded = s]
    BY <1>0, <1>7 DEF RunClaims, PromiseInv, ListTypes
  <2>3. /\ s = "expired" => entry'[l].status = "Expired" /\ entry'[l].reminded = entry[l].reminded
        /\ s # "expired" => entry'[l].status = entry[l].status /\ entry'[l].reminded = s
        /\ entry'[l].age = entry[l].age
    BY <1>5, <2>2 DEF Document
  <2>4. Marked(l, s)' /\ \A g \in Stage : Marked(l, g) => Marked(l, g)'
    <3>1. CASE s = "expired"
      BY <2>3, <3>1 DEF Marked, Ended, Stage
    <3>2. CASE s = "day7"
      BY <2>3, <3>2 DEF Marked, Ended, Stage
    <3>3. CASE s = "day5"
      BY <2>1, <2>3, <3>3 DEF Marked, Ended, Stage
    <3>4. QED
      BY <1>5, <3>1, <3>2, <3>3 DEF Stage
  <2>5. \A k \in Entry, g \in Stage : Marked(k, g) => Marked(k, g)'
    BY <1>2, <2>4 DEF Marked
  <2>6. l \in Fresh => mailed[l][s] = 0 /\ \A i \in ExpiryRun : ~Claimed(i, l, s)
    BY <1>5, <2>1 DEF ReminderInv, ClaimedIsMarked, MailedIsMarked
  <2>7. ClaimedIsMarked'
    BY <1>1, <1>3, <2>4, <2>5, <2>6 DEF ReminderInv, ClaimedIsMarked
  <2>8. MailedIsMarked'
    BY <1>1, <2>5 DEF ReminderInv, MailedIsMarked
  <2>9. OneClaim'
    <3> SUFFICES ASSUME NEW k \in Fresh, NEW g \in Stage, NEW h \in ExpiryRun, NEW i \in ExpiryRun,
                        Claimed(h, k, g)', Claimed(i, k, g)'
                 PROVE  h = i
      BY <1>1 DEF OneClaim
    <3>1. CASE k = l /\ g = s
      BY <1>1, <1>3, <2>6, <3>1
    <3>2. CASE ~(k = l /\ g = s)
      BY <1>1, <1>3, <3>2 DEF ReminderInv, OneClaim
    <3>3. QED
      BY <3>1, <3>2
  <2>10. ExpiryIsAtTheEnd'
    <3>1. run[j] # NoRun
      BY ClaimNoted
    <3>2. \A k \in Entry : entry'[k].age = entry[k].age
      BY <1>2, <2>3
    <3>3. l \in Fresh /\ entry'[l].status = "Expired" => entry[l].age = 3
      BY <1>0, <2>1, <2>3, <3>1 DEF ReminderInv, ExpiryIsAtTheEnd, OnTheList
    <3>4. QED
      <4>1. \A k \in Fresh : entry'[k].status = "Expired" => entry'[k].age = 3
        BY <1>1, <1>2, <3>2, <3>3 DEF ReminderInv, ExpiryIsAtTheEnd
      <4>2. \A k \in Fresh : \A i \in ExpiryRun :
              run'[i] # NoRun /\ run'[i].due[k] = "expired" => entry'[k].age = 3
        BY <1>1, <1>4, <3>2 DEF ReminderInv, ExpiryIsAtTheEnd
      <4>3. QED
        BY <1>1, <4>1, <4>2 DEF ExpiryIsAtTheEnd
  <2>11. QED
    BY <2>7, <2>8, <2>9, <2>10 DEF ReminderInv
<1>8. QED
  BY <1>6, <1>7

\* A step of a customer, of the desk or of arriving stock leaves what a line's history
\* rests on as it was, or begins a window that nobody follows.
LEMMA OthersStand ==
  ASSUME PromiseInv, UNCHANGED <<run, mailed, overtaken, rewound>>, entry' \in [Entry -> Document],
         \A l \in Entry :
           \/ Stands(l)
           \/ entry[l].status = "none" /\ entry'[l].status # "Expired"
  PROVE  Fresh' \subseteq Fresh /\ \A l \in Fresh' : Stands(l) \/ Begins(l)
  BY DEF PromiseInv, UnusedIsNew, Fresh, Begins

LEMMA StepReminder == PromiseInv /\ ReminderInv /\ [ListNext]_listVars => ReminderInv'
<1> SUFFICES ASSUME PromiseInv, ReminderInv, [ListNext]_listVars PROVE ReminderInv'
  OBVIOUS
<1>0. entry \in [Entry -> Document] /\ entry' \in [Entry -> Document]
  BY StepPromise DEF PromiseInv, ListTypes
<1>1. ASSUME UNCHANGED <<entry, run, mailed, overtaken, rewound>> PROVE ReminderInv'
  <2>1. \A l \in Entry : Stands(l)
    BY <1>1 DEF Stands
  <2>2. QED
    BY <1>0, <1>1, <2>1, OthersStand, OthersKeepReminders
<1>2. ASSUME NEW c \in Clerk, NEW n \in 1..MaxOnList,
             ReadsToAdd(c, n) \/ \E l \in Entry : ReadsToEdit(c, l, n)
      PROVE  ReminderInv'
  BY <1>1, <1>2 DEF ReadsToAdd, ReadsToEdit, Reads
<1>3. ASSUME NEW c \in Clerk, NEW l \in Entry, ReadsToCancel(c, l) \/ ReadsToRestore(c, l)
      PROVE  ReminderInv'
  BY <1>1, <1>3 DEF ReadsToCancel, ReadsToRestore, Reads
<1>4. ASSUME NEW c \in Clerk, TopsUp(c) PROVE ReminderInv'
  <2>1. PICK x \in Entry : entry' = [entry EXCEPT ![x].quantity = @ + request[c].quantity]
    BY <1>4 DEF TopsUp, Listed, InState
  <2>2. \A l \in Entry : Stands(l)
    BY <1>0, <1>4, <2>1 DEF Stands, TopsUp, Document
  <2>3. QED
    BY <1>0, <1>4, <2>2, OthersStand, OthersKeepReminders DEF TopsUp, Saves
<1>5. ASSUME NEW c \in Clerk, Creates(c) PROVE ReminderInv'
  <2>1. PICK k \in Unused : entry' = [entry EXCEPT ![k] = NewLine(request[c].quantity)]
    BY <1>5 DEF Creates
  <2>2. entry[k].status = "none" /\ entry'[k].status # "Expired"
    BY <1>0, <2>1 DEF Unused, InState, NewLine, OnTheList
  <2>3. \A l \in Entry \ {k} : Stands(l)
    BY <1>0, <1>5, <2>1 DEF Stands, Creates
  <2>4. QED
    BY <1>0, <1>5, <2>2, <2>3, OthersStand, OthersKeepReminders DEF Creates, Saves
<1>6. ASSUME NEW c \in Clerk, SavesQuantity(c) PROVE ReminderInv'
  <2>1. entry' = [entry EXCEPT ![request[c].line] = [@ EXCEPT !.quantity = request[c].quantity]]
    BY <1>6 DEF SavesQuantity
  <2>2. \A l \in Entry : Stands(l)
    BY <1>0, <1>6, <2>1 DEF Stands, SavesQuantity, Document
  <2>3. UNCHANGED <<run, rewound>> /\ Fresh' \subseteq Fresh /\ Fresh \subseteq Entry
    BY <1>6 DEF SavesQuantity, Saves, Fresh
  <2>4. QED
    BY <2>2, <2>3, OthersKeepReminders
<1>7. ASSUME NEW c \in Clerk, SavesCancel(c) PROVE ReminderInv'
  <2>1. entry' = [entry EXCEPT ![request[c].line] = [@ EXCEPT !.status = "Cancelled"]]
    BY <1>7 DEF SavesCancel
  <2>2. \A l \in Entry : Stands(l)
    BY <1>0, <1>7, <2>1 DEF Stands, SavesCancel, Document, Ended
  <2>3. QED
    BY <1>0, <1>7, <2>2, OthersStand, OthersKeepReminders DEF SavesCancel, Saves
<1>8. ASSUME NEW c \in Clerk, SavesRestore(c) PROVE ReminderInv'
  <2>1. PICK x \in Entry : x = request[c].line
    BY <1>8 DEF PromiseInv, ListTypes, AnyRequest, SavesRestore
  <2>2. /\ entry' = [entry EXCEPT ![x] = NewLine(@.quantity)] /\ mailed' = [mailed EXCEPT ![x] = NoMail]
        /\ run' = run /\ overtaken \subseteq overtaken' /\ rewound \subseteq rewound'
        /\ (\E j \in ExpiryRun : Follows(j, x)) => x \in rewound'
    BY <1>8, <2>1 DEF SavesRestore, Saves
  <2>3. \A l \in Entry \ {x} : Stands(l)
    BY <1>0, <2>2 DEF Stands, PromiseInv, ListTypes
  <2>4. x \in Fresh' => Begins(x)
    BY <1>0, <2>2 DEF Begins, Fresh, PromiseInv, ListTypes, NewLine, OnTheList
  <2>5. Fresh' \subseteq Fresh /\ Fresh \subseteq Entry
    BY <2>2 DEF Fresh
  <2>6. QED
    BY <2>2, <2>3, <2>4, <2>5, OthersKeepReminders
<1>9. CASE Confirms
  <2>1. PICK got \in [Listed -> 0..MaxOnList] :
          entry' = [l \in Entry |-> IF l \in Listed THEN Outcome(entry[l], got[l]) ELSE entry[l]]
    BY <1>9 DEF Confirms
  <2>2. UNCHANGED <<run, mailed, overtaken, rewound>>
    BY <1>9 DEF Confirms
  <2>3. ASSUME NEW l \in Entry PROVE Stands(l)
    <3>1. CASE l \notin Listed
      BY <2>1, <2>2, <3>1 DEF Stands
    <3>2. CASE l \in Listed
      <4>1. entry[l].status = OnTheList /\ entry'[l] = Outcome(entry[l], got[l])
        BY <2>1, <3>2 DEF Listed, InState
      <4>2. QED
        <5>1. /\ entry'[l].status \in OpenIndent \cup {"Confirmed"}
              /\ entry'[l].reminded = entry[l].reminded /\ entry'[l].age = entry[l].age
          BY <1>0, <4>1, OutcomeKeeps
        <5>2. entry'[l].status # "Expired" /\ entry[l].status \notin Ended
          BY <4>1, <5>1 DEF OpenIndent, OnTheList, Ended
        <5>3. QED
          BY <2>2, <5>1, <5>2 DEF Stands
    <3>3. QED
      BY <3>1, <3>2
  <2>4. QED
    BY <1>0, <2>2, <2>3, OthersStand, OthersKeepReminders
<1>10. CASE UnitArrives
  BY <1>1, <1>10 DEF UnitArrives
<1>11. ASSUME NEW l \in Entry, Grows(l) PROVE ReminderInv'
  <2>1. /\ entry' = [entry EXCEPT ![l].age = @ + 1] /\ entry[l].age < 3
        /\ UNCHANGED <<run, mailed, overtaken, rewound>>
    BY <1>11 DEF Grows
  <2>2. \A k \in Entry : Stands(k)
    BY <1>0, <2>1 DEF Stands, Document, Age
  <2>3. QED
    BY <1>0, <2>1, <2>2, OthersStand, OthersKeepReminders
<1>12. ASSUME NEW l \in Entry, NEW n \in 1..MaxOnList, IndentTaken(l, n) PROVE ReminderInv'
  <2>1. /\ entry' = [entry EXCEPT ![l] = Outcome(@, n)] /\ entry[l].status \in OpenIndent
        /\ UNCHANGED <<run, mailed, overtaken, rewound>>
    BY <1>12 DEF IndentTaken, InState
  <2>2. \A k \in Entry : Stands(k)
    <3>1. \A k \in Entry \ {l} : Stands(k)
      BY <1>0, <2>1 DEF Stands
    <3>2. /\ entry'[l].status \in OpenIndent \cup {"Confirmed"}
          /\ entry'[l].reminded = entry[l].reminded /\ entry'[l].age = entry[l].age
      <4>1. entry'[l] = Outcome(entry[l], n)
        BY <1>0, <2>1
      <4>2. QED
        BY <1>0, <4>1, OutcomeKeeps
    <3>3. entry'[l].status # "Expired" /\ entry[l].status \notin Ended
      BY <2>1, <3>2 DEF OpenIndent, Ended
    <3>4. Stands(l)
      BY <2>1, <3>2, <3>3 DEF Stands
    <3>5. QED
      BY <3>1, <3>4
  <2>3. QED
    BY <1>0, <2>1, <2>2, OthersStand, OthersKeepReminders
<1>13. ASSUME NEW j \in ExpiryRun,
              RunLists(j) \/ RunMails(j) \/ RunDies(j) \/ \E l \in Entry : RunClaims(j, l)
       PROVE  ReminderInv'
  BY <1>13, RunListsReminds, RunEndsReminds, RunClaimsReminds
<1>14. CASE UNCHANGED listVars
  BY <1>1, <1>14 DEF listVars
<1>15. QED
  BY <1>2, <1>3, <1>4, <1>5, <1>6, <1>7, <1>8, <1>9, <1>10, <1>11, <1>12, <1>13, <1>14 DEF ListNext

\* However many runs of the job overlap, and whatever is done to a line meanwhile, each
\* reminder of a window goes out once and a line expires once, at its end.
THEOREM AlwaysRemindedOnce == ListSpec => []RemindedOnce
<1>1. PromiseInv /\ ReminderInv => RemindedOnce
  <2> SUFFICES ASSUME PromiseInv, ReminderInv, NEW l \in Fresh
               PROVE  /\ \A g \in Stage : mailed[l][g] <= 1
                      /\ entry[l].status = "Expired" => entry[l].age = 3
                      /\ mailed[l]["expired"] = 1 => entry[l].status \in Ended
    BY DEF RemindedOnce, Fresh
  <2>1. ASSUME NEW g \in Stage, mailed[l][g] # 0 PROVE mailed[l][g] = 1 /\ Marked(l, g)
    BY <2>1 DEF ReminderInv, MailedIsMarked
  <2>2. mailed[l]["expired"] = 1 => entry[l].status \in Ended
    BY <2>1 DEF Stage, Marked
  <2>3. QED
    BY <2>1, <2>2 DEF ReminderInv, ExpiryIsAtTheEnd
<1>2. QED
  BY <1>1, InitPromise, StepPromise, StepReminder, PTL DEF ListSpec

-----------------------------------------------------------------------------
(* What a confirmation gives out, and the types of the list.               *)

\* The members of S below n: none, and one more at most when n grows.
LEMMA Prefixes ==
  ASSUME NEW S \in SUBSET Nat
  PROVE  /\ {k \in S : k < 0} = {}
         /\ \A o \in Nat : o \notin S => {k \in S : k < o + 1} = {k \in S : k < o}
         /\ \A o \in Nat : o \in S => {k \in S : k < o + 1} = {k \in S : k < o} \cup {o}
<1>1. \A k \in S : k \in Nat
  OBVIOUS
<1>2. \A k \in S : ~(k < 0)
  BY <1>1
<1>3. \A o \in Nat : \A k \in S : k < o + 1 <=> k < o \/ k = o
  BY <1>1
<1> QED
  BY ONLY <1>2, <1>3

\* The lines of S, in their order, are given what is left of f: together the lines
\* before the n-th are given all they ask for, or all of f.
LEMMA FirstComeFirstServed ==
  ASSUME NEW S \in SUBSET Nat, IsFiniteSet(S), NEW f \in Nat, NEW q, NEW got,
         \A l \in S : q[l] \in Nat
           /\ got[l] = LesserOf(q[l], GreaterOf(0, f - Total(q, {k \in S : k < l}))),
         NEW n \in Nat
  PROVE  Total(got, {k \in S : k < n}) = LesserOf(f, Total(q, {k \in S : k < n}))
<1> DEFINE Pre(m) == {k \in S : k < m}
           Bad == {m \in Nat : Total(got, Pre(m)) # LesserOf(f, Total(q, Pre(m)))}
<1>1. \A m \in Nat : Pre(m) \in SUBSET S /\ IsFiniteSet(Pre(m))
  BY FS_Subset
<1>2. ASSUME NEW m \in Nat PROVE Total(q, Pre(m)) \in Nat
  BY <1>1, TotalNat
<1>3. \A l \in S : got[l] \in Int /\ q[l] \in Int
  <2> SUFFICES ASSUME NEW l \in S PROVE got[l] \in Int /\ q[l] \in Int
    OBVIOUS
  <2>1. l \in Nat /\ Total(q, Pre(l)) \in Nat
    BY <1>2
  <2> QED
    BY <2>1 DEF LesserOf, GreaterOf
<1>4. Bad = {}
  <2> SUFFICES ASSUME Bad # {} PROVE FALSE
    OBVIOUS
  <2>1. PICK m \in Bad : \A o \in Bad : m <= o
    <3>1. Bad \in SUBSET Nat
      OBVIOUS
    <3> QED
      BY <3>1, LeastOf
  <2>2. m \in Nat /\ Total(got, Pre(m)) # LesserOf(f, Total(q, Pre(m)))
    OBVIOUS
  <2>3. m # 0
    <3>1. Pre(0) = {}
      BY Prefixes
    <3>2. Total(got, Pre(0)) = 0 /\ Total(q, Pre(0)) = 0
      BY <3>1, TotalOfNone
    <3> QED
      BY <2>2, <3>2 DEF LesserOf
  <2>4. PICK o \in Nat : m = o + 1
    <3>1. m - 1 \in Nat /\ m = (m - 1) + 1
      BY <2>2, <2>3
    <3> QED
      BY <3>1
  <2>5. Total(got, Pre(o)) = LesserOf(f, Total(q, Pre(o)))
    <3>1. ~(m <= o)
      BY <2>4
    <3>2. o \notin Bad
      BY <2>1, <3>1
    <3> QED
      BY <3>2
  <2>6. CASE o \notin S
    <3>1. Pre(m) = Pre(o)
      BY <2>4, <2>6, Prefixes
    <3> QED
      BY <2>2, <2>5, <3>1
  <2>7. CASE o \in S
    <3>1. Pre(m) = Pre(o) \cup {o} /\ o \notin Pre(o)
      <4>1. Pre(m) = Pre(o) \cup {o}
        BY <2>4, <2>7, Prefixes
      <4>2. o \notin Pre(o)
        OBVIOUS
      <4> QED
        BY <4>1, <4>2
    <3>2. /\ Total(got, Pre(m)) = Total(got, Pre(o)) + got[o]
          /\ Total(q, Pre(m)) = Total(q, Pre(o)) + q[o]
      <4>1. \A x \in Pre(o) \cup {o} : got[x] \in Int /\ q[x] \in Int
        BY <1>3, <2>7
      <4>2. IsFiniteSet(Pre(o))
        BY <1>1
      <4>3. PICK T : T = Pre(o)
        OBVIOUS
      <4>5. IsFiniteSet(T) /\ o \notin T /\ \A x \in T \cup {o} : got[x] \in Int /\ q[x] \in Int
        BY ONLY <3>1, <4>1, <4>2, <4>3
      <4>6. Total(got, T \cup {o}) = Total(got, T) + got[o]
        BY ONLY <4>5, TotalAdds
      <4>7. Total(q, T \cup {o}) = Total(q, T) + q[o]
        BY ONLY <4>5, TotalAdds
      <4> QED
        BY ONLY <3>1, <4>3, <4>6, <4>7
    <3>3. got[o] = LesserOf(q[o], GreaterOf(0, f - Total(q, Pre(o)))) /\ q[o] \in Nat
      BY <2>7
    <3>4. PICK b \in Nat : b = Total(q, Pre(o))
      BY <1>2
    <3>5. PICK w \in Nat : w = q[o]
      BY <3>3
    <3>6. LesserOf(f, b) + LesserOf(w, GreaterOf(0, f - b)) = LesserOf(f, b + w)
      BY DEF LesserOf, GreaterOf
    <3> HIDE DEF Pre
    <3> QED
      BY <2>2, <2>5, <3>2, <3>3, <3>4, <3>5, <3>6
  <2> QED
    BY <2>6, <2>7
<1> QED
  BY <1>4

\* So a confirmation never gives out more than is free.
LEMMA NeverMoreThanFree ==
  ASSUME NEW S \in SUBSET Nat, IsFiniteSet(S), NEW f \in Nat, NEW q, NEW got,
         \A l \in S : q[l] \in Nat /\ got[l] \in Nat
           /\ got[l] = LesserOf(q[l], GreaterOf(0, f - Total(q, {k \in S : k < l})))
  PROVE  f - Total(got, S) \in Nat
<1> DEFINE id == [l \in S |-> l]
           n == Total(id, S) + 1
<1>1. \A l \in S : id[l] \in Nat /\ id[l] = l
  OBVIOUS
<1>2. Total(id, S) \in Nat /\ \A l \in S : id[l] <= Total(id, S)
  <2> HIDE DEF id
  <2> QED
    BY <1>1, TotalNat
<1> HIDE DEF id
<1>3. n \in Nat /\ {k \in S : k < n} = S
  <2>1. \A l \in S : l \in Nat /\ l < n
    BY <1>1, <1>2
  <2>2. n \in Nat
    BY <1>2
  <2>3. {k \in S : k < n} = S
    BY ONLY <2>1
  <2> QED
    BY <2>2, <2>3
<1> HIDE DEF n
<1>4. Total(got, {k \in S : k < n}) = LesserOf(f, Total(q, {k \in S : k < n}))
  <2>1. \A l \in S : q[l] \in Nat
          /\ got[l] = LesserOf(q[l], GreaterOf(0, f - Total(q, {k \in S : k < l})))
    OBVIOUS
  <2> QED
    BY ONLY <1>3, <2>1, f \in Nat, S \in SUBSET Nat, IsFiniteSet(S), FirstComeFirstServed
<1>5. Total(got, S) \in Nat /\ Total(q, S) \in Nat
  BY TotalNat
<1>6. Total(got, S) <= f
  BY <1>3, <1>4, <1>5 DEF LesserOf
<1> QED
  BY <1>5, <1>6

\* What the types of the list say beyond those of its lines, requests and runs.
ListRest ==
  /\ free \in Nat
  /\ overtaken \subseteq Entry /\ rewound \subseteq Entry
  /\ arrivals \in 0..MaxArriving /\ listCalls \in 0..MaxListCalls

LEMMA InitListRest == ListInit => ListRest
  BY DEF ListInit, ListRest

LEMMA ConfirmsKeepsRest == ASSUME PromiseInv, ListRest, Confirms PROVE ListRest'
<1>1. PICK got \in [Listed -> 0..MaxOnList] :
        /\ \A l \in Listed : got[l] = LesserOf(entry[l].quantity, GreaterOf(0, free - Before(l)))
        /\ free' = free - Total(got, Listed)
  BY DEF Confirms
<1>2. PICK q : q = [k \in Listed |-> entry[k].quantity]
  OBVIOUS
<1>3. PICK S : S = Listed
  OBVIOUS
<1>4. S \in SUBSET Nat /\ IsFiniteSet(S) /\ S \in SUBSET Entry
  BY <1>3, FS_Subset DEF Listed, InState
<1>5. \A l \in S : q[l] = entry[l].quantity /\ q[l] \in Nat /\ got[l] \in Nat
  BY <1>1, <1>2, <1>3, <1>4 DEF PromiseInv, ListTypes, Document
<1>6. \A l \in S : got[l] = LesserOf(q[l], GreaterOf(0, free - Total(q, {k \in S : k < l})))
  BY <1>1, <1>2, <1>3, <1>5 DEF Before
<1>7. PICK f \in Nat : f = free
  BY DEF ListRest
<1>8. f - Total(got, S) \in Nat
  BY <1>4, <1>5, <1>6, <1>7, NeverMoreThanFree
<1>9. free' \in Nat
  BY <1>1, <1>3, <1>7, <1>8
<1> QED
  BY <1>9 DEF ListRest, Confirms

LEMMA StepListRest == PromiseInv /\ ListRest /\ [ListNext]_listVars => ListRest'
<1> SUFFICES ASSUME PromiseInv, ListRest, [ListNext]_listVars PROVE ListRest'
  OBVIOUS
<1>1. CASE UNCHANGED listVars
  BY <1>1 DEF ListRest, listVars
<1>2. ASSUME NEW c \in Clerk, NEW r, Reads(c, r) PROVE ListRest'
  BY <1>2 DEF ListRest, Reads
<1>3. ASSUME NEW c \in Clerk, TopsUp(c) \/ Creates(c) \/ SavesCancel(c) PROVE ListRest'
  BY <1>3 DEF ListRest, TopsUp, Creates, SavesCancel, Saves
<1>4. ASSUME NEW c \in Clerk, SavesQuantity(c) \/ SavesRestore(c) PROVE ListRest'
  <2>1. request[c].line \in Entry
    BY <1>4 DEF SavesQuantity, SavesRestore, PromiseInv, ListTypes, AnyRequest
  <2> QED
    BY <1>4, <2>1 DEF ListRest, SavesQuantity, SavesRestore, Saves
<1>5. CASE UnitArrives
  BY <1>5 DEF ListRest, UnitArrives
<1>6. ASSUME NEW l \in Entry, Grows(l) PROVE ListRest'
  BY <1>6 DEF ListRest, Grows
<1>7. ASSUME NEW l \in Entry, NEW n \in 1..MaxOnList, IndentTaken(l, n) PROVE ListRest'
  BY <1>7 DEF ListRest, IndentTaken
<1>8. ASSUME NEW j \in ExpiryRun, RunLists(j) \/ RunMails(j) \/ RunDies(j) PROVE ListRest'
  BY <1>8 DEF ListRest, RunLists, RunMails, RunDies
<1>9. ASSUME NEW j \in ExpiryRun, NEW l \in Entry, RunClaims(j, l) PROVE ListRest'
  BY <1>9 DEF ListRest, RunClaims
<1>10. ASSUME NEW c \in Clerk, NEW n \in 1..MaxOnList,
              ReadsToAdd(c, n) \/ \E l \in Entry : ReadsToEdit(c, l, n)
       PROVE  ListRest'
  BY <1>2, <1>10 DEF ReadsToAdd, ReadsToEdit
<1>11. ASSUME NEW c \in Clerk, NEW l \in Entry, ReadsToCancel(c, l) \/ ReadsToRestore(c, l)
       PROVE  ListRest'
  BY <1>2, <1>11 DEF ReadsToCancel, ReadsToRestore
<1> QED
  BY <1>1, <1>3, <1>4, <1>5, <1>6, <1>7, <1>8, <1>9, <1>10, <1>11, ConfirmsKeepsRest DEF ListNext

\* The lines, the requests and the runs hold what they may, and the shelf is never
\* given away below zero: a confirmation hands a whole list out of one reading of
\* availableForSale (runConfirmBooking), an indent is served out of what is left.
THEOREM ListTyped == ListSpec => []ListTypeOK
<1>1. PromiseInv /\ ListRest => ListTypeOK
  <2> SUFFICES ASSUME PromiseInv, ListRest PROVE ListTypeOK
    OBVIOUS
  <2>1. \A c \in Clerk : request[c].kind \in {"none", "add", "edit", "cancel", "restore"}
    BY DEF PromiseInv, ListTypes, AnyRequest
  <2>2. \A j \in ExpiryRun : run[j] # NoRun => run[j].due \in [Entry -> Stage \cup {"none"}]
    BY DEF PromiseInv, ListTypes, AnyRun
  <2> QED
    BY <2>1, <2>2 DEF PromiseInv, ListTypes, ListRest, ListTypeOK, Document
<1> QED
  BY <1>1, InitPromise, StepPromise, InitListRest, StepListRest, PTL DEF ListSpec

-----------------------------------------------------------------------------
(* The lines of a booking that is edited.                                  *)

OrderRow ==
  [sku : Sku, confirmed : Nat, pending : Nat, inward : Nat,
   state : {"reserved", "consumed", "released"}, cancelled : BOOLEAN]

\* Every line is a row or free, and a row that gave its units back was cancelled.
EditShape ==
  /\ EditTypeOK
  /\ orderRow = [l \in Lines |-> orderRow[l]]
  /\ \A l \in Lines : orderRow[l] = NoOrderRow \/ orderRow[l] \in OrderRow
  /\ \A l \in Filled : orderRow[l].state = "released" => orderRow[l].cancelled

\* What the others hold of s, h units of this booking held and o units of it off the shelf.
Covers(s, h, o) == shelf[s].booked = rivals[s] + h /\ shelf[s].avail = OnShelf[s] - rivals[s] - o

HeldBy(l) == IF orderRow[l].state = "reserved" THEN orderRow[l].confirmed ELSE 0
TakenBy(l) == IF orderRow[l].state = "released" THEN 0 ELSE orderRow[l].confirmed

\* Of a SKU of which no cancelled booking was edited there is one row at most, and the
\* counters and the indent can be read off it.
SkuKept(s) ==
  "cancelled" \notin mishap[s] =>
    /\ \A l, m \in RowsOf(s) : l = m
    /\ \A l \in RowsOf(s) : orderRow[l].cancelled => orderRow[l].state = "released" /\ owed[s] = 0
    /\ "added" \notin mishap[s] =>
         /\ RowsOf(s) = {} => Covers(s, 0, 0)
         /\ \A l \in RowsOf(s) : Covers(s, HeldBy(l), TakenBy(l))
    /\ mishap[s] = {} => \A l \in RowsOf(s) : owed[s] \in {0, orderRow[l].pending}

EditInv == EditShape /\ \A s \in Sku : SkuKept(s)

LEMMA RowIsNotNone == \A r \in OrderRow : r # NoOrderRow
<1> SUFFICES ASSUME NEW r \in OrderRow, r = NoOrderRow PROVE FALSE
  OBVIOUS
<1>1. "pending" \in DOMAIN r
  BY DEF OrderRow
<1>2. "pending" \notin DOMAIN NoOrderRow
  BY DEF NoOrderRow
<1> QED
  BY <1>1, <1>2

LEMMA RowFields ==
  ASSUME NEW r \in OrderRow
  PROVE  /\ r.sku \in Sku /\ r.confirmed \in Nat /\ r.pending \in Nat /\ r.inward \in Nat
         /\ r.state \in {"reserved", "consumed", "released"} /\ r.cancelled \in BOOLEAN
  BY DEF OrderRow

LEMMA FilledRow ==
  ASSUME EditShape, NEW l \in Filled
  PROVE  /\ l \in Lines /\ orderRow[l] \in OrderRow /\ orderRow[l].sku \in Sku
         /\ l \in RowsOf(orderRow[l].sku)
  BY DEF EditShape, Filled, RowsOf, OrderRow

LEMMA ShapeFacts ==
  ASSUME EditShape
  PROVE  /\ shelf \in [Sku -> Counters] /\ owed \in [Sku -> Nat] /\ rivals \in [Sku -> Nat]
         /\ mishap \in [Sku -> SUBSET Mishap] /\ edits \in 0..MaxEdits /\ poRaised \in BOOLEAN
         /\ orderRow = [l \in Lines |-> orderRow[l]]
         /\ OnShelf \in [Sku -> Nat] /\ MaxEdits \in Nat /\ MaxUnits \in Nat
         /\ \A s \in Sku : shelf[s].avail \in Int /\ shelf[s].booked \in Int /\ shelf[s].total \in Int
  BY EditAssumption DEF EditShape, EditTypeOK, Counters

LEMMA ShapeAfter ==
  ASSUME shelf' \in [Sku -> Counters], owed' \in [Sku -> Nat], rivals' \in [Sku -> Nat],
         mishap' \in [Sku -> SUBSET Mishap], edits' \in 0..MaxEdits, poRaised' \in BOOLEAN,
         orderRow' = [l \in Lines |-> orderRow'[l]],
         \A l \in Lines : orderRow'[l] = NoOrderRow \/ orderRow'[l] \in OrderRow,
         \A l \in Lines : orderRow'[l] \in OrderRow /\ orderRow'[l].state = "released" => orderRow'[l].cancelled
  PROVE  EditShape'
<1>1. \A l \in Filled' : orderRow'[l] \in OrderRow /\ l \in Lines
  BY DEF Filled
<1>2. EditTypeOK'
  BY <1>1 DEF EditTypeOK, OrderRow
<1> QED
  BY <1>1, <1>2 DEF EditShape

-----------------------------------------------------------------------------
(* Counters.                                                               *)

LEMMA CountersAfter ==
  ASSUME NEW p \in Counters, NEW n \in Nat
  PROVE  /\ Reserve(p, n) \in Counters /\ Release(p, n) \in Counters /\ Consume(p, n) \in Counters
         /\ IssueMore(p, n) \in Counters /\ TakeBack(p, n) \in Counters
<1>1. p.avail \in Int /\ p.booked \in Int /\ p.total \in Int
  BY DEF Counters
<1>2. BookedPart(p, n) \in Int
  BY <1>1 DEF BookedPart, LesserOf, GreaterOf
<1> QED
  BY <1>1, <1>2 DEF Counters, Reserve, Release, Consume, IssueMore, TakeBack

LEMMA CountersMove ==
  ASSUME NEW p \in Counters, NEW n \in Nat
  PROVE  /\ Reserve(p, n).avail = p.avail - n /\ Reserve(p, n).booked = p.booked + n
         /\ IssueMore(p, n).avail = p.avail - n /\ IssueMore(p, n).booked = p.booked
         /\ TakeBack(p, n).avail = p.avail + n /\ TakeBack(p, n).booked = p.booked
         /\ Release(p, n).avail = p.avail + n /\ Consume(p, n).avail = p.avail
         /\ p.booked >= n => Release(p, n).booked = p.booked - n /\ Consume(p, n).booked = p.booked - n
<1>1. p.avail \in Int /\ p.booked \in Int /\ p.total \in Int
  BY DEF Counters
<1>2. p.booked >= n => BookedPart(p, n) = n
  BY <1>1 DEF BookedPart, LesserOf, GreaterOf
<1> QED
  BY <1>1, <1>2 DEF Reserve, Release, Consume, IssueMore, TakeBack

LEMMA UnitsAreNat ==
  ASSUME EditShape, NEW L \in SUBSET Filled
  PROVE  UnitsIn(L) \in Nat
<1> DEFINE U == {{l} \X (1..orderRow[l].confirmed) : l \in L}
           g == [l \in L |-> {l} \X (1..orderRow[l].confirmed)]
<1>1. IsFiniteSet(L)
  BY EditAssumption, FS_Subset DEF Filled
<1>2. g \in Surjection(L, U)
  BY DEF Surjection
<1>3. IsFiniteSet(U)
  BY <1>1, <1>2, FS_Surjection
<1>4. ASSUME NEW T \in U PROVE IsFiniteSet(T)
  <2>1. PICK l \in L : T = {l} \X (1..orderRow[l].confirmed)
    OBVIOUS
  <2>2. orderRow[l].confirmed \in Int
    BY FilledRow, RowFields
  <2>3. IsFiniteSet({l}) /\ IsFiniteSet(1..orderRow[l].confirmed)
    BY <2>2, FS_Singleton, FS_Interval, 1 \in Int, Zenon
  <2> QED
    BY <2>1, <2>3, FS_Product
<1>5. IsFiniteSet(UNION U)
  BY <1>3, <1>4, FS_UNION
<1> QED
  BY <1>5, FS_CardinalityType DEF UnitsIn

LEMMA UnitsOfNone == UnitsIn({}) = 0
<1>1. UNION {{l} \X (1..orderRow[l].confirmed) : l \in {}} = {}
  OBVIOUS
<1> QED
  BY <1>1, FS_EmptySet DEF UnitsIn

LEMMA UnitsOfOne ==
  ASSUME EditShape, NEW l \in Filled
  PROVE  UnitsIn({l}) = orderRow[l].confirmed
<1> DEFINE n == orderRow[l].confirmed
<1>1. 1 \in Int /\ n \in Int /\ n >= 0
  BY FilledRow, RowFields
<1>2. UNION {{x} \X (1..orderRow[x].confirmed) : x \in {l}} = {l} \X (1..n)
  OBVIOUS
<1> HIDE DEF n
<1>3. IsFiniteSet({l}) /\ Cardinality({l}) = 1
  BY FS_Singleton
<1>4. IsFiniteSet(1..n) /\ Cardinality(1..n) = IF 1 > n THEN 0 ELSE n - 1 + 1
  BY <1>1, FS_Interval, Zenon
<1>5. Cardinality({l} \X (1..n)) = Cardinality({l}) * Cardinality(1..n)
  BY <1>3, <1>4, FS_Product
<1>6. Cardinality(1..n) = n
  BY <1>1, <1>4
<1>7. Cardinality({l} \X (1..n)) = n
  BY <1>1, <1>3, <1>5, <1>6
<1>8. UnitsIn({l}) = n
  BY <1>2, <1>7 DEF UnitsIn
<1> QED
  BY <1>8 DEF n

-----------------------------------------------------------------------------
(* What becomes of the rows of a SKU.                                      *)

LEMMA RowIn ==
  \A s \in Sku : \A l : l \in RowsOf(s) <=> l \in Lines /\ orderRow[l] # NoOrderRow /\ orderRow[l].sku = s
  BY DEF RowsOf, Filled

NotOf(r, s) == r # NoOrderRow => r.sku # s
RowOrNone(r) == r = NoOrderRow \/ (r \in OrderRow /\ (r.state = "released" => r.cancelled))

\* One line changes: the SKUs it was not and is not of keep their rows.
LEMMA RowsElsewhere ==
  ASSUME EditShape, NEW l \in Lines, NEW r, orderRow' = [orderRow EXCEPT ![l] = r],
         NEW s \in Sku, l \notin RowsOf(s), NotOf(r, s)
  PROVE  RowsOf(s)' = RowsOf(s) /\ \A x \in RowsOf(s) : orderRow'[x] = orderRow[x]
<1>1. orderRow'[l] = r /\ \A x \in Lines \ {l} : orderRow'[x] = orderRow[x]
  BY DEF EditShape
<1>2. \A x : x \in RowsOf(s)' <=> x \in RowsOf(s)
  BY <1>1 DEF RowsOf, Filled, NotOf
<1> QED
  BY <1>1, <1>2 DEF RowsOf, Filled

LEMMA RowsGone ==
  ASSUME EditShape, NEW l \in Lines, NEW r, orderRow' = [orderRow EXCEPT ![l] = r],
         NEW s \in Sku, NotOf(r, s), RowsOf(s) \subseteq {l}
  PROVE  RowsOf(s)' = {}
<1>1. orderRow'[l] = r /\ \A x \in Lines \ {l} : orderRow'[x] = orderRow[x]
  BY DEF EditShape
<1> QED
  BY <1>1 DEF RowsOf, Filled, NotOf

LEMMA RowsAlone ==
  ASSUME EditShape, NEW l \in Lines, NEW r \in OrderRow, orderRow' = [orderRow EXCEPT ![l] = r],
         NEW s \in Sku, r.sku = s, RowsOf(s) \subseteq {l}
  PROVE  RowsOf(s)' = {l} /\ orderRow'[l] = r
<1>1. orderRow'[l] = r /\ \A x \in Lines \ {l} : orderRow'[x] = orderRow[x]
  BY DEF EditShape
<1>2. r # NoOrderRow
  BY RowIsNotNone
<1> QED
  BY <1>1, <1>2 DEF RowsOf, Filled

\* One line changes: every line is still a row or free.
LEMMA LinesAfter ==
  ASSUME EditShape, NEW l \in Lines, NEW r, orderRow' = [orderRow EXCEPT ![l] = r],
         RowOrNone(r)
  PROVE  /\ orderRow' = [x \in Lines |-> orderRow'[x]]
         /\ \A x \in Lines : orderRow'[x] = NoOrderRow \/ orderRow'[x] \in OrderRow
         /\ \A x \in Lines : orderRow'[x] \in OrderRow /\ orderRow'[x].state = "released" => orderRow'[x].cancelled
<1>1. orderRow'[l] = r /\ \A x \in Lines \ {l} : orderRow'[x] = orderRow[x]
  BY DEF EditShape
<1>2. orderRow' = [x \in Lines |-> orderRow'[x]]
  BY DEF EditShape
<1>3. \A x \in Lines : orderRow[x] = NoOrderRow \/ (orderRow[x] \in OrderRow /\ (orderRow[x].state = "released" => orderRow[x].cancelled))
  BY DEF EditShape, Filled
<1>4. \A x \in Lines : orderRow'[x] = NoOrderRow \/ (orderRow'[x] \in OrderRow /\ (orderRow'[x].state = "released" => orderRow'[x].cancelled))
  <2> SUFFICES ASSUME NEW x \in Lines
               PROVE  orderRow'[x] = NoOrderRow \/ (orderRow'[x] \in OrderRow /\ (orderRow'[x].state = "released" => orderRow'[x].cancelled))
    OBVIOUS
  <2>1. CASE x = l
    BY <1>1, <2>1 DEF RowOrNone
  <2>2. CASE x # l
    BY <1>1, <1>3, <2>2
  <2> QED
    BY <2>1, <2>2
<1> QED
  BY <1>2, <1>4, RowIsNotNone

-----------------------------------------------------------------------------
(* How the books of a SKU are kept.                                        *)

\* A step that has nothing to do with it.
LEMMA SkuStands ==
  ASSUME NEW s \in Sku, SkuKept(s), shelf'[s] = shelf[s], rivals'[s] = rivals[s], owed'[s] = owed[s],
         mishap[s] \subseteq mishap'[s],
         RowsOf(s)' = RowsOf(s), \A x \in RowsOf(s) : orderRow'[x] = orderRow[x]
  PROVE  SkuKept(s)'
<1>1. CASE "cancelled" \in mishap[s]
  BY <1>1 DEF SkuKept
<1>2. CASE "cancelled" \notin mishap[s]
  <2>1. \A l, m \in RowsOf(s)' : l = m
    BY <1>2 DEF SkuKept
  <2>2. \A l \in RowsOf(s)' : orderRow'[l].cancelled => orderRow'[l].state = "released" /\ owed'[s] = 0
    BY <1>2 DEF SkuKept
  <2>3. ASSUME "added" \notin mishap'[s]
        PROVE  /\ RowsOf(s)' = {} => Covers(s, 0, 0)'
               /\ \A l \in RowsOf(s)' : Covers(s, HeldBy(l), TakenBy(l))'
    BY <1>2, <2>3 DEF SkuKept, Covers, HeldBy, TakenBy
  <2>4. mishap'[s] = {} => \A l \in RowsOf(s)' : owed'[s] \in {0, orderRow'[l].pending}
    BY <1>2 DEF SkuKept
  <2> QED
    BY <2>1, <2>2, <2>3, <2>4 DEF SkuKept
<1> QED
  BY <1>1, <1>2

\* Afterwards it has no row.
LEMMA SkuEmpty ==
  ASSUME NEW s \in Sku, RowsOf(s)' = {},
         "cancelled" \notin mishap'[s] /\ "added" \notin mishap'[s] =>
           shelf'[s].booked = rivals'[s] /\ shelf'[s].avail = OnShelf[s] - rivals'[s],
         rivals'[s] \in Nat, OnShelf[s] \in Nat
  PROVE  SkuKept(s)'
<1>1. ASSUME "cancelled" \notin mishap'[s], "added" \notin mishap'[s] PROVE Covers(s, 0, 0)'
  BY <1>1 DEF Covers
<1> QED
  BY <1>1 DEF SkuKept

\* Afterwards it has one.
LEMMA SkuAlone ==
  ASSUME NEW s \in Sku, NEW l, RowsOf(s)' = {l},
         "cancelled" \notin mishap'[s] =>
           /\ orderRow'[l].cancelled => orderRow'[l].state = "released" /\ owed'[s] = 0
           /\ "added" \notin mishap'[s] =>
                /\ shelf'[s].booked = rivals'[s] + HeldBy(l)'
                /\ shelf'[s].avail = OnShelf[s] - rivals'[s] - TakenBy(l)'
           /\ mishap'[s] = {} => owed'[s] \in {0, orderRow'[l].pending}
  PROVE  SkuKept(s)'
<1>1. ASSUME "cancelled" \notin mishap'[s], "added" \notin mishap'[s] PROVE Covers(s, HeldBy(l), TakenBy(l))'
  BY <1>1 DEF Covers
<1>2. \A x \in RowsOf(s)' : x = l
  OBVIOUS
<1> QED
  BY <1>1, <1>2 DEF SkuKept

LEMMA SkuAmiss ==
  ASSUME NEW s \in Sku, "cancelled" \in mishap'[s]
  PROVE  SkuKept(s)'
  BY DEF SkuKept

\* What is known of a SKU with a row, and of one with none.
LEMMA OfTheRow ==
  ASSUME EditInv, NEW l \in Filled, NEW s, orderRow[l].sku = s, "cancelled" \notin mishap[s]
  PROVE  /\ RowsOf(s) = {l}
         /\ orderRow[l].cancelled <=> orderRow[l].state = "released"
         /\ orderRow[l].cancelled => owed[s] = 0
         /\ "added" \notin mishap[s] =>
              /\ shelf[s].booked = rivals[s] + HeldBy(l)
              /\ shelf[s].avail = OnShelf[s] - rivals[s] - TakenBy(l)
         /\ mishap[s] = {} => owed[s] \in {0, orderRow[l].pending}
<1>1. s \in Sku /\ l \in RowsOf(s) /\ orderRow[l].cancelled \in BOOLEAN
  BY FilledRow, RowFields DEF EditInv
<1>2. SkuKept(s)
  BY <1>1 DEF EditInv
<1>3. orderRow[l].state = "released" => orderRow[l].cancelled
  BY DEF EditInv, EditShape
<1>4. RowsOf(s) = {l}
  BY <1>1, <1>2 DEF SkuKept
<1>5. "added" \notin mishap[s] => Covers(s, HeldBy(l), TakenBy(l))
  BY <1>1, <1>2 DEF SkuKept
<1> QED
  BY <1>1, <1>2, <1>3, <1>4, <1>5 DEF SkuKept, Covers

LEMMA OfNoRow ==
  ASSUME EditInv, NEW s \in Sku, RowsOf(s) = {}, "cancelled" \notin mishap[s], "added" \notin mishap[s]
  PROVE  shelf[s].booked = rivals[s] /\ shelf[s].avail = OnShelf[s] - rivals[s]
<1>1. Covers(s, 0, 0)
  BY DEF EditInv, SkuKept
<1> QED
  BY <1>1, ShapeFacts DEF EditInv, Covers

-----------------------------------------------------------------------------
(* The steps that leave the rows alone.                                    *)

\* No accident of the kinds that set the counters apart has befallen s.
Clean(s) == "cancelled" \notin mishap[s] /\ "added" \notin mishap[s]

LEMMA SameRows ==
  ASSUME EditShape, orderRow' = orderRow, shelf' \in [Sku -> Counters], owed' \in [Sku -> Nat],
         rivals' \in [Sku -> Nat], UNCHANGED <<poRaised, edits, mishap>>
  PROVE  EditShape' /\ Filled' = Filled /\ \A s : RowsOf(s)' = RowsOf(s)
<1>1. /\ mishap' \in [Sku -> SUBSET Mishap] /\ edits' \in 0..MaxEdits /\ poRaised' \in BOOLEAN
      /\ orderRow' = [l \in Lines |-> orderRow'[l]]
  BY ShapeFacts
<1>2. /\ \A l \in Lines : orderRow'[l] = NoOrderRow \/ orderRow'[l] \in OrderRow
      /\ \A l \in Lines : orderRow'[l] \in OrderRow /\ orderRow'[l].state = "released" => orderRow'[l].cancelled
  BY RowIsNotNone DEF EditShape, Filled
<1>3. EditShape'
  BY <1>1, <1>2, ShapeAfter
<1> QED
  BY <1>3 DEF Filled, RowsOf

\* What a step does to the one SKU it is about, when no row changes.
LEMMA SameRowsKept ==
  ASSUME EditInv, EditShape', NEW s \in Sku, orderRow' = orderRow,
         Clean(s) => /\ shelf'[s].booked - rivals'[s] = shelf[s].booked - rivals[s]
                     /\ shelf'[s].avail + rivals'[s] = shelf[s].avail + rivals[s],
         owed'[s] \in {0, owed[s]}, mishap' = mishap
  PROVE  SkuKept(s)'
<1>1. RowsOf(s)' = RowsOf(s)
  BY DEF RowsOf, Filled
<1>2. /\ shelf[s].booked \in Int /\ shelf[s].avail \in Int /\ rivals[s] \in Nat /\ OnShelf[s] \in Nat
      /\ shelf'[s].booked \in Int /\ shelf'[s].avail \in Int /\ rivals'[s] \in Nat
  BY ShapeFacts, EditAssumption DEF EditInv, EditShape, EditTypeOK, Counters
<1>3. CASE "cancelled" \in mishap[s]
  BY <1>3, SkuAmiss
<1>4. CASE "cancelled" \notin mishap[s] /\ RowsOf(s) = {}
  <2>1. RowsOf(s)' = {}
    BY <1>1, <1>4
  <2>2. Clean(s) => shelf'[s].booked = rivals'[s] /\ shelf'[s].avail = OnShelf[s] - rivals'[s]
    <3> SUFFICES ASSUME Clean(s) PROVE shelf'[s].booked = rivals'[s] /\ shelf'[s].avail = OnShelf[s] - rivals'[s]
      OBVIOUS
    <3>1. shelf[s].booked = rivals[s] /\ shelf[s].avail = OnShelf[s] - rivals[s]
      BY <1>4, OfNoRow DEF Clean
    <3> QED
      BY <1>2, <3>1
  <2> QED
    BY <1>2, <2>1, <2>2, SkuEmpty DEF Clean
<1>5. CASE "cancelled" \notin mishap[s] /\ RowsOf(s) # {}
  <2>1. PICK l \in Filled : orderRow[l].sku = s
    BY <1>5 DEF RowsOf
  <2>2. /\ RowsOf(s) = {l}
        /\ orderRow[l].cancelled <=> orderRow[l].state = "released"
        /\ orderRow[l].cancelled => owed[s] = 0
        /\ "added" \notin mishap[s] =>
              /\ shelf[s].booked = rivals[s] + HeldBy(l)
              /\ shelf[s].avail = OnShelf[s] - rivals[s] - TakenBy(l)
        /\ mishap[s] = {} => owed[s] \in {0, orderRow[l].pending}
    BY <1>5, <2>1, OfTheRow
  <2>3. HeldBy(l)' = HeldBy(l) /\ TakenBy(l)' = TakenBy(l)
    BY DEF HeldBy, TakenBy
  <2>4. HeldBy(l) \in Int /\ TakenBy(l) \in Int
    BY <2>1, FilledRow, RowFields DEF EditInv, HeldBy, TakenBy
  <2>5. ASSUME Clean(s)
        PROVE  /\ shelf'[s].booked = rivals'[s] + HeldBy(l)'
               /\ shelf'[s].avail = OnShelf[s] - rivals'[s] - TakenBy(l)'
    <3>1. /\ shelf[s].booked = rivals[s] + HeldBy(l)
          /\ shelf[s].avail = OnShelf[s] - rivals[s] - TakenBy(l)
      BY <2>2, <2>5 DEF Clean
    <3> HIDE DEF Clean
    <3> QED
      BY <1>2, <2>3, <2>4, <2>5, <3>1
  <2>6. orderRow'[l].cancelled => orderRow'[l].state = "released" /\ owed'[s] = 0
    BY <2>2
  <2>7. mishap'[s] = {} => owed'[s] \in {0, orderRow'[l].pending}
    BY <2>2
  <2>8. Clean(s) <=> "cancelled" \notin mishap'[s] /\ "added" \notin mishap'[s]
    BY DEF Clean
  <2> QED
    BY <1>1, <2>2, <2>5, <2>6, <2>7, <2>8, SkuAlone
<1> QED
  BY <1>3, <1>4, <1>5

LEMMA CoversRivals ==
  ASSUME EditInv, NEW s \in Sku, Clean(s)
  PROVE  shelf[s].booked >= rivals[s]
<1>1. shelf[s].booked \in Int /\ rivals[s] \in Nat
  BY ShapeFacts DEF EditInv
<1>2. CASE RowsOf(s) = {}
  BY <1>1, <1>2, OfNoRow DEF Clean
<1>3. CASE RowsOf(s) # {}
  <2>1. PICK l \in Filled : orderRow[l].sku = s
    BY <1>3 DEF RowsOf
  <2>2. shelf[s].booked = rivals[s] + HeldBy(l)
    BY <2>1, OfTheRow DEF Clean
  <2>3. HeldBy(l) \in Nat
    BY <2>1, FilledRow, RowFields DEF EditInv, HeldBy
  <2> QED
    BY <1>1, <2>2, <2>3
<1> QED
  BY <1>2, <1>3

LEMMA SameRowsStep ==
  ASSUME EditInv, NEW s \in Sku, orderRow' = orderRow, shelf' \in [Sku -> Counters],
         owed' \in [Sku -> Nat], rivals' \in [Sku -> Nat], UNCHANGED <<poRaised, edits, mishap>>,
         \A x \in Sku \ {s} : shelf'[x] = shelf[x] /\ owed'[x] = owed[x] /\ rivals'[x] = rivals[x],
         Clean(s) => /\ shelf'[s].booked - rivals'[s] = shelf[s].booked - rivals[s]
                     /\ shelf'[s].avail + rivals'[s] = shelf[s].avail + rivals[s],
         owed'[s] \in {0, owed[s]}
  PROVE  EditInv'
<1>1. EditShape' /\ \A x : RowsOf(x)' = RowsOf(x)
  BY SameRows DEF EditInv
<1>2. SkuKept(s)'
  BY <1>1, SameRowsKept
<1>3. ASSUME NEW x \in Sku, x # s PROVE SkuKept(x)'
  BY <1>1, <1>3, SkuStands DEF EditInv
<1> QED
  BY <1>1, <1>2, <1>3 DEF EditInv

LEMMA DeskClosesIndentKeeps == ASSUME EditInv, NEW s \in Sku, DeskClosesIndent(s) PROVE EditInv'
<1>1. /\ owed' = [owed EXCEPT ![s] = 0] /\ shelf' = shelf /\ rivals' = rivals
      /\ UNCHANGED <<orderRow, poRaised, edits, mishap>>
  BY DEF DeskClosesIndent
<1>2. shelf' \in [Sku -> Counters] /\ owed' \in [Sku -> Nat] /\ rivals' \in [Sku -> Nat]
  BY <1>1, ShapeFacts DEF EditInv
<1>3. owed'[s] = 0 /\ \A x \in Sku \ {s} : owed'[x] = owed[x]
  BY <1>1, ShapeFacts DEF EditInv
<1> QED
  BY <1>1, <1>2, <1>3, SameRowsStep

LEMMA RivalTakesKeeps == ASSUME EditInv, NEW s \in Sku, RivalTakes(s) PROVE EditInv'
<1>1. /\ shelf' = [shelf EXCEPT ![s] = Reserve(shelf[s], 1)] /\ rivals' = [rivals EXCEPT ![s] = rivals[s] + 1]
      /\ UNCHANGED <<orderRow, owed, poRaised, edits, mishap>>
  BY DEF RivalTakes
<1>2. shelf[s] \in Counters /\ rivals[s] \in Nat /\ shelf[s].avail \in Int /\ shelf[s].booked \in Int
  BY ShapeFacts DEF EditInv
<1>3. /\ Reserve(shelf[s], 1) \in Counters
      /\ Reserve(shelf[s], 1).avail = shelf[s].avail - 1 /\ Reserve(shelf[s], 1).booked = shelf[s].booked + 1
  BY <1>2, CountersAfter, CountersMove
<1>4. shelf' \in [Sku -> Counters] /\ owed' \in [Sku -> Nat] /\ rivals' \in [Sku -> Nat]
  BY <1>1, <1>2, <1>3, ShapeFacts DEF EditInv
<1>5. /\ shelf'[s] = Reserve(shelf[s], 1) /\ rivals'[s] = rivals[s] + 1
      /\ \A x \in Sku \ {s} : shelf'[x] = shelf[x] /\ rivals'[x] = rivals[x]
  BY <1>1, ShapeFacts DEF EditInv
<1>6. /\ shelf'[s].booked - rivals'[s] = shelf[s].booked - rivals[s]
      /\ shelf'[s].avail + rivals'[s] = shelf[s].avail + rivals[s]
  BY <1>2, <1>3, <1>5
<1> QED
  BY <1>1, <1>4, <1>5, <1>6, SameRowsStep

\* The others' units are on the booked counter, so it gives back what they held.
LEMMA RivalGivesBackKeeps == ASSUME EditInv, NEW s \in Sku, RivalGivesBack(s) PROVE EditInv'
<1>1. /\ shelf' = [shelf EXCEPT ![s] = Release(shelf[s], 1)] /\ rivals' = [rivals EXCEPT ![s] = rivals[s] - 1]
      /\ rivals[s] > 0 /\ UNCHANGED <<orderRow, owed, poRaised, edits, mishap>>
  BY DEF RivalGivesBack
<1>2. shelf[s] \in Counters /\ rivals[s] \in Nat /\ shelf[s].avail \in Int /\ shelf[s].booked \in Int
  BY ShapeFacts DEF EditInv
<1>3. /\ Release(shelf[s], 1) \in Counters
      /\ Release(shelf[s], 1).avail = shelf[s].avail + 1
      /\ shelf[s].booked >= 1 => Release(shelf[s], 1).booked = shelf[s].booked - 1
  BY <1>2, CountersAfter, CountersMove
<1>4. shelf' \in [Sku -> Counters] /\ owed' \in [Sku -> Nat] /\ rivals' \in [Sku -> Nat]
  BY <1>1, <1>2, <1>3, ShapeFacts DEF EditInv
<1>5. /\ shelf'[s] = Release(shelf[s], 1) /\ rivals'[s] = rivals[s] - 1
      /\ \A x \in Sku \ {s} : shelf'[x] = shelf[x] /\ rivals'[x] = rivals[x]
  BY <1>1, ShapeFacts DEF EditInv
<1>6. Clean(s) => shelf[s].booked >= 1
  BY <1>1, <1>2, CoversRivals
<1>7. Clean(s) => /\ shelf'[s].booked - rivals'[s] = shelf[s].booked - rivals[s]
                  /\ shelf'[s].avail + rivals'[s] = shelf[s].avail + rivals[s]
  BY <1>2, <1>3, <1>5, <1>6
<1> QED
  BY <1>1, <1>4, <1>5, <1>7, SameRowsStep

-----------------------------------------------------------------------------
(* The steps that settle the whole booking.                                *)

\* Every row stays a row of its SKU.
LEMMA SettledRows ==
  ASSUME EditShape, NEW S \in SUBSET Filled,
         \A l \in Lines : l \notin S => orderRow'[l] = orderRow[l],
         \A l \in S : \/ orderRow'[l] = [orderRow[l] EXCEPT !.state = "consumed"]
                      \/ orderRow'[l] = [orderRow[l] EXCEPT !.state = "released", !.cancelled = TRUE]
  PROVE  /\ \A l \in Lines : orderRow'[l] = NoOrderRow \/ orderRow'[l] \in OrderRow
         /\ \A l \in Lines : orderRow'[l] \in OrderRow /\ orderRow'[l].state = "released" => orderRow'[l].cancelled
         /\ \A s : RowsOf(s)' = RowsOf(s)
<1>1. ASSUME NEW l \in S
      PROVE  /\ orderRow'[l] \in OrderRow /\ orderRow'[l].sku = orderRow[l].sku
             /\ orderRow'[l].state = "released" => orderRow'[l].cancelled
  <2>1. orderRow[l] \in OrderRow
    BY FilledRow
  <2>2. CASE orderRow'[l] = [orderRow[l] EXCEPT !.state = "consumed"]
    BY <2>1, <2>2 DEF OrderRow
  <2>3. CASE orderRow'[l] = [orderRow[l] EXCEPT !.state = "released", !.cancelled = TRUE]
    BY <2>1, <2>3 DEF OrderRow
  <2> QED
    BY <2>2, <2>3
<1>2. \A l \in Lines : \/ orderRow[l] = NoOrderRow
                       \/ orderRow[l] \in OrderRow /\ (orderRow[l].state = "released" => orderRow[l].cancelled)
  BY DEF EditShape, Filled
<1>3. \A l \in Lines : \/ orderRow'[l] = NoOrderRow
                       \/ orderRow'[l] \in OrderRow /\ (orderRow'[l].state = "released" => orderRow'[l].cancelled)
  BY <1>1, <1>2
<1>4. Filled' = Filled
  BY <1>1, RowIsNotNone DEF Filled
<1>5. \A l \in Filled : orderRow'[l].sku = orderRow[l].sku
  BY <1>1 DEF Filled
<1>6. \A s : RowsOf(s)' = RowsOf(s)
  BY <1>4, <1>5 DEF RowsOf
<1> QED
  BY <1>3, <1>6, RowIsNotNone

LEMMA ConsumeHeldKeeps ==
  ASSUME EditInv, ConsumeHeld, UNCHANGED <<owed, rivals, edits, mishap>>, poRaised' \in BOOLEAN
  PROVE  EditInv'
<1> DEFINE S == {l \in Live : orderRow[l].state = "reserved"}
<1>1. EditShape
  BY DEF EditInv
<1>2. /\ \A s \in Sku : shelf'[s] = Consume(shelf[s], UnitsIn(HeldOf(s) \cap Live))
      /\ shelf' = [s \in Sku |-> shelf'[s]] /\ orderRow' = [l \in Lines |-> orderRow'[l]]
  BY DEF ConsumeHeld
<1>3. /\ S \in SUBSET Filled
      /\ \A l \in Lines : l \notin S => orderRow'[l] = orderRow[l]
      /\ \A l \in S : orderRow'[l] = [orderRow[l] EXCEPT !.state = "consumed"]
  BY DEF ConsumeHeld, Live, Filled
<1> HIDE DEF S
<1>4. /\ \A l \in Lines : orderRow'[l] = NoOrderRow \/ orderRow'[l] \in OrderRow
      /\ \A l \in Lines : orderRow'[l] \in OrderRow /\ orderRow'[l].state = "released" => orderRow'[l].cancelled
      /\ \A s : RowsOf(s)' = RowsOf(s)
  BY <1>1, <1>3, SettledRows
<1>9. \A l \in S : /\ orderRow'[l].state = "consumed" /\ orderRow'[l].confirmed = orderRow[l].confirmed
                   /\ orderRow'[l].pending = orderRow[l].pending
                   /\ orderRow'[l].cancelled = orderRow[l].cancelled
  <2> SUFFICES ASSUME NEW l \in S
               PROVE  /\ orderRow'[l].state = "consumed" /\ orderRow'[l].confirmed = orderRow[l].confirmed
                      /\ orderRow'[l].pending = orderRow[l].pending
                      /\ orderRow'[l].cancelled = orderRow[l].cancelled
    OBVIOUS
  <2>1. orderRow[l] \in OrderRow /\ orderRow'[l] = [orderRow[l] EXCEPT !.state = "consumed"]
    BY <1>1, <1>3, FilledRow
  <2>2. PICK r : r = orderRow[l]
    OBVIOUS
  <2>3. r \in OrderRow /\ orderRow'[l] = [r EXCEPT !.state = "consumed"]
    BY <2>1, <2>2
  <2>4. /\ orderRow'[l].state = "consumed" /\ orderRow'[l].confirmed = r.confirmed
        /\ orderRow'[l].pending = r.pending /\ orderRow'[l].cancelled = r.cancelled
    BY <2>3 DEF OrderRow
  <2> QED
    BY <2>2, <2>4
<1>5. ASSUME NEW s \in Sku
      PROVE  UnitsIn(HeldOf(s) \cap Live) \in Nat /\ shelf[s] \in Counters /\ shelf'[s] \in Counters
  <2>1. UnitsIn(HeldOf(s) \cap Live) \in Nat
    BY <1>1, UnitsAreNat DEF HeldOf, RowsOf
  <2>2. shelf[s] \in Counters
    BY <1>1, ShapeFacts
  <2> QED
    BY <1>2, <2>1, <2>2, CountersAfter
<1>6. shelf' \in [Sku -> Counters]
  BY <1>2, <1>5
<1>7. EditShape'
  BY <1>1, <1>2, <1>4, <1>6, ShapeFacts, ShapeAfter
<1>8. ASSUME NEW s \in Sku PROVE SkuKept(s)'
  <2>1. shelf[s].booked \in Int /\ shelf[s].avail \in Int /\ rivals[s] \in Nat /\ OnShelf[s] \in Nat
    BY <1>1, ShapeFacts
  <2>2. CASE "cancelled" \in mishap[s]
    BY <2>2, SkuAmiss
  <2>3. CASE "cancelled" \notin mishap[s] /\ RowsOf(s) = {}
    <3>1. HeldOf(s) \cap Live = {}
      BY <2>3 DEF HeldOf
    <3>2. shelf'[s] = Consume(shelf[s], 0)
      BY <1>2, <3>1, UnitsOfNone
    <3>3. Clean(s) => shelf[s].booked = rivals[s] /\ shelf[s].avail = OnShelf[s] - rivals[s]
      BY <2>3, OfNoRow DEF Clean
    <3>4. Clean(s) => shelf'[s].booked = rivals[s] /\ shelf'[s].avail = OnShelf[s] - rivals[s]
      <4>1. Consume(shelf[s], 0).avail = shelf[s].avail
            /\ (shelf[s].booked >= 0 => Consume(shelf[s], 0).booked = shelf[s].booked - 0)
        BY <1>5, CountersMove, 0 \in Nat
      <4> QED
        BY <2>1, <3>2, <3>3, <4>1
    <3> QED
      BY <1>4, <2>1, <2>3, <3>4, SkuEmpty DEF Clean
  <2>4. CASE "cancelled" \notin mishap[s] /\ RowsOf(s) # {}
    <3>1. PICK l \in Filled : orderRow[l].sku = s
      BY <2>4 DEF RowsOf
    <3>2. /\ RowsOf(s) = {l}
          /\ orderRow[l].cancelled <=> orderRow[l].state = "released"
          /\ orderRow[l].cancelled => owed[s] = 0
          /\ Clean(s) =>
                /\ shelf[s].booked = rivals[s] + HeldBy(l)
                /\ shelf[s].avail = OnShelf[s] - rivals[s] - TakenBy(l)
          /\ mishap[s] = {} => owed[s] \in {0, orderRow[l].pending}
      BY <2>4, <3>1, OfTheRow DEF Clean
    <3>3. orderRow[l].confirmed \in Nat /\ l \in Lines /\ orderRow[l].cancelled \in BOOLEAN
      BY <1>1, FilledRow, RowFields
    <3>4. CASE orderRow[l].state = "reserved"
      <4>1. l \in S
        BY <3>2, <3>4 DEF S, Live
      <4>2. HeldOf(s) \cap Live = {l}
        BY <3>2, <3>4 DEF HeldOf, Live
      <4>3. shelf'[s] = Consume(shelf[s], orderRow[l].confirmed)
        BY <1>1, <1>2, <4>2, UnitsOfOne
      <4>4. HeldBy(l) = orderRow[l].confirmed /\ TakenBy(l) = orderRow[l].confirmed
        BY <3>4 DEF HeldBy, TakenBy
      <4>5. HeldBy(l)' = 0 /\ TakenBy(l)' = orderRow[l].confirmed
        BY <1>9, <4>1 DEF HeldBy, TakenBy
      <4>6. /\ Consume(shelf[s], orderRow[l].confirmed).avail = shelf[s].avail
            /\ shelf[s].booked >= orderRow[l].confirmed =>
                 Consume(shelf[s], orderRow[l].confirmed).booked = shelf[s].booked - orderRow[l].confirmed
        BY <1>5, <3>3, CountersMove
      <4>7. Clean(s) => /\ shelf'[s].booked = rivals[s] + HeldBy(l)'
                        /\ shelf'[s].avail = OnShelf[s] - rivals[s] - TakenBy(l)'
        BY <2>1, <3>2, <3>3, <4>3, <4>4, <4>5, <4>6
      <4>8. orderRow'[l].cancelled = orderRow[l].cancelled /\ orderRow'[l].pending = orderRow[l].pending
        BY <1>9, <3>3, <4>1
      <4> QED
        BY <1>4, <3>2, <3>4, <4>7, <4>8, SkuAlone DEF Clean
    <3>5. CASE orderRow[l].state # "reserved"
      <4>1. orderRow'[l] = orderRow[l]
        BY <1>3, <3>3, <3>5 DEF S
      <4>2. HeldOf(s) \cap Live = {}
        BY <3>2, <3>5 DEF HeldOf
      <4>3. shelf'[s] = Consume(shelf[s], 0)
        BY <1>2, <4>2, UnitsOfNone
      <4>4. HeldBy(l) = 0 /\ HeldBy(l)' = 0 /\ TakenBy(l)' = TakenBy(l)
        BY <3>5, <4>1 DEF HeldBy, TakenBy
      <4>5. Consume(shelf[s], 0).avail = shelf[s].avail
            /\ (shelf[s].booked >= 0 => Consume(shelf[s], 0).booked = shelf[s].booked - 0)
        BY <1>5, CountersMove, 0 \in Nat
      <4>6. Clean(s) => /\ shelf'[s].booked = rivals[s] + HeldBy(l)'
                        /\ shelf'[s].avail = OnShelf[s] - rivals[s] - TakenBy(l)'
        BY <2>1, <3>2, <4>3, <4>4, <4>5
      <4> QED
        BY <1>4, <3>2, <4>1, <4>6, SkuAlone DEF Clean
    <3> QED
      BY <3>4, <3>5
  <2> QED
    BY <2>2, <2>3, <2>4
<1> QED
  BY <1>7, <1>8 DEF EditInv

LEMMA CancelsRowsKeeps == ASSUME EditInv, CancelsRows PROVE EditInv'
<1> DEFINE out(s) == {l \in RowsOf(s) \cap Live : Issued(orderRow[l])}
           kept(s) == HeldOf(s) \cap Live
           back(s) == Release(shelf[s], UnitsIn(kept(s)))
<1>1. EditShape
  BY DEF EditInv
<1>2. /\ \A s \in Sku : shelf'[s] = TakeBack(back(s), UnitsIn(out(s)))
      /\ shelf' = [s \in Sku |-> shelf'[s]] /\ orderRow' = [l \in Lines |-> orderRow'[l]]
      /\ owed' = [s \in Sku |-> 0] /\ UNCHANGED <<poRaised, rivals, edits, mishap>>
  BY DEF CancelsRows
<1>3. /\ Live \in SUBSET Filled
      /\ \A l \in Lines : l \notin Live => orderRow'[l] = orderRow[l]
      /\ \A l \in Live : orderRow'[l] = [orderRow[l] EXCEPT !.state = "released", !.cancelled = TRUE]
  BY DEF CancelsRows, Live, Filled
<1>4. /\ \A l \in Lines : orderRow'[l] = NoOrderRow \/ orderRow'[l] \in OrderRow
      /\ \A l \in Lines : orderRow'[l] \in OrderRow /\ orderRow'[l].state = "released" => orderRow'[l].cancelled
      /\ \A s : RowsOf(s)' = RowsOf(s)
  BY <1>1, <1>3, SettledRows
<1>9. \A l \in Live : orderRow'[l].state = "released"
  <2> SUFFICES ASSUME NEW l \in Live PROVE orderRow'[l].state = "released"
    OBVIOUS
  <2>1. PICK r : r = orderRow[l]
    OBVIOUS
  <2>2. r \in OrderRow /\ orderRow'[l] = [r EXCEPT !.state = "released", !.cancelled = TRUE]
    BY <1>1, <1>3, <2>1, FilledRow
  <2> QED
    BY <2>2 DEF OrderRow
<1>5. ASSUME NEW s \in Sku
      PROVE  /\ UnitsIn(kept(s)) \in Nat /\ UnitsIn(out(s)) \in Nat
             /\ shelf[s] \in Counters /\ back(s) \in Counters /\ shelf'[s] \in Counters
  <2>1. UnitsIn(kept(s)) \in Nat /\ UnitsIn(out(s)) \in Nat
    <3>1. kept(s) \in SUBSET Filled /\ out(s) \in SUBSET Filled
      BY DEF HeldOf, RowsOf
    <3> QED
      BY <1>1, <3>1, UnitsAreNat
  <2>2. shelf[s] \in Counters
    BY <1>1, ShapeFacts
  <2>3. back(s) \in Counters
    BY <2>1, <2>2, CountersAfter
  <2> QED
    BY <1>2, <2>1, <2>2, <2>3, CountersAfter
<1>6. shelf' \in [Sku -> Counters] /\ owed' \in [Sku -> Nat]
  BY <1>2, <1>5
<1>7. EditShape'
  BY <1>1, <1>2, <1>4, <1>6, ShapeFacts, ShapeAfter
<1>8. ASSUME NEW s \in Sku PROVE SkuKept(s)'
  <2>1. shelf[s].booked \in Int /\ shelf[s].avail \in Int /\ rivals[s] \in Nat /\ OnShelf[s] \in Nat
    BY <1>1, ShapeFacts
  <2> DEFINE h == UnitsIn(kept(s))
             o == UnitsIn(out(s))
  <2>2. /\ h \in Nat /\ o \in Nat
        /\ shelf'[s].avail = shelf[s].avail + h + o
        /\ shelf[s].booked >= h => shelf'[s].booked = shelf[s].booked - h
    <3>1. h \in Nat /\ o \in Nat /\ shelf[s] \in Counters /\ back(s) \in Counters
      BY <1>5
    <3>2. /\ back(s).avail = shelf[s].avail + h
          /\ shelf[s].booked >= h => back(s).booked = shelf[s].booked - h
      BY <3>1, CountersMove
    <3>3. TakeBack(back(s), o).avail = back(s).avail + o /\ TakeBack(back(s), o).booked = back(s).booked
      BY <3>1, CountersMove
    <3>4. shelf'[s] = TakeBack(back(s), o)
      BY <1>2
    <3> HIDE DEF h, o, back
    <3> QED
      BY <3>1, <3>2, <3>3, <3>4
  <2>3. CASE "cancelled" \in mishap[s]
    BY <1>2, <2>3, SkuAmiss
  <2>4. CASE "cancelled" \notin mishap[s] /\ RowsOf(s) = {}
    <3>1. kept(s) = {} /\ out(s) = {}
      BY <2>4 DEF HeldOf
    <3>2. h = 0 /\ o = 0
      BY <3>1, UnitsOfNone
    <3>3. Clean(s) => shelf[s].booked = rivals[s] /\ shelf[s].avail = OnShelf[s] - rivals[s]
      BY <2>4, OfNoRow DEF Clean
    <3> HIDE DEF h, o
    <3>4. Clean(s) => shelf'[s].booked = rivals[s] /\ shelf'[s].avail = OnShelf[s] - rivals[s]
      BY <2>1, <2>2, <3>2, <3>3
    <3> QED
      BY <1>2, <1>4, <2>1, <2>4, <3>4, SkuEmpty DEF Clean
  <2>5. CASE "cancelled" \notin mishap[s] /\ RowsOf(s) # {}
    <3>1. PICK l \in Filled : orderRow[l].sku = s
      BY <2>5 DEF RowsOf
    <3>2. /\ RowsOf(s) = {l}
          /\ orderRow[l].cancelled <=> orderRow[l].state = "released"
          /\ Clean(s) =>
                /\ shelf[s].booked = rivals[s] + HeldBy(l)
                /\ shelf[s].avail = OnShelf[s] - rivals[s] - TakenBy(l)
      BY <2>5, <3>1, OfTheRow DEF Clean
    <3>3. orderRow[l].confirmed \in Nat /\ l \in Lines
          /\ orderRow[l].state \in {"reserved", "consumed", "released"}
      BY <1>1, FilledRow, RowFields
    <3>4. HeldBy(l) = h /\ TakenBy(l) = h + o
      <4>1. CASE orderRow[l].state = "reserved"
        <5>1. kept(s) = {l} /\ out(s) = {}
          BY <3>2, <4>1 DEF HeldOf, Live, Issued
        <5>2. h = orderRow[l].confirmed /\ o = 0
          BY <1>1, <5>1, UnitsOfOne, UnitsOfNone
        <5> HIDE DEF h, o
        <5> QED
          BY <3>3, <4>1, <5>2 DEF HeldBy, TakenBy
      <4>2. CASE orderRow[l].state = "consumed"
        <5>1. kept(s) = {} /\ out(s) = {l}
          BY <3>2, <4>2 DEF HeldOf, Live, Issued
        <5>2. o = orderRow[l].confirmed /\ h = 0
          BY <1>1, <5>1, UnitsOfOne, UnitsOfNone
        <5> HIDE DEF h, o
        <5> QED
          BY <3>3, <4>2, <5>2 DEF HeldBy, TakenBy
      <4>3. CASE orderRow[l].state = "released"
        <5>1. kept(s) = {} /\ out(s) = {}
          BY <3>2, <4>3 DEF HeldOf, Live, Issued
        <5>2. o = 0 /\ h = 0
          BY <5>1, UnitsOfNone
        <5> HIDE DEF h, o
        <5> QED
          BY <4>3, <5>2 DEF HeldBy, TakenBy
      <4> QED
        BY <3>3, <4>1, <4>2, <4>3
    <3>5. orderRow'[l].state = "released"
      <4>1. CASE l \in Live
        BY <1>9, <4>1
      <4>2. CASE l \notin Live
        BY <1>3, <3>2, <3>3, <4>2 DEF Live
      <4> QED
        BY <4>1, <4>2
    <3>6. HeldBy(l)' = 0 /\ TakenBy(l)' = 0
      BY <3>5 DEF HeldBy, TakenBy
    <3> HIDE DEF h, o
    <3>7. Clean(s) => /\ shelf'[s].booked = rivals[s] + HeldBy(l)'
                      /\ shelf'[s].avail = OnShelf[s] - rivals[s] - TakenBy(l)'
      BY <2>1, <2>2, <3>2, <3>4, <3>6
    <3>8. owed'[s] = 0
      BY <1>2
    <3> QED
      BY <1>2, <1>4, <3>2, <3>5, <3>7, <3>8, SkuAlone DEF Clean
  <2> QED
    BY <2>3, <2>4, <2>5
<1> QED
  BY <1>7, <1>8 DEF EditInv

-----------------------------------------------------------------------------
(* The steps that change one row.                                          *)

\* A SKU the change of line l to r is not about.
Spared(l, r, x) ==
  /\ l \notin RowsOf(x) /\ NotOf(r, x)
  /\ shelf'[x] = shelf[x] /\ owed'[x] = owed[x] /\ mishap[x] \subseteq mishap'[x]

LEMMA OrderLineStep ==
  ASSUME EditInv, NEW l \in Lines, NEW r, orderRow' = [orderRow EXCEPT ![l] = r],
         RowOrNone(r),
         shelf' \in [Sku -> Counters], owed' \in [Sku -> Nat], mishap' \in [Sku -> SUBSET Mishap],
         edits' \in 0..MaxEdits, UNCHANGED <<poRaised, rivals>>,
         NEW T \in SUBSET Sku,
         \A x \in Sku \ T : Spared(l, r, x),
         \A x \in T : SkuKept(x)'
  PROVE  EditInv'
<1>1. EditShape
  BY DEF EditInv
<1>2. EditShape'
  <2>1. rivals' \in [Sku -> Nat] /\ poRaised' \in BOOLEAN
    BY <1>1, ShapeFacts
  <2>2. /\ orderRow' = [x \in Lines |-> orderRow'[x]]
        /\ \A x \in Lines : orderRow'[x] = NoOrderRow \/ orderRow'[x] \in OrderRow
        /\ \A x \in Lines : orderRow'[x] \in OrderRow /\ orderRow'[x].state = "released" => orderRow'[x].cancelled
    BY <1>1, LinesAfter
  <2> QED
    BY <2>1, <2>2, ShapeAfter
<1>3. ASSUME NEW x \in Sku \ T PROVE SkuKept(x)'
  <2>1. /\ x \in Sku /\ l \notin RowsOf(x) /\ NotOf(r, x)
        /\ shelf'[x] = shelf[x] /\ owed'[x] = owed[x] /\ mishap[x] \subseteq mishap'[x]
    BY <1>3 DEF Spared
  <2>2. RowsOf(x)' = RowsOf(x) /\ \A y \in RowsOf(x) : orderRow'[y] = orderRow[y]
    BY <1>1, <2>1, RowsElsewhere
  <2>3. SkuKept(x) /\ rivals'[x] = rivals[x]
    BY <2>1 DEF EditInv
  <2> QED
    BY <2>1, <2>2, <2>3, SkuStands, Zenon
<1> QED
  BY <1>2, <1>3 DEF EditInv

\* ... of one SKU.
LEMMA LineStepOne ==
  ASSUME EditInv, NEW l \in Lines, NEW r, orderRow' = [orderRow EXCEPT ![l] = r],
         RowOrNone(r),
         shelf' \in [Sku -> Counters], owed' \in [Sku -> Nat], mishap' \in [Sku -> SUBSET Mishap],
         edits' \in 0..MaxEdits, UNCHANGED <<poRaised, rivals>>,
         NEW s \in Sku, SkuKept(s)',
         \A x \in Sku \ {s} : Spared(l, r, x)
  PROVE  EditInv'
<1>1. {s} \in SUBSET Sku
  OBVIOUS
<1>2. ASSUME NEW x \in {s} PROVE SkuKept(x)'
  <2>1. x = s
    OBVIOUS
  <2> QED
    BY <2>1
<1> QED
  BY <1>1, <1>2, OrderLineStep

\* What a row in this state holds, and has off the shelf.
HeldIn(r) == IF r.state = "reserved" THEN r.confirmed ELSE 0
TakenIn(r) == IF r.state = "released" THEN 0 ELSE r.confirmed

\* The row r keeps the books of s.
Suits(r, s) ==
  /\ r.cancelled => r.state = "released" /\ owed'[s] = 0
  /\ "added" \notin mishap'[s] =>
       /\ shelf'[s].booked = rivals'[s] + HeldIn(r)
       /\ shelf'[s].avail = OnShelf[s] - rivals'[s] - TakenIn(r)
  /\ mishap'[s] = {} => owed'[s] \in {0, r.pending}

\* The row l of s becomes r: what has to be seen to.
LEMMA RowBecomes ==
  ASSUME EditInv, NEW l \in Lines, NEW r \in OrderRow, orderRow' = [orderRow EXCEPT ![l] = r],
         NEW s \in Sku, r.sku = s,
         "cancelled" \notin mishap'[s] => RowsOf(s) \subseteq {l} /\ Suits(r, s)
  PROVE  SkuKept(s)'
<1>1. CASE "cancelled" \in mishap'[s]
  BY <1>1, SkuAmiss
<1>2. CASE "cancelled" \notin mishap'[s]
  <2>1. RowsOf(s)' = {l} /\ orderRow'[l] = r
    BY <1>2, RowsAlone DEF EditInv
  <2>2. HeldBy(l)' = HeldIn(r) /\ TakenBy(l)' = TakenIn(r)
    BY <2>1 DEF HeldBy, TakenBy, HeldIn, TakenIn
  <2> QED
    BY <1>2, <2>1, <2>2, SkuAlone DEF Suits
<1> QED
  BY <1>1, <1>2

LEMMA TakeMoves ==
  ASSUME EditInv, NEW s \in Sku, NEW n \in Nat, NEW r
  PROVE  /\ Take(r, s, n) \in Counters /\ Take(r, s, n).avail = shelf[s].avail - n
         /\ Issued(r) => Take(r, s, n).booked = shelf[s].booked
         /\ ~Issued(r) => Take(r, s, n).booked = shelf[s].booked + n
<1>1. shelf[s] \in Counters
  BY ShapeFacts DEF EditInv
<1>2. CASE Issued(r)
  BY <1>1, <1>2, CountersAfter, CountersMove DEF Take
<1>3. CASE ~Issued(r)
  BY <1>1, <1>3, CountersAfter, CountersMove DEF Take
<1> QED
  BY <1>2, <1>3

LEMMA GiveBackMoves ==
  ASSUME EditInv, NEW s \in Sku, NEW n \in Nat, NEW r
  PROVE  /\ GiveBack(r, s, n) \in Counters /\ GiveBack(r, s, n).avail = shelf[s].avail + n
         /\ Issued(r) => GiveBack(r, s, n).booked = shelf[s].booked
         /\ ~Issued(r) /\ shelf[s].booked >= n => GiveBack(r, s, n).booked = shelf[s].booked - n
<1>1. shelf[s] \in Counters
  BY ShapeFacts DEF EditInv
<1>2. CASE Issued(r)
  BY <1>1, <1>2, CountersAfter, CountersMove DEF GiveBack
<1>3. CASE ~Issued(r)
  BY <1>1, <1>3, CountersAfter, CountersMove DEF GiveBack
<1> QED
  BY <1>2, <1>3

LEMMA AmendsFacts ==
  ASSUME EditInv, Amends
  PROVE  edits' \in 0..MaxEdits /\ UNCHANGED <<poRaised, rivals>> /\ Filled # {}
<1>1. edits \in 0..MaxEdits /\ MaxEdits \in Nat
  BY ShapeFacts DEF EditInv
<1> QED
  BY <1>1 DEF Amends

LEMMA BefellFacts ==
  ASSUME EditInv, NEW s \in Sku, NEW what \in SUBSET Mishap, Befell(s, what)
  PROVE  /\ mishap' \in [Sku -> SUBSET Mishap] /\ mishap'[s] = mishap[s] \cup what
         /\ \A x \in Sku \ {s} : mishap'[x] = mishap[x]
<1>1. mishap \in [Sku -> SUBSET Mishap]
  BY ShapeFacts DEF EditInv
<1> QED
  BY <1>1 DEF Befell

\* The numbers of a SKU of the booking, and its row.
LEMMA LineFacts ==
  ASSUME EditInv, NEW l \in Filled
  PROVE  /\ l \in Lines /\ orderRow[l] \in OrderRow
         /\ orderRow[l].sku \in Sku /\ orderRow[l].confirmed \in Nat /\ orderRow[l].pending \in Nat
         /\ orderRow[l].inward \in Nat /\ orderRow[l].state \in {"reserved", "consumed", "released"}
         /\ orderRow[l].cancelled \in BOOLEAN
         /\ orderRow[l].state = "released" => orderRow[l].cancelled
         /\ \A x : l \in RowsOf(x) <=> x = orderRow[l].sku
<1>1. l \in Lines /\ orderRow[l] \in OrderRow
  BY FilledRow DEF EditInv
<1> QED
  BY <1>1, RowFields DEF EditInv, EditShape, RowsOf

LEMMA SkuFacts ==
  ASSUME EditInv, NEW s \in Sku
  PROVE  /\ shelf[s] \in Counters /\ shelf[s].booked \in Int /\ shelf[s].avail \in Int
         /\ rivals[s] \in Nat /\ OnShelf[s] \in Nat /\ owed[s] \in Nat /\ mishap[s] \in SUBSET Mishap
  BY ShapeFacts DEF EditInv

LEMMA OfThisRow ==
  ASSUME EditInv, NEW l \in Filled, NEW s, orderRow[l].sku = s, "cancelled" \notin mishap[s]
  PROVE  /\ RowsOf(s) = {l}
         /\ orderRow[l].cancelled <=> orderRow[l].state = "released"
         /\ orderRow[l].cancelled => owed[s] = 0
         /\ "added" \notin mishap[s] =>
              /\ shelf[s].booked = rivals[s] + HeldIn(orderRow[l])
              /\ shelf[s].avail = OnShelf[s] - rivals[s] - TakenIn(orderRow[l])
         /\ mishap[s] = {} => owed[s] \in {0, orderRow[l].pending}
<1>1. HeldBy(l) = HeldIn(orderRow[l]) /\ TakenBy(l) = TakenIn(orderRow[l])
  BY DEF HeldBy, TakenBy, HeldIn, TakenIn
<1> QED
  BY <1>1, OfTheRow

LEMMA IndentServedKeeps ==
  ASSUME EditInv, NEW l \in Filled, NEW n \in Nat, IndentServed(l, n) PROVE EditInv'
<1>a. PICK o : o = orderRow[l]
  OBVIOUS
<1>b. PICK s : s = o.sku
  OBVIOUS
<1>c. PICK r : r = [o EXCEPT !.confirmed = o.confirmed + n, !.inward = o.inward + n,
                             !.pending = GreaterOf(0, o.pending - n)]
  OBVIOUS
<1>1. /\ ~o.cancelled /\ n \in 1..owed[s]
      /\ shelf' = [shelf EXCEPT ![s] = Take(o, s, n)] /\ owed' = [owed EXCEPT ![s] = owed[s] - n]
      /\ orderRow' = [orderRow EXCEPT ![l] = r]
      /\ UNCHANGED <<poRaised, rivals, edits, mishap>>
  BY <1>a, <1>b, <1>c DEF IndentServed, Live
<1>2. /\ l \in Lines /\ o \in OrderRow /\ s \in Sku /\ o.confirmed \in Nat /\ o.pending \in Nat
      /\ o.state \in {"reserved", "consumed", "released"} /\ (o.state = "released" => o.cancelled)
      /\ \A x : l \in RowsOf(x) <=> x = s
  BY <1>a, <1>b, LineFacts
<1>3. /\ r.sku = s /\ r.state = o.state /\ r.cancelled = o.cancelled /\ r.confirmed = o.confirmed + n
      /\ r.pending = GreaterOf(0, o.pending - n) /\ r \in OrderRow
  <2>1. GreaterOf(0, o.pending - n) \in Nat /\ o.confirmed + n \in Nat /\ o.inward + n \in Nat
    BY <1>a, <1>2, LineFacts DEF GreaterOf
  <2>2. o \in OrderRow
    BY <1>2
  <2> QED
    BY <1>b, <1>c, <2>1, <2>2 DEF OrderRow
<1>4. /\ shelf[s] \in Counters /\ shelf[s].booked \in Int /\ shelf[s].avail \in Int
      /\ rivals[s] \in Nat /\ OnShelf[s] \in Nat /\ owed[s] \in Nat
  BY <1>2, SkuFacts
<1>5. /\ Take(o, s, n) \in Counters /\ Take(o, s, n).avail = shelf[s].avail - n
      /\ Issued(o) => Take(o, s, n).booked = shelf[s].booked
      /\ ~Issued(o) => Take(o, s, n).booked = shelf[s].booked + n
  BY <1>2, TakeMoves
<1>6. "cancelled" \notin mishap[s] =>
         /\ RowsOf(s) = {l}
         /\ "added" \notin mishap[s] =>
              /\ shelf[s].booked = rivals[s] + HeldIn(o)
              /\ shelf[s].avail = OnShelf[s] - rivals[s] - TakenIn(o)
         /\ mishap[s] = {} => owed[s] \in {0, o.pending}
  BY <1>a, <1>b, OfThisRow
<1>7. /\ shelf' \in [Sku -> Counters] /\ owed' \in [Sku -> Nat]
      /\ shelf'[s] = Take(o, s, n) /\ owed'[s] = owed[s] - n
      /\ \A x \in Sku \ {s} : shelf'[x] = shelf[x] /\ owed'[x] = owed[x]
  <2>1. shelf \in [Sku -> Counters] /\ owed \in [Sku -> Nat]
    BY ShapeFacts DEF EditInv
  <2> QED
    BY <1>1, <1>2, <1>4, <1>5, <2>1
<1>8. "cancelled" \notin mishap[s] =>
         /\ "added" \notin mishap[s] =>
              /\ shelf'[s].booked = rivals'[s] + HeldIn(r)
              /\ shelf'[s].avail = OnShelf[s] - rivals'[s] - TakenIn(r)
         /\ mishap[s] = {} => owed'[s] \in {0, r.pending}
  <2>1. HeldIn(r) = (IF Issued(o) THEN 0 ELSE o.confirmed + n) /\ TakenIn(r) = o.confirmed + n
    BY <1>1, <1>2, <1>3 DEF HeldIn, TakenIn, Issued
  <2>2. HeldIn(o) = (IF Issued(o) THEN 0 ELSE o.confirmed) /\ TakenIn(o) = o.confirmed
    BY <1>1, <1>2 DEF HeldIn, TakenIn, Issued
  <2>3. mishap[s] = {} => owed'[s] \in {0, r.pending}
    BY <1>1, <1>2, <1>3, <1>4, <1>6, <1>7 DEF GreaterOf
  <2>4. ASSUME "cancelled" \notin mishap[s], "added" \notin mishap[s]
        PROVE  /\ shelf'[s].booked = rivals'[s] + HeldIn(r)
               /\ shelf'[s].avail = OnShelf[s] - rivals'[s] - TakenIn(r)
    <3>1. rivals'[s] = rivals[s]
      BY <1>1
    <3>2. CASE Issued(o)
      BY <1>2, <1>4, <1>5, <1>6, <1>7, <2>1, <2>2, <2>4, <3>1, <3>2
    <3>3. CASE ~Issued(o)
      BY <1>2, <1>4, <1>5, <1>6, <1>7, <2>1, <2>2, <2>4, <3>1, <3>3
    <3> QED
      BY <3>2, <3>3
  <2> QED
    BY <2>3, <2>4
<1>9. SkuKept(s)'
  <2>1. mishap'[s] = mishap[s] /\ ~r.cancelled
    BY <1>1, <1>3
  <2>2. "cancelled" \notin mishap'[s] => RowsOf(s) \subseteq {l} /\ Suits(r, s)
    BY <1>6, <1>8, <2>1 DEF Suits
  <2> QED
    BY <1>1, <1>2, <1>3, <2>2, RowBecomes
<1>10. edits' \in 0..MaxEdits /\ mishap' \in [Sku -> SUBSET Mishap]
  BY <1>1, ShapeFacts DEF EditInv
<1>11. \A x \in Sku \ {s} : Spared(l, r, x)
  BY <1>1, <1>2, <1>3, <1>7 DEF Spared, NotOf
<1>12. RowOrNone(r)
  BY <1>2, <1>3 DEF RowOrNone
<1>13. UNCHANGED <<poRaised, rivals>>
  BY <1>1
<1> QED
  BY <1>1, <1>2, <1>7, <1>9, <1>10, <1>11, <1>12, <1>13, LineStepOne

\* A row of s is written, and what comes with it to the counters and the indent of s.
LEMMA RowStep ==
  ASSUME EditInv, NEW l \in Lines, NEW r \in OrderRow, RowOrNone(r), orderRow' = [orderRow EXCEPT ![l] = r],
         NEW s \in Sku, r.sku = s, \A x : l \in RowsOf(x) => x = s,
         NEW c \in Counters, NEW w \in Nat, NEW what \in SUBSET Mishap,
         shelf' = [shelf EXCEPT ![s] = c], owed' = [owed EXCEPT ![s] = w],
         mishap' = [mishap EXCEPT ![s] = mishap[s] \cup what],
         edits' \in 0..MaxEdits, UNCHANGED <<poRaised, rivals>>,
         "cancelled" \notin mishap'[s] => RowsOf(s) \subseteq {l} /\ Suits(r, s)
  PROVE  EditInv'
<1>1. shelf \in [Sku -> Counters] /\ owed \in [Sku -> Nat] /\ mishap \in [Sku -> SUBSET Mishap]
  BY ShapeFacts DEF EditInv
<1>2. /\ shelf' \in [Sku -> Counters] /\ owed' \in [Sku -> Nat] /\ mishap' \in [Sku -> SUBSET Mishap]
      /\ \A x \in Sku \ {s} : shelf'[x] = shelf[x] /\ owed'[x] = owed[x] /\ mishap'[x] = mishap[x]
  BY <1>1
<1>3. SkuKept(s)'
  BY RowBecomes
<1>4. \A x \in Sku \ {s} : Spared(l, r, x)
  BY <1>2 DEF Spared, NotOf
<1> QED
  BY <1>2, <1>3, <1>4, LineStepOne

\* Where the step writes.
LEMMA At ==
  ASSUME EditInv, NEW s \in Sku, NEW c, NEW w, NEW what,
         shelf' = [shelf EXCEPT ![s] = c], owed' = [owed EXCEPT ![s] = w],
         mishap' = [mishap EXCEPT ![s] = mishap[s] \cup what], UNCHANGED rivals
  PROVE  shelf'[s] = c /\ owed'[s] = w /\ mishap'[s] = mishap[s] \cup what /\ rivals'[s] = rivals[s]
  BY ShapeFacts DEF EditInv

LEMMA SetsIssuedQuantityKeeps ==
  ASSUME EditInv, NEW l \in Filled, NEW n \in Nat, SetsIssuedQuantity(l, n) PROVE EditInv'
<1>a. PICK o : o = orderRow[l]
  OBVIOUS
<1>b. PICK s : s = o.sku
  OBVIOUS
<1>c. PICK t : t = GreaterOf(0, n - o.pending)
  OBVIOUS
<1>d. PICK r : r = [o EXCEPT !.confirmed = t]
  OBVIOUS
<1>e. PICK c : c = IF t > o.confirmed THEN IssueMore(shelf[s], t - o.confirmed) ELSE TakeBack(shelf[s], o.confirmed - t)
  OBVIOUS
<1>f. PICK w : w = owed[s]
  OBVIOUS
<1>g. PICK what : what = {}
  OBVIOUS
<1>1. /\ Amends /\ o.state = "consumed" /\ orderRow' = [orderRow EXCEPT ![l] = r]
      /\ shelf' = [shelf EXCEPT ![s] = c]
  BY <1>a, <1>b, <1>c, <1>d, <1>e DEF SetsIssuedQuantity, Issued
<1>h. owed' = owed /\ mishap' = mishap
  BY DEF SetsIssuedQuantity
<1>2. /\ l \in Lines /\ o \in OrderRow /\ s \in Sku /\ o.confirmed \in Nat /\ o.pending \in Nat
      /\ \A x : l \in RowsOf(x) <=> x = s
  BY <1>a, <1>b, LineFacts
<1>3. t \in Nat
  BY <1>2, <1>c DEF GreaterOf
<1>4. /\ r \in OrderRow /\ r.sku = s /\ r.state = "consumed" /\ r.cancelled = o.cancelled
      /\ r.confirmed = t /\ r.pending = o.pending
  BY <1>1, <1>2, <1>3, <1>b, <1>d DEF OrderRow
<1>5. /\ shelf[s] \in Counters /\ shelf[s].booked \in Int /\ shelf[s].avail \in Int
      /\ rivals[s] \in Nat /\ OnShelf[s] \in Nat /\ owed[s] \in Nat
  BY <1>2, SkuFacts
<1>6. c \in Counters /\ c.avail = shelf[s].avail + o.confirmed - t /\ c.booked = shelf[s].booked
  <2>1. CASE t > o.confirmed
    <3>1. t - o.confirmed \in Nat /\ c = IssueMore(shelf[s], t - o.confirmed)
      BY <1>2, <1>3, <1>e, <2>1
    <3>2. /\ c \in Counters /\ c.avail = shelf[s].avail - (t - o.confirmed) /\ c.booked = shelf[s].booked
      BY <1>5, <3>1, CountersAfter, CountersMove
    <3> QED
      BY <1>2, <1>3, <1>5, <3>2
  <2>2. CASE ~(t > o.confirmed)
    <3>1. o.confirmed - t \in Nat /\ c = TakeBack(shelf[s], o.confirmed - t)
      BY <1>2, <1>3, <1>e, <2>2
    <3>2. /\ c \in Counters /\ c.avail = shelf[s].avail + (o.confirmed - t) /\ c.booked = shelf[s].booked
      BY <1>5, <3>1, CountersAfter, CountersMove
    <3> QED
      BY <1>2, <1>3, <1>5, <3>2
  <2> QED
    BY <2>1, <2>2
<1>7. /\ owed' = [owed EXCEPT ![s] = w] /\ mishap' = [mishap EXCEPT ![s] = mishap[s] \cup what]
      /\ what \in SUBSET Mishap /\ w \in Nat
  BY <1>h, <1>5, <1>f, <1>g, ShapeFacts DEF EditInv
<1>8. edits' \in 0..MaxEdits /\ UNCHANGED <<poRaised, rivals>>
  BY <1>1, AmendsFacts
<1>9. shelf'[s] = c /\ owed'[s] = owed[s] /\ mishap'[s] = mishap[s] /\ rivals'[s] = rivals[s]
  <2>1. shelf'[s] = c /\ owed'[s] = w /\ mishap'[s] = mishap[s] \cup what /\ rivals'[s] = rivals[s]
    BY <1>1, <1>2, <1>7, <1>8, At
  <2> QED
    BY <1>f, <1>g, <2>1
<1>10. ASSUME "cancelled" \notin mishap'[s] PROVE RowsOf(s) \subseteq {l} /\ Suits(r, s)
  <2>1. /\ RowsOf(s) = {l} /\ ~o.cancelled
        /\ "added" \notin mishap[s] =>
             /\ shelf[s].booked = rivals[s] + HeldIn(o)
             /\ shelf[s].avail = OnShelf[s] - rivals[s] - TakenIn(o)
        /\ mishap[s] = {} => owed[s] \in {0, o.pending}
    BY <1>1, <1>9, <1>10, <1>a, <1>b, OfThisRow
  <2>2. HeldIn(o) = 0 /\ TakenIn(o) = o.confirmed /\ HeldIn(r) = 0 /\ TakenIn(r) = t
    BY <1>1, <1>4 DEF HeldIn, TakenIn
  <2>3. "added" \notin mishap'[s] => /\ shelf'[s].booked = rivals'[s] + HeldIn(r)
                                     /\ shelf'[s].avail = OnShelf[s] - rivals'[s] - TakenIn(r)
    BY <1>2, <1>3, <1>5, <1>6, <1>9, <2>1, <2>2
  <2> QED
    BY <1>4, <1>9, <2>1, <2>3 DEF Suits
<1>11. RowOrNone(r)
  BY <1>4 DEF RowOrNone
<1> QED
  BY <1>1, <1>2, <1>4, <1>5, <1>6, <1>7, <1>8, <1>10, <1>11, RowStep

LEMMA SetsHeldQuantityKeeps ==
  ASSUME EditInv, NEW l \in Filled, NEW n \in Nat, SetsHeldQuantity(l, n) PROVE EditInv'
<1>a. PICK o : o = orderRow[l]
  OBVIOUS
<1>b. PICK s : s = o.sku
  OBVIOUS
<1>c. PICK f : f = LesserOf(n, o.confirmed + GreaterOf(0, shelf[s].avail))
  OBVIOUS
<1>d. PICK r : r = [o EXCEPT !.confirmed = f, !.pending = n - f]
  OBVIOUS
<1>e. PICK c : c = IF f > o.confirmed THEN Reserve(shelf[s], f - o.confirmed) ELSE Release(shelf[s], o.confirmed - f)
  OBVIOUS
<1>g. PICK what : what = Gone(l)
  OBVIOUS
<1>1. /\ Amends /\ o.state # "consumed" /\ orderRow' = [orderRow EXCEPT ![l] = r]
      /\ shelf' = [shelf EXCEPT ![s] = c] /\ owed' = [owed EXCEPT ![s] = n - f]
      /\ mishap' = [mishap EXCEPT ![s] = mishap[s] \cup what]
  BY <1>a, <1>b, <1>c, <1>d, <1>e, <1>g DEF SetsHeldQuantity, Issued, Befell
<1>2. /\ l \in Lines /\ o \in OrderRow /\ s \in Sku /\ o.confirmed \in Nat /\ o.pending \in Nat
      /\ o.state \in {"reserved", "consumed", "released"} /\ (o.state = "released" => o.cancelled)
      /\ \A x : l \in RowsOf(x) <=> x = s
  BY <1>a, <1>b, LineFacts
<1>5. /\ shelf[s] \in Counters /\ shelf[s].booked \in Int /\ shelf[s].avail \in Int
      /\ rivals[s] \in Nat /\ OnShelf[s] \in Nat /\ owed[s] \in Nat
  BY <1>2, SkuFacts
<1>3. f \in Nat /\ n - f \in Nat
  BY <1>2, <1>5, <1>c DEF GreaterOf, LesserOf
<1>4. /\ r \in OrderRow /\ r.sku = s /\ r.state = o.state /\ r.cancelled = o.cancelled
      /\ r.confirmed = f /\ r.pending = n - f
  BY <1>1, <1>2, <1>3, <1>b, <1>d DEF OrderRow
<1>6. /\ c \in Counters /\ c.avail = shelf[s].avail + o.confirmed - f
      /\ shelf[s].booked >= o.confirmed => c.booked = shelf[s].booked + f - o.confirmed
  <2>1. CASE f > o.confirmed
    <3>1. f - o.confirmed \in Nat /\ c = Reserve(shelf[s], f - o.confirmed)
      BY <1>2, <1>3, <1>e, <2>1
    <3>2. /\ c \in Counters /\ c.avail = shelf[s].avail - (f - o.confirmed)
          /\ c.booked = shelf[s].booked + (f - o.confirmed)
      BY <1>5, <3>1, CountersAfter, CountersMove
    <3> QED
      BY <1>2, <1>3, <1>5, <3>2
  <2>2. CASE ~(f > o.confirmed)
    <3>1. o.confirmed - f \in Nat /\ c = Release(shelf[s], o.confirmed - f)
      BY <1>2, <1>3, <1>e, <2>2
    <3>2. /\ c \in Counters /\ c.avail = shelf[s].avail + (o.confirmed - f)
          /\ shelf[s].booked >= o.confirmed - f => c.booked = shelf[s].booked - (o.confirmed - f)
      BY <1>5, <3>1, CountersAfter, CountersMove
    <3> QED
      BY <1>2, <1>3, <1>5, <3>2
  <2> QED
    BY <2>1, <2>2
<1>7. what \in SUBSET Mishap /\ (o.cancelled => "cancelled" \in what)
  BY <1>a, <1>g DEF Gone, Mishap
<1>8. edits' \in 0..MaxEdits /\ UNCHANGED <<poRaised, rivals>>
  BY <1>1, AmendsFacts
<1>9. shelf'[s] = c /\ owed'[s] = n - f /\ mishap'[s] = mishap[s] \cup what /\ rivals'[s] = rivals[s]
  BY <1>1, <1>2, <1>8, At
<1>10. ASSUME "cancelled" \notin mishap'[s] PROVE RowsOf(s) \subseteq {l} /\ Suits(r, s)
  <2>1. "cancelled" \notin mishap[s] /\ ~o.cancelled /\ o.state = "reserved"
    BY <1>1, <1>2, <1>7, <1>9, <1>10
  <2>2. /\ RowsOf(s) = {l}
        /\ "added" \notin mishap[s] =>
             /\ shelf[s].booked = rivals[s] + HeldIn(o)
             /\ shelf[s].avail = OnShelf[s] - rivals[s] - TakenIn(o)
    BY <1>a, <1>b, <2>1, OfThisRow
  <2>3. HeldIn(o) = o.confirmed /\ TakenIn(o) = o.confirmed /\ HeldIn(r) = f /\ TakenIn(r) = f
    BY <1>4, <2>1 DEF HeldIn, TakenIn
  <2>4. "added" \notin mishap'[s] => /\ shelf'[s].booked = rivals'[s] + HeldIn(r)
                                     /\ shelf'[s].avail = OnShelf[s] - rivals'[s] - TakenIn(r)
    BY <1>2, <1>3, <1>5, <1>6, <1>9, <2>2, <2>3
  <2> QED
    BY <1>4, <1>9, <2>1, <2>2, <2>4 DEF Suits
<1>11. RowOrNone(r)
  BY <1>2, <1>4 DEF RowOrNone
<1> QED
  BY <1>1, <1>2, <1>3, <1>4, <1>6, <1>7, <1>8, <1>10, <1>11, RowStep

-----------------------------------------------------------------------------
(* The steps that make, remove or recode one row.                          *)

\* A nonempty set of numbers has a least one (LeastOf); a bounded one has a largest.
LEMMA MinOf ==
  ASSUME NEW S \in SUBSET Nat, S # {}
  PROVE  Min(S) \in S /\ \A x \in S : Min(S) <= x
  BY LeastOf DEF Min

LEMMA MaxOf ==
  ASSUME NEW S \in SUBSET Nat, S # {}, NEW n \in Nat, \A x \in S : x <= n
  PROVE  Max(S) \in S /\ \A x \in S : x <= Max(S)
<1> DEFINE T == {n - x : x \in S}
<1>1. T \in SUBSET Nat
  <2>1. ASSUME NEW x \in S PROVE n - x \in Nat
    OBVIOUS
  <2> QED
    BY <2>1
<1>2. T # {}
  OBVIOUS
<1> HIDE DEF T
<1>3. PICK t \in T : \A u \in T : t <= u
  BY <1>1, <1>2, LeastOf
<1>4. PICK y \in S : t = n - y
  BY <1>3 DEF T
<1>5. \A x \in S : x <= y
  <2> SUFFICES ASSUME NEW x \in S PROVE x <= y
    OBVIOUS
  <2>1. n - x \in T
    BY DEF T
  <2>2. t <= n - x
    BY <1>3, <2>1
  <2>3. x \in Nat /\ y \in Nat
    OBVIOUS
  <2> QED
    BY <1>4, <2>2, <2>3
<1>6. \A x \in S : y >= x
  BY <1>5
<1> QED
  BY <1>6 DEF Max

\* The lines are numbers; the line after the last is free.
LEMMA LineNumbers ==
  ASSUME Filled # {}
  PROVE  /\ Max(Filled) + 1 \notin Filled
         /\ \A S \in SUBSET Filled : S # {} => Min(S) \in S
<1>1. PICK n \in Nat : Lines = 1..n
  BY EditAssumption, FS_CardinalityType
<1>2. PICK F : F = Filled
  OBVIOUS
<1>3. F \in SUBSET Nat /\ F # {} /\ \A x \in F : x <= n
  <2>1. F # {}
    BY <1>2
  <2>2. F \subseteq 1..n
    BY <1>1, <1>2 DEF Filled
  <2> QED
    BY <2>1, <2>2
<1>4. Max(F) \in F /\ \A x \in F : x <= Max(F)
  <2> HIDE <1>2
  <2>1. F \in SUBSET Nat /\ F # {} /\ n \in Nat /\ \A x \in F : x <= n
    BY <1>1, <1>3
  <2> QED
    BY <2>1, MaxOf
<1>5. Max(F) + 1 \notin F
  <2>1. PICK m : m = Max(F)
    OBVIOUS
  <2>2. m \in Nat /\ \A x \in F : x <= m
    BY <1>3, <1>4, <2>1
  <2>3. m + 1 \notin F
    BY <2>2
  <2> QED
    BY <2>1, <2>3
<1>6. \A S \in SUBSET F : S # {} => Min(S) \in S
  BY <1>3, MinOf
<1> QED
  BY <1>2, <1>5, <1>6

LEMMA IndentServedAnewKeeps ==
  ASSUME EditInv, NEW s \in Sku, NEW n \in Nat, IndentServedAnew(s, n) PROVE EditInv'
<1>a. PICK l : l = Max(Filled) + 1
  OBVIOUS
<1>b. PICK state : state = IF Issued(orderRow[Min(Live)]) THEN "consumed" ELSE "reserved"
  OBVIOUS
<1>c. PICK w : w = owed[s] - n
  OBVIOUS
<1>d. PICK r : r = [NewOrderRow(s, n, w, state) EXCEPT !.inward = n]
  OBVIOUS
<1>e. PICK c : c = Take(r, s, n)
  OBVIOUS
<1>g. PICK what : what = {}
  OBVIOUS
<1>1. /\ Live # {} /\ RowsOf(s) \cap Live = {} /\ n \in 1..owed[s] /\ l \in Lines
      /\ orderRow' = [orderRow EXCEPT ![l] = r]
      /\ shelf' = [shelf EXCEPT ![s] = c] /\ owed' = [owed EXCEPT ![s] = w]
  BY <1>a, <1>b, <1>c, <1>d, <1>e DEF IndentServedAnew
<1>h. mishap' = mishap /\ edits' = edits /\ UNCHANGED <<poRaised, rivals>>
  BY DEF IndentServedAnew
<1>2. l \notin Filled /\ \A x : l \notin RowsOf(x)
  BY <1>1, <1>a, LineNumbers DEF Live, RowsOf
<1>3. /\ shelf[s] \in Counters /\ shelf[s].booked \in Int /\ shelf[s].avail \in Int
      /\ rivals[s] \in Nat /\ OnShelf[s] \in Nat /\ owed[s] \in Nat
  BY SkuFacts
<1>4. w \in Nat /\ n > 0 /\ state \in {"reserved", "consumed"}
  BY <1>1, <1>3, <1>b, <1>c
<1>5. /\ r \in OrderRow /\ r.sku = s /\ r.confirmed = n /\ r.pending = w /\ r.state = state
      /\ r.cancelled = FALSE
  BY <1>4, <1>d DEF NewOrderRow, OrderRow
<1>6. /\ c \in Counters /\ c.avail = shelf[s].avail - n
      /\ Issued(r) => c.booked = shelf[s].booked
      /\ ~Issued(r) => c.booked = shelf[s].booked + n
  BY <1>e, TakeMoves
<1>7. what \in SUBSET Mishap /\ mishap' = [mishap EXCEPT ![s] = mishap[s] \cup what]
  BY <1>g, <1>h, ShapeFacts DEF EditInv
<1>8. edits' \in 0..MaxEdits
  BY <1>h, ShapeFacts DEF EditInv
<1>9. shelf'[s] = c /\ owed'[s] = w /\ mishap'[s] = mishap[s] /\ rivals'[s] = rivals[s]
  <2>1. shelf'[s] = c /\ owed'[s] = w /\ mishap'[s] = mishap[s] \cup what /\ rivals'[s] = rivals[s]
    BY <1>1, <1>7, <1>h, At
  <2> QED
    BY <1>g, <2>1
\* A line of the SKU that was cancelled has left no indent.
<1>10. "cancelled" \notin mishap[s] => RowsOf(s) = {}
  <2> SUFFICES ASSUME "cancelled" \notin mishap[s], NEW x \in Filled, orderRow[x].sku = s PROVE FALSE
    BY DEF RowsOf
  <2>1. orderRow[x].cancelled
    BY <1>1 DEF RowsOf, Live
  <2>2. owed[s] = 0
    BY <2>1, OfThisRow
  <2> QED
    BY <1>1, <2>2
<1>11. ASSUME "cancelled" \notin mishap'[s] PROVE RowsOf(s) \subseteq {l} /\ Suits(r, s)
  <2>1. RowsOf(s) = {} /\ "cancelled" \notin mishap[s]
    BY <1>9, <1>10, <1>11
  <2>2. "added" \notin mishap[s] => shelf[s].booked = rivals[s] /\ shelf[s].avail = OnShelf[s] - rivals[s]
    BY <2>1, OfNoRow
  <2>3. HeldIn(r) = (IF Issued(r) THEN 0 ELSE n) /\ TakenIn(r) = n
    BY <1>4, <1>5 DEF HeldIn, TakenIn, Issued
  <2>4. "added" \notin mishap'[s] => /\ shelf'[s].booked = rivals'[s] + HeldIn(r)
                                     /\ shelf'[s].avail = OnShelf[s] - rivals'[s] - TakenIn(r)
    <3>1. CASE Issued(r)
      BY <1>3, <1>6, <1>9, <2>2, <2>3, <3>1
    <3>2. CASE ~Issued(r)
      BY <1>3, <1>6, <1>9, <2>2, <2>3, <3>2
    <3> QED
      BY <3>1, <3>2
  <2> QED
    BY <1>5, <1>9, <2>1, <2>4 DEF Suits
<1>12. RowOrNone(r)
  BY <1>4, <1>5 DEF RowOrNone
<1>13. UNCHANGED <<poRaised, rivals>> /\ \A x : l \in RowsOf(x) => x = s
  BY <1>2, <1>h
<1> QED
  BY <1>1, <1>4, <1>5, <1>6, <1>7, <1>8, <1>11, <1>12, <1>13, RowStep

LEMMA AddsRowKeeps ==
  ASSUME EditInv, NEW s \in Sku, NEW n \in Nat, AddsRow(s, n) PROVE EditInv'
<1>a. PICK l : l = Max(Filled) + 1
  OBVIOUS
<1>b. PICK o : o = orderRow[Min(Filled)]
  OBVIOUS
<1>d. PICK r : r = [NewOrderRow(s, n, 0, "reserved") EXCEPT !.cancelled = o.cancelled]
  OBVIOUS
<1>e. PICK c : c = Take(o, s, n)
  OBVIOUS
<1>f. PICK w : w = owed[s]
  OBVIOUS
<1>g. PICK what : what = (IF o.cancelled THEN {"cancelled"} ELSE {})
                           \cup (IF Issued(o) THEN {"added"} ELSE {}) \cup Detaches(s)
  OBVIOUS
<1>1. /\ Amends /\ RowsOf(s) = {} /\ l \in Lines
      /\ orderRow' = [orderRow EXCEPT ![l] = r] /\ shelf' = [shelf EXCEPT ![s] = c]
      /\ mishap' = [mishap EXCEPT ![s] = mishap[s] \cup what]
  BY <1>a, <1>b, <1>d, <1>e, <1>g DEF AddsRow, Befell
<1>h. owed' = owed
  BY DEF AddsRow
<1>8. edits' \in 0..MaxEdits /\ UNCHANGED <<poRaised, rivals>> /\ Filled # {}
  BY <1>1, AmendsFacts
<1>2. l \notin Filled /\ \A x : l \notin RowsOf(x)
  BY <1>8, <1>a, LineNumbers DEF RowsOf
<1>3. /\ shelf[s] \in Counters /\ shelf[s].booked \in Int /\ shelf[s].avail \in Int
      /\ rivals[s] \in Nat /\ OnShelf[s] \in Nat /\ owed[s] \in Nat
  BY SkuFacts
<1>4. o.cancelled \in BOOLEAN
  <2>1. Min(Filled) \in Filled
    BY <1>8, LineNumbers
  <2> QED
    BY <1>b, <2>1, LineFacts
<1>5. /\ r \in OrderRow /\ r.sku = s /\ r.confirmed = n /\ r.pending = 0 /\ r.state = "reserved"
      /\ r.cancelled = o.cancelled
  BY <1>4, <1>d DEF NewOrderRow, OrderRow
<1>6. /\ c \in Counters /\ c.avail = shelf[s].avail - n
      /\ ~Issued(o) => c.booked = shelf[s].booked + n
  BY <1>e, TakeMoves
<1>7. /\ what \in SUBSET Mishap /\ (o.cancelled => "cancelled" \in what) /\ (Issued(o) => "added" \in what)
      /\ (what = {} => owed[s] = 0)
  BY <1>3, <1>g DEF Mishap, Detaches
<1>14. owed' = [owed EXCEPT ![s] = w] /\ w \in Nat
  BY <1>3, <1>f, <1>h, ShapeFacts DEF EditInv
<1>9. shelf'[s] = c /\ owed'[s] = owed[s] /\ mishap'[s] = mishap[s] \cup what /\ rivals'[s] = rivals[s]
  <2>1. shelf'[s] = c /\ owed'[s] = w /\ mishap'[s] = mishap[s] \cup what /\ rivals'[s] = rivals[s]
    BY <1>1, <1>8, <1>14, At
  <2> QED
    BY <1>f, <2>1
<1>11. ASSUME "cancelled" \notin mishap'[s] PROVE RowsOf(s) \subseteq {l} /\ Suits(r, s)
  <2>1. "cancelled" \notin mishap[s] /\ ~o.cancelled
    BY <1>7, <1>9, <1>11
  <2>2. "added" \notin mishap[s] => shelf[s].booked = rivals[s] /\ shelf[s].avail = OnShelf[s] - rivals[s]
    BY <1>1, <2>1, OfNoRow
  <2>3. HeldIn(r) = n /\ TakenIn(r) = n
    BY <1>5 DEF HeldIn, TakenIn
  <2>4. "added" \notin mishap'[s] => /\ shelf'[s].booked = rivals'[s] + HeldIn(r)
                                     /\ shelf'[s].avail = OnShelf[s] - rivals'[s] - TakenIn(r)
    BY <1>3, <1>6, <1>7, <1>9, <2>2, <2>3
  <2>5. mishap'[s] = {} => owed'[s] = 0
    BY <1>7, <1>9
  <2> QED
    BY <1>1, <1>5, <2>1, <2>4, <2>5 DEF Suits
<1>12. RowOrNone(r)
  BY <1>5 DEF RowOrNone
<1>13. UNCHANGED <<poRaised, rivals>> /\ \A x : l \in RowsOf(x) => x = s
  BY <1>2, <1>8
<1> QED
  BY <1>1, <1>5, <1>6, <1>7, <1>8, <1>11, <1>12, <1>13, <1>14, RowStep

LEMMA RemovesLineKeeps == ASSUME EditInv, NEW l \in Filled, RemovesLine(l) PROVE EditInv'
<1>a. PICK o : o = orderRow[l]
  OBVIOUS
<1>b. PICK s : s = o.sku
  OBVIOUS
<1>c. PICK n : n = o.confirmed
  OBVIOUS
<1>d. PICK r : r = NoOrderRow
  OBVIOUS
<1>e. PICK c : c = GiveBack(o, s, n)
  OBVIOUS
<1>f. PICK w : w = owed[s]
  OBVIOUS
<1>g. PICK what : what = Gone(l) \cup Detaches(s)
  OBVIOUS
<1>1. /\ Amends /\ orderRow' = [orderRow EXCEPT ![l] = r] /\ shelf' = [shelf EXCEPT ![s] = c]
      /\ mishap' = [mishap EXCEPT ![s] = mishap[s] \cup what]
  BY <1>a, <1>b, <1>c, <1>d, <1>e, <1>g DEF RemovesLine, Befell
<1>h. owed' = owed
  BY DEF RemovesLine
<1>8. edits' \in 0..MaxEdits /\ UNCHANGED <<poRaised, rivals>>
  BY <1>1, AmendsFacts
<1>2. /\ l \in Lines /\ o \in OrderRow /\ s \in Sku /\ n \in Nat /\ o.cancelled \in BOOLEAN
      /\ o.state \in {"reserved", "consumed", "released"} /\ (o.state = "released" => o.cancelled)
      /\ \A x : l \in RowsOf(x) <=> x = s
  BY <1>a, <1>b, <1>c, LineFacts
<1>3. /\ shelf[s] \in Counters /\ shelf[s].booked \in Int /\ shelf[s].avail \in Int
      /\ rivals[s] \in Nat /\ OnShelf[s] \in Nat /\ owed[s] \in Nat
  BY <1>2, SkuFacts
<1>6. /\ c \in Counters /\ c.avail = shelf[s].avail + n
      /\ Issued(o) => c.booked = shelf[s].booked
      /\ ~Issued(o) /\ shelf[s].booked >= n => c.booked = shelf[s].booked - n
  BY <1>2, <1>e, GiveBackMoves
<1>7. what \in SUBSET Mishap /\ (o.cancelled => "cancelled" \in what)
  BY <1>a, <1>g DEF Mishap, Detaches, Gone
<1>14. owed' = [owed EXCEPT ![s] = w] /\ w \in Nat
  BY <1>3, <1>f, <1>h, ShapeFacts DEF EditInv
<1>9. shelf'[s] = c /\ owed'[s] = w /\ mishap'[s] = mishap[s] \cup what /\ rivals'[s] = rivals[s]
  BY <1>1, <1>2, <1>8, <1>14, At
<1>10. NotOf(r, s)
  BY <1>d DEF NotOf
<1>11. SkuKept(s)'
  <2>1. CASE "cancelled" \in mishap'[s]
    BY <1>2, <2>1, SkuAmiss
  <2>2. CASE "cancelled" \notin mishap'[s]
    <3>1. "cancelled" \notin mishap[s] /\ ~o.cancelled
      BY <1>7, <1>9, <2>2
    <3>2. /\ RowsOf(s) = {l}
          /\ "added" \notin mishap[s] =>
               /\ shelf[s].booked = rivals[s] + HeldIn(o)
               /\ shelf[s].avail = OnShelf[s] - rivals[s] - TakenIn(o)
      BY <1>a, <1>b, <3>1, OfThisRow
    <3>3. RowsOf(s)' = {}
      BY <1>1, <1>2, <1>10, <3>2, RowsGone DEF EditInv
    <3>4. TakenIn(o) = n /\ HeldIn(o) = (IF Issued(o) THEN 0 ELSE n)
      BY <1>2, <1>c, <3>1 DEF HeldIn, TakenIn, Issued
    <3>5. "added" \notin mishap'[s] => shelf'[s].booked = rivals'[s] /\ shelf'[s].avail = OnShelf[s] - rivals'[s]
      <4>1. CASE Issued(o)
        BY <1>2, <1>3, <1>6, <1>9, <3>2, <3>4, <4>1
      <4>2. CASE ~Issued(o)
        BY <1>2, <1>3, <1>6, <1>9, <3>2, <3>4, <4>2
      <4> QED
        BY <4>1, <4>2
    <3> QED
      BY <1>2, <1>3, <1>9, <3>3, <3>5, SkuEmpty
  <2> QED
    BY <2>1, <2>2
<1>12. /\ shelf' \in [Sku -> Counters] /\ owed' \in [Sku -> Nat] /\ mishap' \in [Sku -> SUBSET Mishap]
       /\ \A x \in Sku \ {s} : shelf'[x] = shelf[x] /\ owed'[x] = owed[x] /\ mishap'[x] = mishap[x]
  <2>1. shelf \in [Sku -> Counters] /\ owed \in [Sku -> Nat] /\ mishap \in [Sku -> SUBSET Mishap]
    BY ShapeFacts DEF EditInv
  <2> QED
    BY <1>1, <1>2, <1>6, <1>7, <1>14, <2>1
<1>13. \A x \in Sku \ {s} : Spared(l, r, x)
  BY <1>2, <1>12, <1>d DEF Spared, NotOf
<1>15. RowOrNone(r)
  BY <1>d DEF RowOrNone
<1> QED
  BY <1>1, <1>2, <1>8, <1>11, <1>12, <1>13, <1>15, LineStepOne

LEMMA RecodesLineKeeps ==
  ASSUME EditInv, NEW l \in Filled, NEW t \in Sku, NEW n \in Nat, RecodesLine(l, t, n) PROVE EditInv'
<1>a. PICK o : o = orderRow[l]
  OBVIOUS
<1>b. PICK s : s = o.sku
  OBVIOUS
<1>c. PICK m : m = o.confirmed
  OBVIOUS
<1>d. PICK r : r = [o EXCEPT !.sku = t, !.confirmed = n]
  OBVIOUS
<1>e. PICK c : c = GiveBack(o, s, m)
  OBVIOUS
<1>f. PICK k : k = Take(o, t, n)
  OBVIOUS
<1>g. PICK what : what = Gone(l) \cup Detaches(s)
  OBVIOUS
<1>h. PICK also : also = Gone(l) \cup Detaches(t)
  OBVIOUS
<1>1. /\ Amends /\ RowsOf(t) = {} /\ orderRow' = [orderRow EXCEPT ![l] = r]
      /\ shelf' = [shelf EXCEPT ![t] = k, ![s] = c] /\ owed' = owed
      /\ mishap' = [mishap EXCEPT ![s] = @ \cup Gone(l) \cup Detaches(s), ![t] = @ \cup Gone(l) \cup Detaches(t)]
  BY <1>a, <1>b, <1>c, <1>d, <1>e, <1>f DEF RecodesLine
<1>8. edits' \in 0..MaxEdits /\ UNCHANGED <<poRaised, rivals>>
  BY <1>1, AmendsFacts
<1>2. /\ l \in Lines /\ o \in OrderRow /\ s \in Sku /\ m \in Nat /\ o.cancelled \in BOOLEAN /\ s # t
      /\ o.state \in {"reserved", "consumed", "released"} /\ (o.state = "released" => o.cancelled)
      /\ \A x : l \in RowsOf(x) <=> x = s
  BY <1>1, <1>a, <1>b, <1>c, LineFacts
<1>3. /\ shelf[s] \in Counters /\ shelf[s].booked \in Int /\ shelf[s].avail \in Int
      /\ rivals[s] \in Nat /\ OnShelf[s] \in Nat /\ owed[s] \in Nat
      /\ shelf[t] \in Counters /\ shelf[t].booked \in Int /\ shelf[t].avail \in Int
      /\ rivals[t] \in Nat /\ OnShelf[t] \in Nat /\ owed[t] \in Nat
  BY <1>2, SkuFacts
<1>4. /\ r \in OrderRow /\ r.sku = t /\ r.confirmed = n /\ r.state = o.state /\ r.cancelled = o.cancelled
  BY <1>2, <1>d DEF OrderRow
<1>5. /\ k \in Counters /\ k.avail = shelf[t].avail - n
      /\ Issued(o) => k.booked = shelf[t].booked
      /\ ~Issued(o) => k.booked = shelf[t].booked + n
  BY <1>f, TakeMoves
<1>6. /\ c \in Counters /\ c.avail = shelf[s].avail + m
      /\ Issued(o) => c.booked = shelf[s].booked
      /\ ~Issued(o) /\ shelf[s].booked >= m => c.booked = shelf[s].booked - m
  BY <1>2, <1>e, GiveBackMoves
<1>7. /\ what \in SUBSET Mishap /\ (o.cancelled => "cancelled" \in what)
      /\ also \in SUBSET Mishap /\ (o.cancelled => "cancelled" \in also) /\ (also = {} => owed[t] = 0)
  BY <1>3, <1>a, <1>g, <1>h DEF Mishap, Detaches, Gone
<1>9. /\ shelf' \in [Sku -> Counters] /\ owed' \in [Sku -> Nat] /\ mishap' \in [Sku -> SUBSET Mishap]
      /\ shelf'[s] = c /\ mishap'[s] = mishap[s] \cup what
      /\ shelf'[t] = k /\ mishap'[t] = mishap[t] \cup also
      /\ \A x \in Sku \ {s, t} : shelf'[x] = shelf[x] /\ mishap'[x] = mishap[x]
  <2>1. shelf \in [Sku -> Counters] /\ owed \in [Sku -> Nat] /\ mishap \in [Sku -> SUBSET Mishap]
    BY ShapeFacts DEF EditInv
  <2>2. /\ shelf' \in [Sku -> Counters] /\ shelf'[s] = c /\ shelf'[t] = k
        /\ \A x \in Sku \ {s, t} : shelf'[x] = shelf[x]
    BY <1>1, <1>2, <1>5, <1>6, <2>1
  <2>3. /\ Gone(l) \in SUBSET Mishap /\ Detaches(s) \in SUBSET Mishap /\ Detaches(t) \in SUBSET Mishap
    BY DEF Mishap, Detaches, Gone
  <2>4. /\ mishap'[s] = mishap[s] \cup Gone(l) \cup Detaches(s)
        /\ mishap'[t] = mishap[t] \cup Gone(l) \cup Detaches(t)
        /\ \A x \in Sku \ {s, t} : mishap'[x] = mishap[x]
        /\ DOMAIN mishap' = Sku /\ mishap' = [x \in Sku |-> mishap'[x]]
    BY <1>1, <1>2, <2>1
  <2>5. mishap'[s] = mishap[s] \cup what /\ mishap'[t] = mishap[t] \cup also
    BY <1>g, <1>h, <2>4
  <2>6. \A x \in Sku : mishap'[x] \in SUBSET Mishap
    BY <1>2, <1>7, <2>1, <2>4, <2>5
  <2>7. mishap' \in [Sku -> SUBSET Mishap]
    BY <2>4, <2>6
  <2> QED
    BY <1>1, <2>1, <2>2, <2>4, <2>5, <2>7
<1>10. NotOf(r, s)
  BY <1>2, <1>4 DEF NotOf
<1>11. SkuKept(s)'
  <2>1. CASE "cancelled" \in mishap'[s]
    BY <1>2, <2>1, SkuAmiss
  <2>2. CASE "cancelled" \notin mishap'[s]
    <3>1. "cancelled" \notin mishap[s] /\ ~o.cancelled
      BY <1>7, <1>9, <2>2
    <3>2. /\ RowsOf(s) = {l}
          /\ "added" \notin mishap[s] =>
               /\ shelf[s].booked = rivals[s] + HeldIn(o)
               /\ shelf[s].avail = OnShelf[s] - rivals[s] - TakenIn(o)
      BY <1>a, <1>b, <3>1, OfThisRow
    <3>3. RowsOf(s)' = {}
      BY <1>1, <1>2, <1>10, <3>2, RowsGone DEF EditInv
    <3>4. TakenIn(o) = m /\ HeldIn(o) = (IF Issued(o) THEN 0 ELSE m)
      BY <1>2, <1>c, <3>1 DEF HeldIn, TakenIn, Issued
    <3>6. rivals'[s] = rivals[s]
      BY <1>8
    <3>5. "added" \notin mishap'[s] => shelf'[s].booked = rivals'[s] /\ shelf'[s].avail = OnShelf[s] - rivals'[s]
      <4>1. CASE Issued(o)
        BY <1>2, <1>3, <1>6, <1>9, <3>2, <3>4, <3>6, <4>1
      <4>2. CASE ~Issued(o)
        BY <1>2, <1>3, <1>6, <1>9, <3>2, <3>4, <3>6, <4>2
      <4> QED
        BY <4>1, <4>2
    <3> QED
      BY <1>2, <1>3, <3>3, <3>5, <3>6, SkuEmpty
  <2> QED
    BY <2>1, <2>2
<1>12. SkuKept(t)'
  <2>1. ASSUME "cancelled" \notin mishap'[t] PROVE RowsOf(t) \subseteq {l} /\ Suits(r, t)
    <3>1. "cancelled" \notin mishap[t] /\ ~o.cancelled
      BY <1>7, <1>9, <2>1
    <3>2. "added" \notin mishap[t] => shelf[t].booked = rivals[t] /\ shelf[t].avail = OnShelf[t] - rivals[t]
      BY <1>1, <3>1, OfNoRow
    <3>3. TakenIn(r) = n /\ HeldIn(r) = (IF Issued(o) THEN 0 ELSE n)
      BY <1>2, <1>4, <3>1 DEF HeldIn, TakenIn, Issued
    <3>4. rivals'[t] = rivals[t]
      BY <1>8
    <3>5. "added" \notin mishap'[t] => /\ shelf'[t].booked = rivals'[t] + HeldIn(r)
                                       /\ shelf'[t].avail = OnShelf[t] - rivals'[t] - TakenIn(r)
      <4>1. CASE Issued(o)
        BY <1>3, <1>5, <1>9, <3>2, <3>3, <3>4, <4>1
      <4>2. CASE ~Issued(o)
        BY <1>3, <1>5, <1>9, <3>2, <3>3, <3>4, <4>2
      <4> QED
        BY <4>1, <4>2
    <3>6. mishap'[t] = {} => owed'[t] = 0
      BY <1>1, <1>7, <1>9
    <3> QED
      BY <1>1, <1>4, <3>1, <3>5, <3>6 DEF Suits
  <2> QED
    BY <1>1, <1>2, <1>4, <2>1, RowBecomes
<1>13. \A x \in Sku \ {s, t} : Spared(l, r, x)
  BY <1>1, <1>2, <1>4, <1>9 DEF Spared, NotOf
<1>14. RowOrNone(r)
  BY <1>2, <1>4 DEF RowOrNone
<1>15. PICK T : T = {s, t}
  OBVIOUS
<1>16. T \in SUBSET Sku /\ \A x \in Sku \ T : Spared(l, r, x)
  BY <1>2, <1>13, <1>15
<1>17. ASSUME NEW x \in T PROVE SkuKept(x)'
  <2>1. x = s \/ x = t
    BY <1>15
  <2> QED
    BY <1>11, <1>12, <2>1
<1> QED
  BY <1>1, <1>2, <1>8, <1>9, <1>14, <1>16, <1>17, OrderLineStep

-----------------------------------------------------------------------------
(* The booking as it was confirmed, and all its steps.                     *)

LEMMA EditBegins == EditInit => EditInv
<1> SUFFICES ASSUME EditInit PROVE EditInv
  OBVIOUS
<1>1. PICK asked \in Wanted : Placement(asked)
  BY DEF EditInit
<1> DEFINE got == [s \in Sku |-> LesserOf(asked[s], OnShelf[s])]
           rows == {s \in Sku : got[s] > 0}
<1>2. PICK seat \in Injection(rows, Lines) :
        /\ shelf = [s \in Sku |-> Reserve(Shelf(OnShelf[s]), got[s])]
        /\ owed = [s \in Sku |-> asked[s] - got[s]]
        /\ orderRow = [l \in Lines |->
             IF \E s \in rows : seat[s] = l
             THEN LET s == CHOOSE x \in rows : seat[x] = l
                  IN  NewOrderRow(s, got[s], asked[s] - got[s], "reserved")
             ELSE NoOrderRow]
  BY <1>1 DEF Placement
<1>3. \A s \in rows : seat[s] \in Lines /\ \A x \in rows : seat[x] = seat[s] => x = s
  BY <1>2 DEF Injection, IsInjective
<1>4. \A s \in Sku : /\ asked[s] \in Nat /\ OnShelf[s] \in Nat /\ got[s] \in Nat /\ asked[s] - got[s] \in Nat
                     /\ (s \notin rows => got[s] = 0)
  BY EditAssumption DEF LesserOf
<1>5. rows \subseteq Sku
  OBVIOUS
<1>6. ASSUME NEW l \in Lines
      PROVE  \/ orderRow[l] = NoOrderRow /\ \A s \in rows : seat[s] # l
             \/ \E s \in rows : seat[s] = l /\ orderRow[l] = NewOrderRow(s, got[s], asked[s] - got[s], "reserved")
  BY <1>2
<1> HIDE DEF got, rows
<1>7. ASSUME NEW s \in rows
      PROVE  LET r == NewOrderRow(s, got[s], asked[s] - got[s], "reserved")
             IN  /\ r \in OrderRow /\ r.sku = s /\ r.confirmed = got[s] /\ r.pending = asked[s] - got[s]
                 /\ r.state = "reserved" /\ ~r.cancelled
  BY <1>4, <1>5 DEF NewOrderRow, OrderRow
<1>8. ASSUME NEW s \in Sku
      PROVE  /\ shelf[s] \in Counters /\ shelf[s].booked = got[s] /\ shelf[s].avail = OnShelf[s] - got[s]
             /\ owed[s] = asked[s] - got[s] /\ rivals[s] = 0 /\ mishap[s] = {}
  <2>1. Shelf(OnShelf[s]) \in Counters /\ Shelf(OnShelf[s]).avail = OnShelf[s] /\ Shelf(OnShelf[s]).booked = 0
    BY <1>4 DEF Shelf, Counters
  <2>2. shelf[s] = Reserve(Shelf(OnShelf[s]), got[s])
    BY <1>2
  <2>a. PICK p : p = Shelf(OnShelf[s])
    OBVIOUS
  <2>b. PICK n : n = got[s]
    OBVIOUS
  <2>c. p \in Counters /\ n \in Nat
    BY <1>4, <2>1, <2>a, <2>b
  <2>d. Reserve(p, n) \in Counters /\ Reserve(p, n).avail = p.avail - n /\ Reserve(p, n).booked = p.booked + n
    BY <2>c, CountersAfter, CountersMove
  <2>3. /\ shelf[s] \in Counters /\ shelf[s].avail = Shelf(OnShelf[s]).avail - got[s]
        /\ shelf[s].booked = Shelf(OnShelf[s]).booked + got[s]
    BY <2>2, <2>a, <2>b, <2>d
  <2>4. owed[s] = asked[s] - got[s] /\ rivals[s] = 0 /\ mishap[s] = {}
    BY <1>2 DEF EditInit
  <2> QED
    BY <1>4, <2>1, <2>3, <2>4
<1>9. \A l \in Lines : \/ orderRow[l] = NoOrderRow
                       \/ orderRow[l] \in OrderRow /\ orderRow[l].state = "reserved" /\ ~orderRow[l].cancelled
  BY <1>6, <1>7
<1>10. EditShape
  <2>1. shelf \in [Sku -> Counters]
    BY <1>2, <1>8
  <2>2. owed \in [Sku -> Nat]
    BY <1>2, <1>4
  <2>3. /\ rivals \in [Sku -> Nat] /\ mishap \in [Sku -> SUBSET Mishap] /\ poRaised \in BOOLEAN
        /\ edits \in 0..MaxEdits
    <3>1. /\ rivals = [s \in Sku |-> 0] /\ mishap = [s \in Sku |-> {}] /\ poRaised = FALSE /\ edits = 0
      BY DEF EditInit
    <3>2. MaxEdits \in Nat
      BY EditAssumption
    <3>3. rivals \in [Sku -> Nat] /\ mishap \in [Sku -> SUBSET Mishap]
      BY <3>1
    <3>4. edits \in 0..MaxEdits
      BY <3>1, <3>2
    <3> QED
      BY <3>1, <3>3, <3>4
  <2>4. orderRow = [l \in Lines |-> orderRow[l]]
    BY <1>2
  <2>5. EditTypeOK
    BY <1>9, <2>1, <2>2, <2>3 DEF EditTypeOK, Filled, OrderRow
  <2> QED
    BY <1>9, <2>4, <2>5 DEF EditShape, Filled
<1>11. ASSUME NEW s \in Sku PROVE SkuKept(s)
  <2>1. ASSUME NEW l \in RowsOf(s)
        PROVE  /\ s \in rows /\ l = seat[s] /\ orderRow[l].confirmed = got[s]
               /\ orderRow[l].pending = asked[s] - got[s]
               /\ orderRow[l].state = "reserved" /\ ~orderRow[l].cancelled
    <3>1. l \in Lines /\ orderRow[l] # NoOrderRow /\ orderRow[l].sku = s
      BY DEF RowsOf, Filled
    <3>2. PICK x \in rows : seat[x] = l /\ orderRow[l] = NewOrderRow(x, got[x], asked[x] - got[x], "reserved")
      BY <1>6, <3>1
    <3>3. x = s
      BY <1>7, <3>1, <3>2
    <3> QED
      BY <1>7, <3>2, <3>3
  <2>2. s \in rows => RowsOf(s) # {}
    <3> SUFFICES ASSUME s \in rows PROVE seat[s] \in RowsOf(s)
      OBVIOUS
    <3>1. PICK x \in rows : /\ seat[x] = seat[s]
                            /\ orderRow[seat[s]] = NewOrderRow(x, got[x], asked[x] - got[x], "reserved")
      BY <1>3, <1>6
    <3>2. x = s
      BY <1>3, <3>1
    <3> QED
      BY <1>3, <1>7, <3>1, <3>2, RowIsNotNone DEF RowsOf, Filled
  <2>3. /\ \A l, m \in RowsOf(s) : l = m
        /\ \A l \in RowsOf(s) : ~orderRow[l].cancelled
        /\ \A l \in RowsOf(s) : owed[s] \in {0, orderRow[l].pending}
    BY <1>8, <2>1
  <2>4. RowsOf(s) = {} => Covers(s, 0, 0)
    BY <1>4, <1>8, <2>2 DEF Covers
  <2>5. \A l \in RowsOf(s) : Covers(s, HeldBy(l), TakenBy(l))
    BY <1>4, <1>8, <2>1 DEF Covers, HeldBy, TakenBy
  <2> QED
    BY <2>3, <2>4, <2>5 DEF SkuKept
<1> QED
  BY <1>10, <1>11 DEF EditInv

LEMMA EditKeeps == EditInv /\ [EditNext]_editVars => EditInv'
<1> SUFFICES ASSUME EditInv, [EditNext]_editVars PROVE EditInv'
  OBVIOUS
<1>1. 1..MaxUnits \subseteq Nat
  BY EditAssumption
<1>2. CASE UNCHANGED editVars
  <2>1. /\ UNCHANGED <<shelf, owed, rivals, edits, poRaised, mishap>> /\ orderRow' = orderRow
    BY <1>2 DEF editVars
  <2>2. EditShape' /\ \A x : RowsOf(x)' = RowsOf(x)
    BY <2>1, SameRows, ShapeFacts DEF EditInv
  <2>3. ASSUME NEW x \in Sku PROVE SkuKept(x)'
    BY <2>1, <2>2, SkuStands DEF EditInv
  <2> QED
    BY <2>2, <2>3 DEF EditInv
<1>3. ASSUME RaisesPoOnRows PROVE EditInv'
  BY <1>3, ConsumeHeldKeeps DEF RaisesPoOnRows
<1>4. ASSUME JobSettlesRows PROVE EditInv'
  BY <1>4, ConsumeHeldKeeps, ShapeFacts DEF JobSettlesRows, EditInv
<1>5. ASSUME NEW s \in Sku, DeskClosesIndent(s) \/ RivalTakes(s) \/ RivalGivesBack(s) PROVE EditInv'
  BY <1>5, DeskClosesIndentKeeps, RivalTakesKeeps, RivalGivesBackKeeps
<1>6. ASSUME NEW s \in Sku, NEW n \in 1..MaxUnits, IndentServedAnew(s, n) \/ AddsRow(s, n) PROVE EditInv'
  BY <1>1, <1>6, IndentServedAnewKeeps, AddsRowKeeps
<1>7. ASSUME NEW l \in Filled, NEW n \in 1..MaxUnits,
             IndentServed(l, n) \/ SetsIssuedQuantity(l, n) \/ SetsHeldQuantity(l, n)
      PROVE  EditInv'
  BY <1>1, <1>7, IndentServedKeeps, SetsIssuedQuantityKeeps, SetsHeldQuantityKeeps
<1>8. ASSUME NEW l \in Filled, NEW n \in 1..MaxUnits, NEW t \in Sku, RecodesLine(l, t, n) PROVE EditInv'
  BY <1>1, <1>8, RecodesLineKeeps
<1> QED
  BY <1>2, <1>3, <1>4, <1>5, <1>6, <1>7, <1>8, CancelsRowsKeeps, RemovesLineKeeps DEF EditNext

\* Edits move as many units as they move quantities: of every SKU what is booked is
\* what this booking's reserved rows and the others hold, and what is on the shelf is
\* the rest, unless a cancelled booking was edited or a line added to an issued one.
THEOREM EditsAlwaysKeepStock == EditSpec => []EditsKeepStock
<1>1. EditInv => EditsKeepStock
  <2> SUFFICES ASSUME EditInv, NEW s \in Sku, mishap[s] \cap {"cancelled", "added"} = {}
               PROVE  /\ shelf[s].booked = rivals[s] + UnitsIn(HeldOf(s))
                      /\ shelf[s].avail = OnShelf[s] - rivals[s]
                                            - UnitsIn({l \in RowsOf(s) : orderRow[l].state # "released"})
    BY DEF EditsKeepStock
  <2>1. "cancelled" \notin mishap[s] /\ "added" \notin mishap[s]
    OBVIOUS
  <2>2. rivals[s] \in Nat /\ OnShelf[s] \in Nat
    BY SkuFacts
  <2>3. CASE RowsOf(s) = {}
    <3>1. HeldOf(s) = {} /\ {l \in RowsOf(s) : orderRow[l].state # "released"} = {}
      BY <2>3 DEF HeldOf
    <3>2. shelf[s].booked = rivals[s] /\ shelf[s].avail = OnShelf[s] - rivals[s]
      BY <2>1, <2>3, OfNoRow
    <3>3. UnitsIn({}) = 0
      BY UnitsOfNone
    <3>4. /\ UnitsIn(HeldOf(s)) = 0
          /\ UnitsIn({l \in RowsOf(s) : orderRow[l].state # "released"}) = 0
      BY <3>1, <3>3
    <3> QED
      BY <2>2, <3>2, <3>4
  <2>4. CASE RowsOf(s) # {}
    <3>1. PICK l \in Filled : orderRow[l].sku = s
      BY <2>4 DEF RowsOf
    <3>2. /\ RowsOf(s) = {l}
          /\ shelf[s].booked = rivals[s] + HeldBy(l)
          /\ shelf[s].avail = OnShelf[s] - rivals[s] - TakenBy(l)
      BY <2>1, <3>1, OfTheRow
    <3>3. UnitsIn({l}) = orderRow[l].confirmed /\ UnitsIn({}) = 0
      BY UnitsOfOne, UnitsOfNone DEF EditInv
    <3>4. HeldOf(s) = IF orderRow[l].state = "reserved" THEN {l} ELSE {}
      BY <3>2 DEF HeldOf
    <3>5. {x \in RowsOf(s) : orderRow[x].state # "released"} = IF orderRow[l].state = "released" THEN {} ELSE {l}
      BY <3>2
    <3>6. UnitsIn(HeldOf(s)) = HeldBy(l)
      BY <3>3, <3>4 DEF HeldBy
    <3>7. UnitsIn({x \in RowsOf(s) : orderRow[x].state # "released"}) = TakenBy(l)
      BY <3>3, <3>5 DEF TakenBy
    <3> QED
      BY <3>2, <3>6, <3>7
  <2> QED
    BY <2>3, <2>4
<1> QED
  BY <1>1, EditBegins, EditKeeps, PTL DEF EditSpec

\* What is still owed of a row's SKU is what the row lacks, or nothing, unless its
\* line was detached from the indent or one of the accidents happened.
THEOREM OwedAlwaysShortfall == EditSpec => []OwedIsShortfall
<1>1. EditInv => OwedIsShortfall
  <2> SUFFICES ASSUME EditInv, NEW l \in Filled, mishap[orderRow[l].sku] = {}
               PROVE  owed[orderRow[l].sku] \in {0, orderRow[l].pending}
    BY DEF OwedIsShortfall
  <2> QED
    BY OfTheRow
<1> QED
  BY <1>1, EditBegins, EditKeeps, PTL DEF EditSpec
\* The rows, the counters, the open indents and the histories of a booking that is
\* edited hold what they may (the rows of runUpdateItems).
THEOREM EditsTyped == EditSpec => []EditTypeOK
<1>1. EditInv => EditTypeOK
  BY DEF EditInv, EditShape
<1> QED
  BY <1>1, EditBegins, EditKeeps, PTL DEF EditSpec

-----------------------------------------------------------------------------
(* The copies, the list and the edits, side by side.                       *)

\* What the three do together is, for each of them, what it does alone.
LEMMA DeskRunsEach == DeskSpec => ProjectionSpec /\ ListSpec /\ EditSpec
<1>1. DeskInit => ProjectionInit /\ ListInit /\ EditInit
  BY DEF DeskInit
<1>2. [DeskNext]_<<projectionVars, listVars, editVars, part>> =>
        [ProjectionNext]_projectionVars /\ [ListNext]_listVars /\ [EditNext]_editVars
  BY DEF DeskNext
<1> QED
  BY <1>1, <1>2, PTL DEF DeskSpec, ProjectionSpec, ListSpec, EditSpec

\* The copies of the stock, the list and the booking that is edited hold what they may.
THEOREM DeskTyped == DeskSpec => []DeskTypeOK
<1>1. ProjectionTypeOK /\ ListTypeOK /\ EditTypeOK => DeskTypeOK
  BY DEF DeskTypeOK
<1> QED
  BY <1>1, DeskRunsEach, CopiesTyped, ListTyped, EditsTyped, PTL
=================================================================================
