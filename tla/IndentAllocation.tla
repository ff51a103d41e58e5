-------------------------- MODULE IndentAllocation --------------------------
(***************************************************************************)
(* How stock that arrives, or is put on sale again, reaches the open       *)
(* indents (src/backend/modules/inventory/indentAvailability.service.js    *)
(* and indentAssignment.service.js).                                       *)
(*                                                                         *)
(* A pass lists the open indents, reads the rows of the bookings they      *)
(* belong to, decides what each gets, and then works booking by booking:   *)
(* it claims an indent, takes the stock, and when all items of a booking   *)
(* are in hand writes them onto its rows.  None of this is a transaction:  *)
(* every write is a step of its own, a failure is undone write by write,   *)
(* and several passes, requests and jobs run at once.                      *)
(*                                                                         *)
(* An indent belongs to the booking it was raised with (PI-x to BO-x) and  *)
(* goes back onto it; where that booking was cancelled, or there is none,  *)
(* a fresh booking takes the whole indent.                                 *)
(***************************************************************************)
EXTENDS Integers, FiniteSets, FiniteSetsExt, StockLedger

CONSTANTS
  Sku,
  Indent,       \* reservations that became indents, numbered by age
  Booking,      \* the bookings indents were raised with
  Fresh,        \* booking numbers bookForCustomer may draw
  Customer,
  NoBooking,
  SkuOf,        \* SkuOf[r]:      the SKU indent r waits for
  CustomerOf,   \* CustomerOf[r]: whose indent it is
  Parent,       \* Parent[r]:     the booking it was raised with
  Asked,        \* Asked[r]:      units it waits for at the start
  Confirmed,    \* Confirmed[r]:  units its booking got of it at once (0: no row)
  Stock,        \* Stock[s]:      units free at the start
  Worker,       \* passes and assignments that may run at once
  RowId,        \* BOUND: order row documents, numbered as inserted
  MaxQty,       \* BOUND: the largest quantity taken at once
  MaxArrived,   \* BOUND: units that arrive of each SKU
  MaxElsewhere, \* BOUND: units of each SKU other bookings hold
  Faults        \* BOUND: the failures that may happen, each once

ASSUME AllocationAssumption ==
  /\ IsFiniteSet(Indent) /\ Indent \subseteq Nat \ {0}
  /\ IsFiniteSet(RowId) /\ RowId \subseteq Nat \ {0}
  /\ IsFiniteSet(Worker)
  /\ Booking \cap Fresh = {} /\ NoBooking \notin Booking \cup Fresh
  /\ Parent \in [Indent -> Booking \cup {NoBooking}]
  /\ SkuOf \in [Indent -> Sku] /\ CustomerOf \in [Indent -> Customer]
  /\ MaxQty \in Nat /\ MaxArrived \in Nat /\ MaxElsewhere \in Nat
  /\ Asked \in [Indent -> 1..MaxQty] /\ Confirmed \in [Indent -> Nat]
  /\ \A r \in Indent : Parent[r] = NoBooking => Confirmed[r] = 0
  /\ 1..Cardinality({r \in Indent : Confirmed[r] > 0}) \subseteq RowId   \* room for their lines
  /\ \A r1, r2 \in Indent :      \* a booking has one line per SKU
       Parent[r1] = Parent[r2] /\ SkuOf[r1] = SkuOf[r2] => r1 = r2 \/ Parent[r1] = NoBooking
  /\ Stock \in [Sku -> Nat]
  /\ Faults \subseteq {"torn", "died"}

VARIABLES
  stock,      \* stock[s]:     the product's counters
  indent,     \* indent[r]:    the reservation document
  row,        \* row[d]:       the order row document d
  drawn,      \* booking numbers bookForCustomer has drawn
  elsewhere,  \* elsewhere[s]: units held by bookings that have no indent
  arrived,    \* arrived[s]:   units that have come in
  pass,       \* pass[w]:      what worker w is doing
  gaps        \* history: which of the events the code has no answer to have happened

vars == <<stock, indent, row, drawn, elsewhere, arrived, pass, gaps>>

OpenStatus == {"Pending", "Partially Confirmed"}
IndentDoc == [status : OpenStatus \cup {"Confirmed", "Cancelled"}, qty : Nat]

\* An order row, live or released (its status is then Cancelled).  It stands on
\* booking b for the SKU of indent r.  `inward' is the part of
\* its quantity that came from r: its inward allocations, or the whole of a row
\* of a fresh booking.
RowDoc ==
  [b : Booking \cup Fresh \cup {NoBooking}, r : Indent \cup {0}, qty : Nat, inward : Nat,
   stock : {"none", "reserved", "consumed", "released"}]
NoRow == [b |-> NoBooking, r |-> 0, qty |-> 0, inward |-> 0, stock |-> "none"]

\* What a pass knows of an indent: the document it read, the units it means to
\* take (0: none), the row they go to (0: a new one), and what it has made of the
\* booking's rows.
Item ==
  [doc : IndentDoc, take : 0..MaxQty, row : RowId \cup {0}, consumed : BOOLEAN,
   fresh : BOOLEAN]
NoItem == [doc |-> [status |-> "Cancelled", qty |-> 0], take |-> 0, row |-> 0,
           consumed |-> FALSE, fresh |-> FALSE]

\* A pass: `item' what it read and decided, `to' the booking of the job it is at,
\* `todo' the job's indents still to do, `hand' those whose units it has taken.
PassState ==
  [pc : {"idle", "listed", "assigning", "ready", "job", "claimed", "refused", "unwind", "unwound"},
   item : [Indent -> Item], to : Booking \cup Fresh \cup {NoBooking},
   todo : SUBSET Indent, hand : SUBSET Indent, at : Indent \cup {0}]
Idle == [pc |-> "idle", item |-> [r \in Indent |-> NoItem], to |-> NoBooking,
         todo |-> {}, hand |-> {}, at |-> 0]

Open(r) == indent[r].status \in OpenStatus

\* The sum of f over S, written as the size of a set of units (as in BookingStock,
\* so that the theorems about finite sets apply).
Total(f(_), S) == Cardinality(UNION {{x} \X (1..f(x)) : x \in S})

-----------------------------------------------------------------------------
(* Reading.                                                                *)

LiveRows(b) == {d \in RowId : row[d].b = b /\ row[d].stock \in {"reserved", "consumed"}}
AnyRows(b) == {d \in RowId : row[d].b = b}
LineRows(r) == {d \in LiveRows(Parent[r]) : row[d].r = r}

\* allocationModeFor is null: no booking to go back to, or every row of it cancelled.
NeedsFresh(r) ==
  \/ Parent[r] = NoBooking
  \/ AnyRows(Parent[r]) # {} /\ LiveRows(Parent[r]) = {}

\* processAvailableIndents lists the open indents of the SKUs it was called for;
\* assignToIndent reads one.
Lists(w) ==
  /\ pass[w].pc = "idle"
  /\ \E skus \in SUBSET Sku :
       LET listed == {r \in Indent : SkuOf[r] \in skus /\ Open(r)}
       IN  /\ listed # {}
           /\ pass' = [pass EXCEPT ![w] =
                [@ EXCEPT !.pc = "listed",
                          !.item = [r \in Indent |->
                             IF r \in listed THEN [NoItem EXCEPT !.doc = indent[r]] ELSE NoItem]]]
  /\ UNCHANGED <<stock, indent, row, drawn, elsewhere, arrived, gaps>>

ReadsIndent(w, r) ==
  /\ pass[w].pc = "idle"
  /\ Open(r)
  /\ pass' = [pass EXCEPT ![w] =
       [@ EXCEPT !.pc = "assigning", !.item[r] = [NoItem EXCEPT !.doc = indent[r]]]]
  /\ UNCHANGED <<stock, indent, row, drawn, elsewhere, arrived, gaps>>

\* The units n of each indent are what a walk over the listed indents, oldest
\* first, can shortlist: an indent takes all it waits for, or what is left of the
\* SKU - then nothing is left for a younger one.  A fresh booking takes all or
\* nothing.  An indent may be passed over (nothing left, a date still to come, the
\* MSIL supply check).  What is left is read from the balances, which trail the
\* counters, so it may be any quantity.
Shortlists(item, n) ==
  \A r \in Indent :
    /\ n[r] <= item[r].doc.qty
    /\ n[r] > 0 /\ NeedsFresh(r) => n[r] = item[r].doc.qty
    /\ n[r] > 0 /\ n[r] < item[r].doc.qty =>
         \A later \in Indent : later > r /\ SkuOf[later] = SkuOf[r] => n[later] = 0

\* What may be decided for indent r, to get n units: the row and the stock state
\* are those of its line's live row, or else the stock state is that of some live
\* row of the booking (rows come back in no promised order).
Decisions(r, doc, n) ==
  LET item(d, consumed) ==
        [doc |-> doc, take |-> n, row |-> d, consumed |-> consumed, fresh |-> NeedsFresh(r)]
      isConsumed(d) == row[d].stock = "consumed"
  IN  CASE n = 0 -> {NoItem}
        [] n > 0 /\ (NeedsFresh(r) \/ LiveRows(Parent[r]) = {}) -> {item(0, FALSE)}
        [] n > 0 /\ ~NeedsFresh(r) /\ LineRows(r) # {} -> {item(d, isConsumed(d)) : d \in LineRows(r)}
        [] OTHER -> {item(0, isConsumed(d)) : d \in LiveRows(Parent[r])}

\* The pass w goes on with n units for each indent, or stops when there are none.
Decides(w, n) ==
  LET read == pass[w].item
      options == [r \in Indent |-> Decisions(r, read[r].doc, n[r])]
  IN  \E item \in [Indent -> UNION {options[r] : r \in Indent}] :
        /\ \A r \in Indent : item[r] \in options[r]
        /\ pass' = [pass EXCEPT ![w] =
             IF \E r \in Indent : n[r] > 0
             THEN [Idle EXCEPT !.pc = "ready", !.item = item] ELSE Idle]

PassDecides(w) ==
  /\ pass[w].pc = "listed"
  /\ \E n \in [Indent -> 0..MaxQty] : Shortlists(pass[w].item, n) /\ Decides(w, n)
  /\ UNCHANGED <<stock, indent, row, drawn, elsewhere, arrived, gaps>>

\* assignToIndent: refused beyond what the indent waits for or what is free, and in
\* part where only a fresh booking can take it; refusals end the request.
AssignmentDecides(w) ==
  /\ pass[w].pc = "assigning"
  /\ \E n \in [Indent -> 0..MaxQty] :
       /\ \A r \in Indent :
            n[r] > 0 => /\ n[r] <= pass[w].item[r].doc.qty
                        /\ CanTake(stock[SkuOf[r]], n[r])
                        /\ NeedsFresh(r) => n[r] = pass[w].item[r].doc.qty
       /\ Decides(w, n)
  /\ UNCHANGED <<stock, indent, row, drawn, elsewhere, arrived, gaps>>

-----------------------------------------------------------------------------
(* A job: allocateToBooking or bookForCustomer.                            *)

\* One job per booking to go back to, and one fresh booking per customer, whose
\* number is drawn first.
JobStarts(w) ==
  LET wanted == {r \in Indent : pass[w].item[r].take > 0}
      start(to, items) ==
        pass' = [pass EXCEPT ![w] = [@ EXCEPT !.pc = "job", !.to = to, !.todo = items]]
  IN  /\ pass[w].pc = "ready"
      /\ \/ \E b \in {Parent[r] : r \in {x \in wanted : ~pass[w].item[x].fresh}} :
              /\ start(b, {r \in wanted : ~pass[w].item[r].fresh /\ Parent[r] = b})
              /\ UNCHANGED drawn
         \/ \E c \in {CustomerOf[r] : r \in {x \in wanted : pass[w].item[x].fresh}},
               b \in Fresh \ drawn :
              /\ start(b, {r \in wanted : pass[w].item[r].fresh /\ CustomerOf[r] = c})
              /\ drawn' = drawn \cup {b}
      /\ UNCHANGED <<stock, indent, row, elsewhere, arrived, gaps>>

\* Where a pass goes once a job has nothing left to do: to the next, or to its end.
Onwards(p) ==
  IF p.pc = "job" /\ p.todo = {} /\ p.hand = {}
  THEN IF \E r \in Indent : p.item[r].take > 0
       THEN [p EXCEPT !.pc = "ready", !.to = NoBooking, !.at = 0] ELSE Idle
  ELSE p

\* Mutant: the claim does not look at the quantity it read.
ClaimableByStatus(r, item) == Open(r)

\* The filter of the claim.  bookForCustomer's has the status only;
\* claimIndentQuantity's the quantity as well.
Claimable(r, item) == Open(r) /\ (item.fresh \/ indent[r].qty = item.doc.qty)

\* What a claim leaves: all of the indent closes it, a part stays open for the rest.
AfterClaim(doc, item) ==
  IF item.take >= item.doc.qty
  THEN [doc EXCEPT !.status = "Confirmed"]
  ELSE [status |-> "Partially Confirmed", qty |-> doc.qty - item.take]

\* A job does the oldest of its indents first.
Oldest(S) == {r \in S : \A later \in S : r <= later}

\* The next item of the job.  A claim that matches nothing skips it.
Claims(w) ==
  LET p == pass[w]
  IN  /\ p.pc = "job"
      /\ \E r \in Oldest(p.todo) :
           IF Claimable(r, p.item[r])
           THEN /\ indent' = [indent EXCEPT ![r] = AfterClaim(@, p.item[r])]
                /\ pass' = [pass EXCEPT ![w] =
                     [p EXCEPT !.pc = "claimed", !.at = r, !.todo = @ \ {r}]]
                /\ gaps' = gaps \cup (IF p.item[r].fresh /\ indent[r].qty # p.item[r].doc.qty
                                    THEN {"outdated"} ELSE {})
           ELSE /\ pass' = [pass EXCEPT ![w] =
                     Onwards([p EXCEPT !.todo = @ \ {r}, !.item[r] = NoItem])]
                /\ UNCHANGED <<indent, gaps>>
      /\ UNCHANGED <<stock, row, drawn, elsewhere, arrived>>

\* Mutant: the stock is taken on the strength of the shortlist.
TakeableAsListed(r, item) == TRUE

\* The stock write's own filter.
Takeable(r, item) == CanTake(stock[SkuOf[r]], item.take)

\* Mutant: units are issued at once whatever the booking's stock state.
TakenOutright(p, item) == IssueMore(p, item.take)

\* What the counters become when the units are taken, and when they are given back.
Taken(p, item) == IF item.consumed THEN IssueMore(p, item.take) ELSE Reserve(p, item.take)
GivenBack(p, item) == IF item.consumed THEN TakeBack(p, item.take) ELSE Release(p, item.take)

\* The stock for the claimed item: issued outright where the booking's stock was
\* seen consumed, reserved otherwise; refused when it went elsewhere meanwhile.
TakesStock(w) ==
  LET p == pass[w]
      item == p.item[p.at]
      s == SkuOf[p.at]
  IN  /\ p.pc = "claimed"
      /\ IF Takeable(p.at, item)
         THEN /\ stock' = [stock EXCEPT ![s] = Taken(@, item)]
              /\ pass' = [pass EXCEPT ![w] =
                   [p EXCEPT !.pc = "job", !.at = 0, !.hand = @ \cup {p.at}]]
         ELSE /\ pass' = [pass EXCEPT ![w] = [p EXCEPT !.pc = "refused"]]
              /\ UNCHANGED stock
      /\ UNCHANGED <<indent, row, drawn, elsewhere, arrived, gaps>>

\* The undo of a claim: what was read is written back, whatever the document has
\* become (bookForCustomer writes back the status alone).
Restored(doc, item) ==
  IF item.fresh THEN [doc EXCEPT !.status = item.doc.status] ELSE item.doc

\* Somebody has written the document since the claim.
Overtaken(r, item) == indent[r] # AfterClaim(item.doc, item)

RestoresIndent(w) ==
  LET p == pass[w]
      item == p.item[p.at]
  IN  /\ p.pc \in {"refused", "unwound"}
      /\ indent' = [indent EXCEPT ![p.at] = Restored(@, item)]
      /\ gaps' = gaps \cup (IF Overtaken(p.at, item) THEN {"overwritten"} ELSE {})
      /\ pass' = [pass EXCEPT ![w] =
           Onwards([p EXCEPT !.pc = IF p.pc = "unwound" /\ p.hand # {} THEN "unwind" ELSE "job",
                             !.at = 0, !.item[p.at] = NoItem])]
      /\ UNCHANGED <<stock, row, drawn, elsewhere, arrived>>

\* Some pass means to add units to row d.
Targeted(d) == \E w \in Worker, r \in Indent : pass[w].item[r].row = d

\* The rows with the units of the indents R written onto booking b: added to the
\* row they are for, or on new rows, numbered from the first free document.  The
\* row is found by its id alone; one that is gone takes nothing, and its id is
\* not handed out again while anyone may still look for it.
NewRows(R, item) == {r \in R : item[r].row = 0}
FreeTail == {d \in RowId : \A e \in RowId : e >= d => row[e] = NoRow /\ ~Targeted(e)}
FirstFree == Min(FreeTail)

\* Mutant: a new line always starts reserved.
InsertedReserved(b, r, item) ==
  [b |-> b, r |-> r, qty |-> item.take, inward |-> item.take, stock |-> "reserved"]

Inserted(b, r, item) ==
  [b |-> b, r |-> r, qty |-> item.take, inward |-> item.take,
   stock |-> IF item.consumed THEN "consumed" ELSE "reserved"]

\* A row with n more units from its indent, or fewer where n is negative.
Grown(d, n) == [d EXCEPT !.qty = @ + n, !.inward = @ + n]

WritesRows(b, R, item) ==
  LET place(r) == FirstFree + Cardinality({x \in NewRows(R, item) : x < r})
  IN  /\ NewRows(R, item) # {} =>
           /\ FreeTail # {}
           /\ \A r \in NewRows(R, item) : place(r) \in RowId
      /\ row' = [d \in RowId |->
           IF \E r \in NewRows(R, item) : place(r) = d
           THEN LET r == CHOOSE x \in NewRows(R, item) : place(x) = d
                IN  Inserted(b, r, item[r])
           ELSE IF row[d] # NoRow /\ \E r \in R : item[r].row = d
           THEN LET r == CHOOSE x \in R : item[x].row = d
                IN  Grown(row[d], item[r].take)
           ELSE row[d]]

\* The bulkWrite or insertMany that ends the job.
JobWrites(w) ==
  LET p == pass[w]
  IN  /\ p.pc = "job" /\ p.todo = {} /\ p.hand # {}
      /\ WritesRows(p.to, p.hand, p.item)
      /\ pass' = [pass EXCEPT ![w] =
           Onwards([p EXCEPT !.hand = {},
                      !.item = [r \in Indent |-> IF r \in p.hand THEN NoItem ELSE p.item[r]]])]
      /\ UNCHANGED <<stock, indent, drawn, elsewhere, arrived, gaps>>

\* Mutant: a failed write that forgets what the job holds.
WriteFailsUndone(w) ==
  LET p == pass[w]
  IN  /\ p.pc = "job" /\ p.todo = {} /\ p.hand # {}
      /\ pass' = [pass EXCEPT ![w] =
           Onwards([p EXCEPT !.hand = {},
                      !.item = [r \in Indent |-> IF r \in p.hand THEN NoItem ELSE p.item[r]]])]
      /\ UNCHANGED <<stock, indent, row, drawn, elsewhere, arrived, gaps>>

\* It is ordered and not a transaction: when it fails, the first writes may have
\* been applied, and everything in hand is then undone all the same.
WriteFails(w) ==
  LET p == pass[w]
  IN  /\ p.pc = "job" /\ p.todo = {} /\ p.hand # {}
      /\ pass' = [pass EXCEPT ![w] = [p EXCEPT !.pc = "unwind"]]
      /\ \/ UNCHANGED <<row, gaps>>
         \/ /\ "torn" \in Faults \ gaps
            /\ gaps' = gaps \cup {"torn"}
            /\ \E last \in p.hand : WritesRows(p.to, {r \in p.hand : r <= last}, p.item)
      /\ UNCHANGED <<stock, indent, drawn, elsewhere, arrived>>

\* One rollback gives its units back, then restores its indent.
Unwinds(w) ==
  LET p == pass[w]
  IN  /\ p.pc = "unwind"
      /\ \E r \in Oldest(p.hand) :
           /\ stock' = [stock EXCEPT ![SkuOf[r]] = GivenBack(@, p.item[r])]
           /\ pass' = [pass EXCEPT ![w] =
                [p EXCEPT !.pc = "unwound", !.at = r, !.hand = @ \ {r}]]
      /\ UNCHANGED <<indent, row, drawn, elsewhere, arrived, gaps>>

\* The process dies with the pass: nothing of it is undone.
PassDies(w) ==
  /\ pass[w].pc # "idle"
  /\ IF pass[w].hand # {} \/ pass[w].at # 0
     THEN "died" \in Faults \ gaps /\ gaps' = gaps \cup {"died"}
     ELSE UNCHANGED gaps
  /\ pass' = [pass EXCEPT ![w] = Idle]
  /\ UNCHANGED <<stock, indent, row, drawn, elsewhere, arrived>>

-----------------------------------------------------------------------------
(* What else happens to indents, rows and stock.                           *)

Quantity(L, s) == Total(LAMBDA d : row[d].qty, {d \in L : SkuOf[row[d].r] = s})
RowsIn(state) == {d \in RowId : row[d].stock = state}

\* Some pass has decided on what it read of booking b and has not written yet.
Awaited(b) ==
  \E w \in Worker, r \in Indent :
    pass[w].item[r].take > 0 /\ ~pass[w].item[r].fresh /\ Parent[r] = b
Crossed(b) == IF Awaited(b) THEN {"crossed"} ELSE {}

\* settleBooking 'consume': a PO is raised, or the job finds one.
PoConsumes(b) ==
  LET lines == {d \in RowsIn("reserved") : row[d].b = b}
  IN  /\ lines # {}
      /\ row' = [d \in RowId |-> IF d \in lines THEN [row[d] EXCEPT !.stock = "consumed"] ELSE row[d]]
      /\ stock' = [s \in Sku |-> Consume(stock[s], Quantity(lines, s))]
      /\ gaps' = gaps \cup Crossed(b)
      /\ UNCHANGED <<indent, drawn, elsewhere, arrived, pass>>

\* settleBooking 'release': the booking is cancelled or expires, its open indents
\* with it.
BookingCancelled(b) ==
  LET held == {d \in RowsIn("reserved") : row[d].b = b}
      sold == {d \in RowsIn("consumed") : row[d].b = b}
      closed == {r \in Indent : Parent[r] = b /\ Open(r)}
  IN  /\ held \cup sold # {}
      /\ row' = [d \in RowId |->
                   IF d \in held \cup sold THEN [row[d] EXCEPT !.stock = "released"] ELSE row[d]]
      /\ stock' = [s \in Sku |-> TakeBack(Release(stock[s], Quantity(held, s)), Quantity(sold, s))]
      /\ indent' = [r \in Indent |->
                      IF r \in closed THEN [indent[r] EXCEPT !.status = "Cancelled"] ELSE indent[r]]
      /\ gaps' = gaps \cup Crossed(b) \cup (IF closed # {} THEN {"closed"} ELSE {})
      /\ UNCHANGED <<drawn, elsewhere, arrived, pass>>

\* cancelIndent: the desk drops an indent the supply check holds.
DeskCancelsIndent(r) ==
  /\ Open(r)
  /\ indent' = [indent EXCEPT ![r].status = "Cancelled"]
  /\ gaps' = gaps \cup {"closed"}
  /\ UNCHANGED <<stock, row, drawn, elsewhere, arrived, pass>>

\* The indent r waits again for q units that a line of n units gave up.
Reopened(r, q, n) ==
  IF Open(r) THEN [indent[r] EXCEPT !.qty = @ + q]
  ELSE [status |-> IF n > q THEN "Partially Confirmed" ELSE "Pending", qty |-> q]

\* Mutant: only the line's confirmed quantity is looked at.
HoldsQuantity(d, q) == row[d].stock \in {"reserved", "consumed"} /\ q <= row[d].qty

\* Row d is live and has q units of inward allocations to give up.
HoldsInward(d, q) == row[d].stock \in {"reserved", "consumed"} /\ q <= row[d].inward

\* cancelInwardAllocation: units allocated to row d go back to where they came
\* from, in one transaction.  An indent cancelled since stays cancelled.
AllocationCancelled(d, q) ==
  LET r == row[d].r
      s == SkuOf[r]
  IN  /\ HoldsInward(d, q) /\ row[d].b \in Booking
      /\ row' = [row EXCEPT ![d] = Grown(@, -q)]
      /\ stock' = [stock EXCEPT ![s] = IF row[d].stock = "consumed" THEN TakeBack(@, q) ELSE Release(@, q)]
      /\ indent' = IF indent[r].status = "Cancelled" THEN indent
                   ELSE [indent EXCEPT ![r] = Reopened(r, q, row[d].qty)]
      /\ UNCHANGED <<drawn, elsewhere, arrived, pass, gaps>>

\* reassignAllocation: only while the booking has no PO; a line left with nothing is
\* deleted, unless it keeps the record of a cancelled allocation; any indent is
\* reopened.  The indent the units are meant for was read before the transaction
\* and may be anything by now.  The assignment to it that follows, and the one back
\* if that is refused, are manual assignments.
AllocationMoved(d, q) ==
  LET r == row[d].r
      s == SkuOf[r]
  IN  /\ HoldsInward(d, q) /\ row[d].b \in Booking
      /\ \A e \in LiveRows(row[d].b) : row[e].stock = "reserved"
      /\ \E other \in Indent \ {r} : SkuOf[other] = s
      /\ \E gone \in BOOLEAN :
           /\ gone => q = row[d].qty /\ q = row[d].inward
           /\ row' = [row EXCEPT ![d] = IF gone THEN NoRow
                                        ELSE Grown(@, -q)]
           /\ gaps' = gaps \cup (IF gone /\ Targeted(d) THEN {"deleted"} ELSE {})
      /\ stock' = [stock EXCEPT ![s] = Release(@, q)]
      /\ indent' = [indent EXCEPT ![r] = Reopened(r, q, row[d].qty)]
      /\ UNCHANGED <<drawn, elsewhere, arrived, pass>>

\* Bookings that have no indent take and give back units.
OtherBooks(s) ==
  /\ CanTake(stock[s], 1) /\ elsewhere[s] < MaxElsewhere
  /\ stock' = [stock EXCEPT ![s] = Reserve(@, 1)]
  /\ elsewhere' = [elsewhere EXCEPT ![s] = @ + 1]
  /\ UNCHANGED <<indent, row, drawn, arrived, pass, gaps>>

OtherReleases(s) ==
  /\ elsewhere[s] > 0
  /\ stock' = [stock EXCEPT ![s] = Release(@, 1)]
  /\ elsewhere' = [elsewhere EXCEPT ![s] = @ - 1]
  /\ UNCHANGED <<indent, row, drawn, arrived, pass, gaps>>

\* A material inward or an upward adjustment.
Arrives(s) ==
  /\ arrived[s] < MaxArrived
  /\ arrived' = [arrived EXCEPT ![s] = @ + 1]
  /\ stock' = [stock EXCEPT ![s] =
       [avail |-> stock[s].avail + 1, booked |-> stock[s].booked, total |-> stock[s].total + 1]]
  /\ UNCHANGED <<indent, row, drawn, elsewhere, pass, gaps>>

-----------------------------------------------------------------------------
\* The bookings as confirmation left them: what they got is reserved on their
\* lines, the rest is on their indents.
Supplied == {r \in Indent : Confirmed[r] > 0}
Init ==
  /\ indent = [r \in Indent |->
       [status |-> IF r \in Supplied THEN "Partially Confirmed" ELSE "Pending", qty |-> Asked[r]]]
  /\ row = [d \in RowId |->
       IF \E r \in Supplied : Cardinality({x \in Supplied : x <= r}) = d
       THEN LET r == CHOOSE x \in Supplied : Cardinality({y \in Supplied : y <= x}) = d
            IN  [b |-> Parent[r], r |-> r, qty |-> Confirmed[r], inward |-> 0, stock |-> "reserved"]
       ELSE NoRow]
  /\ stock = [s \in Sku |->
       LET sold == Total(LAMBDA r : Confirmed[r], {r \in Supplied : SkuOf[r] = s})
       IN  [avail |-> Stock[s], booked |-> sold, total |-> Stock[s] + sold]]
  /\ drawn = {}
  /\ elsewhere = [s \in Sku |-> 0]
  /\ arrived = [s \in Sku |-> 0]
  /\ pass = [w \in Worker |-> Idle]
  /\ gaps = {}

PassStep(w) ==
  \/ Lists(w)
  \/ PassDecides(w)
  \/ \E r \in Indent : ReadsIndent(w, r)
  \/ AssignmentDecides(w)
  \/ JobStarts(w)
  \/ Claims(w)
  \/ TakesStock(w)
  \/ RestoresIndent(w)
  \/ JobWrites(w)
  \/ WriteFails(w)
  \/ Unwinds(w)
  \/ PassDies(w)

BookingStep ==
  \/ \E b \in Booking \cup Fresh : PoConsumes(b) \/ BookingCancelled(b)
  \/ \E r \in Indent : DeskCancelsIndent(r)
  \/ \E d \in RowId, q \in 1..MaxQty : AllocationCancelled(d, q) \/ AllocationMoved(d, q)

StockStep == \E s \in Sku : OtherBooks(s) \/ OtherReleases(s) \/ Arrives(s)

Next == (\E w \in Worker : PassStep(w)) \/ BookingStep \/ StockStep

Spec == Init /\ [][Next]_vars

-----------------------------------------------------------------------------
(* Properties.                                                             *)

TypeOK ==
  /\ stock \in [Sku -> Counters]
  /\ indent \in [Indent -> IndentDoc]
  /\ row \in [RowId -> RowDoc]
  /\ drawn \subseteq Fresh
  /\ elsewhere \in [Sku -> 0..MaxElsewhere]
  /\ arrived \in [Sku -> 0..MaxArrived]
  /\ pass \in [Worker -> PassState]
  /\ gaps \subseteq {"torn", "died", "crossed", "deleted", "outdated", "overwritten", "closed"}

\* The units of SKU s that passes have taken and not yet written onto a row.
InHand(s, consumed) ==
  Total(LAMBDA wr : pass[wr[1]].item[wr[2]].take,
    {wr \in Worker \X Indent : /\ wr[2] \in pass[wr[1]].hand
                               /\ SkuOf[wr[2]] = s
                               /\ pass[wr[1]].item[wr[2]].consumed = consumed})

\* No pass, assignment or undo ever takes a unit that is not on the shelf, even
\* though all of them decide on balances read earlier.
NoOversell == \A s \in Sku : stock[s].avail >= 0

\* Every unit a reserved line or a running pass counts on is booked, and the
\* counters balance.  Only a write that was half applied and then undone in full
\* leaves a line with units it does not have.
HeldIsBacked ==
  "torn" \notin gaps =>
    \A s \in Sku :
      /\ Balanced(stock[s])
      /\ stock[s].booked >= Quantity(RowsIn("reserved"), s) + InHand(s, FALSE)

\* The units of SKU s there were at the start.
Opening(s) == Stock[s] + Total(LAMBDA r : Confirmed[r], {r \in Supplied : SkuOf[r] = s})

\* Units are where the lines say: booked ones on reserved lines, in a pass's hand
\* or with other bookings, issued ones on consumed lines or in a hand.  It fails
\* only after a booking was settled, or a line deleted, under a pass that had read
\* it, a write was half applied, or a pass died with units in hand.
UnitsFollowLines ==
  gaps \cap {"crossed", "deleted", "torn", "died"} = {} =>
    \A s \in Sku :
      /\ stock[s].booked =
           Quantity(RowsIn("reserved"), s) + InHand(s, FALSE) + elsewhere[s]
      /\ stock[s].avail + stock[s].booked + Quantity(RowsIn("consumed"), s) + InHand(s, TRUE)
           = Opening(s) + arrived[s]

\* The units of indent r that its claims have taken off it and not yet written.
Claimed(r) ==
  Total(LAMBDA w : pass[w].item[r].take,
                {w \in Worker : r \in pass[w].hand \/ pass[w].at = r})

\* What an indent still waits for, what lines got from it, and what passes hold
\* for it are together what it asked for - never more, and never less unless it
\* was closed.  It fails only after an undo wrote over a later write of the
\* document, a fresh booking claimed an indent whose quantity had changed, a line
\* was deleted under a pass, a write was half applied, or a pass died with claims.
Received(r) == Total(LAMBDA d : row[d].inward, {d \in RowId : row[d].r = r})
Owed(r) == IF Open(r) THEN indent[r].qty ELSE 0
OwedOnce ==
  gaps \cap {"deleted", "outdated", "overwritten", "torn", "died"} = {} =>
    \A r \in Indent :
      LET promised == Owed(r) + Received(r) + Claimed(r)
      IN  promised <= Asked[r] /\ ("closed" \notin gaps => promised = Asked[r])

\* "Stock follows the line: reserved on a booking still awaiting its PO, issued
\* outright on one whose PO has already consumed its stock" (allocateToBooking):
\* short of a failure, units are booked exactly for reserved lines.
StockFollowsLine ==
  gaps \cap {"torn", "died"} = {} =>
    \A s \in Sku :
      stock[s].booked = Quantity(RowsIn("reserved"), s) + InHand(s, FALSE) + elsewhere[s]

\* "The indent's own quantity is the live remainder" (claimIndentQuantity): short
\* of a failure, lines and passes never have more of an indent than it asked for,
\* less what it still waits for.
LiveRemainder ==
  gaps \cap {"torn", "died"} = {} =>
    \A r \in Indent : Owed(r) + Received(r) + Claimed(r) <= Asked[r]
=============================================================================
