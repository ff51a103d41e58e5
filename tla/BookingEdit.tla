------------------------------- MODULE BookingEdit -------------------------------
(***************************************************************************)
(* sales.controller.js, runUpdateItems: the desk edits the lines of a      *)
(* booking that waits for its PO, has it, or has been cancelled, while     *)
(* stock arriving serves its indents and other bookings share the shelf.   *)
(*                                                                         *)
(* Every action is one transaction, but for the serving of an indent, of   *)
(* whose writes IndentAllocation tells.  A request that makes several      *)
(* changes is a series of these: a step that is refused aborts them all,   *)
(* and what the series leads to the steps lead to.                         *)
(***************************************************************************)
EXTENDS StockLedger, FiniteSetsExt

CONSTANTS
  Sku,
  Lines,        \* BOUND: the line sequence numbers, 1..n
  OnShelf,      \* OnShelf[s]: units on hand before the booking
  Wanted,       \* what the booking may ask for, of each SKU
  MaxUnits,     \* BOUND: the quantity of a line
  MaxEdits,     \* BOUND: edits
  MayOverrideLock

ASSUME EditAssumption ==
  /\ IsFiniteSet(Lines) /\ Lines = 1..Cardinality(Lines)
  /\ OnShelf \in [Sku -> Nat]
  /\ Wanted \subseteq [Sku -> Nat]
  /\ MaxUnits \in Nat /\ MaxEdits \in Nat
  /\ MayOverrideLock \in BOOLEAN

VARIABLES
  shelf,    \* the products' counters
  orderRow, \* orderRow[l]: the row with lineSeq l, or NoOrderRow
  owed,     \* owed[s]: the quantity of the booking's open indent for s, 0 without one
  poRaised, \* the rows carry a PO number
  rivals,   \* rivals[s]: units other bookings hold
  edits,    \* edits so far
  mishap    \* history: what happened to s that the code has no answer to

editVars == <<shelf, orderRow, owed, poRaised, rivals, edits, mishap>>

NoOrderRow == [sku |-> "none"]
Filled == {l \in Lines : orderRow[l] # NoOrderRow}
Live == {l \in Filled : ~orderRow[l].cancelled}
RowsOf(s) == {l \in Filled : orderRow[l].sku = s}
HeldOf(s) == {l \in RowsOf(s) : orderRow[l].state = "reserved"}
UnitsIn(ls) == Cardinality(UNION {{l} \X (1..orderRow[l].confirmed) : l \in ls})

\* A cancelled booking was edited; a line was added to one whose stock is issued;
\* a line was removed, recoded or added beside an open indent of its SKU.
Mishap == {"cancelled", "added", "detached"}
Befell(s, what) == mishap' = [mishap EXCEPT ![s] = @ \cup what]

EditTypeOK ==
  /\ shelf \in [Sku -> Counters]
  /\ \A l \in Filled :
       orderRow[l] \in [sku : Sku, confirmed : Nat, pending : Nat, inward : Nat,
                        state : {"reserved", "consumed", "released"}, cancelled : BOOLEAN]
  /\ owed \in [Sku -> Nat] /\ rivals \in [Sku -> Nat]
  /\ poRaised \in BOOLEAN /\ edits \in 0..MaxEdits
  /\ mishap \in [Sku -> SUBSET Mishap]

-----------------------------------------------------------------------------
(* Taking and giving back, by the state of a row: isConsumed, takeFor,     *)
(* giveBack.                                                               *)

Issued(r) == r.state = "consumed"

Take(r, s, n) == IF Issued(r) THEN IssueMore(shelf[s], n) ELSE Reserve(shelf[s], n)

\* Mutant: every row is taken to be merely held.
GiveBackHeld(r, s, n) == Release(shelf[s], n)

\* A released row is not consumed, so it gives its units back - again.
GiveBack(r, s, n) == IF Issued(r) THEN TakeBack(shelf[s], n) ELSE Release(shelf[s], n)

-----------------------------------------------------------------------------
(* The booking around the edits.                                           *)

NewOrderRow(s, n, short, state) ==
  [sku |-> s, confirmed |-> n, pending |-> short, inward |-> 0, state |-> state, cancelled |-> FALSE]

\* settleBooking, consume: all that is reserved leaves inventory; the PO is on
\* every row.
ConsumeHeld ==
  /\ shelf' = [s \in Sku |-> Consume(shelf[s], UnitsIn(HeldOf(s) \cap Live))]
  /\ orderRow' = [l \in Lines |-> IF l \in Live /\ orderRow[l].state = "reserved"
                                  THEN [orderRow[l] EXCEPT !.state = "consumed"] ELSE orderRow[l]]

RaisesPoOnRows ==
  /\ ~poRaised /\ Live # {}
  /\ ConsumeHeld
  /\ poRaised' = TRUE
  /\ UNCHANGED <<owed, rivals, edits, mishap>>

\* The deadline job consumes what a booking with a PO still holds.
JobSettlesRows ==
  /\ poRaised
  /\ \E l \in Live : orderRow[l].state = "reserved"
  /\ ConsumeHeld
  /\ UNCHANGED <<owed, poRaised, rivals, edits, mishap>>

\* settleBooking, release, consumed lines included, and closeBookingIndent; the
\* deadline job's expiry is the same on a booking without a PO.
CancelsRows ==
  /\ Live # {}
  /\ shelf' = [s \in Sku |->
       LET issued == {l \in RowsOf(s) \cap Live : Issued(orderRow[l])}
       IN  TakeBack(Release(shelf[s], UnitsIn(HeldOf(s) \cap Live)), UnitsIn(issued))]
  /\ orderRow' = [l \in Lines |-> IF l \in Live
                                  THEN [orderRow[l] EXCEPT !.state = "released", !.cancelled = TRUE]
                                  ELSE orderRow[l]]
  /\ owed' = [s \in Sku |-> 0]
  /\ UNCHANGED <<poRaised, rivals, edits, mishap>>

\* Stock serves an indent of the booking, in whole or in part: onto its line ...
IndentServed(l, n) ==
  LET s == orderRow[l].sku
  IN  /\ l \in Live
      /\ n \in 1..owed[s] /\ CanTake(shelf[s], n)
      /\ shelf' = [shelf EXCEPT ![s] = Take(orderRow[l], s, n)]
      /\ orderRow' = [orderRow EXCEPT ![l].confirmed = @ + n, ![l].inward = @ + n,
                                      ![l].pending = GreaterOf(0, @ - n)]
      /\ owed' = [owed EXCEPT ![s] = @ - n]
      /\ UNCHANGED <<poRaised, rivals, edits, mishap>>

\* ... or as a line of its own at the end of the booking, in the state of the first.
IndentServedAnew(s, n) ==
  /\ Live # {} /\ RowsOf(s) \cap Live = {}
  /\ n \in 1..owed[s] /\ CanTake(shelf[s], n)
  /\ LET last == Max(Filled)
         state == IF Issued(orderRow[Min(Live)]) THEN "consumed" ELSE "reserved"
         row == [NewOrderRow(s, n, owed[s] - n, state) EXCEPT !.inward = n]
     IN  /\ last + 1 \in Lines
         /\ shelf' = [shelf EXCEPT ![s] = Take(row, s, n)]
         /\ orderRow' = [orderRow EXCEPT ![last + 1] = row]
  /\ owed' = [owed EXCEPT ![s] = @ - n]
  /\ UNCHANGED <<poRaised, rivals, edits, mishap>>

\* The desk closes the indent (the rows' pendingQty stays as it is).
DeskClosesIndent(s) ==
  /\ owed[s] > 0
  /\ owed' = [owed EXCEPT ![s] = 0]
  /\ UNCHANGED <<shelf, orderRow, poRaised, rivals, edits, mishap>>

\* Other bookings.
RivalTakes(s) ==
  /\ CanTake(shelf[s], 1)
  /\ shelf' = [shelf EXCEPT ![s] = Reserve(@, 1)]
  /\ rivals' = [rivals EXCEPT ![s] = @ + 1]
  /\ UNCHANGED <<orderRow, owed, poRaised, edits, mishap>>

RivalGivesBack(s) ==
  /\ rivals[s] > 0
  /\ shelf' = [shelf EXCEPT ![s] = Release(@, 1)]
  /\ rivals' = [rivals EXCEPT ![s] = @ - 1]
  /\ UNCHANGED <<orderRow, owed, poRaised, edits, mishap>>

-----------------------------------------------------------------------------
(* The edits.  Only the PO lock is checked: not whether the booking was    *)
(* cancelled.                                                              *)

Amends ==
  /\ Filled # {}
  /\ ~poRaised \/ MayOverrideLock
  /\ edits < MaxEdits /\ edits' = edits + 1
  /\ UNCHANGED <<poRaised, rivals>>

Gone(l) == IF orderRow[l].cancelled THEN {"cancelled"} ELSE {}
Detaches(s) == IF owed[s] > 0 THEN {"detached"} ELSE {}

\* A row that is not sent is removed; one line must stay, and inward allocations
\* hold a row.
RemovesLine(l) ==
  /\ Amends
  /\ Filled # {l} /\ orderRow[l].inward = 0
  /\ LET s == orderRow[l].sku
     IN  /\ shelf' = [shelf EXCEPT ![s] = GiveBack(orderRow[l], s, orderRow[l].confirmed)]
         /\ Befell(s, Gone(l) \cup Detaches(s))
  /\ orderRow' = [orderRow EXCEPT ![l] = NoOrderRow]
  /\ UNCHANGED owed

\* A row of a new SKU, its units taken as the booking's first row would take them.
\* The row itself is created without a stockState: reserved.
AddsRow(s, n) ==
  /\ Amends
  /\ RowsOf(s) = {} /\ CanTake(shelf[s], n)
  /\ LET first == orderRow[Min(Filled)]
         last == Max(Filled)
     IN  /\ last + 1 \in Lines
         /\ shelf' = [shelf EXCEPT ![s] = Take(first, s, n)]
         /\ orderRow' = [orderRow EXCEPT ![last + 1] =
              [NewOrderRow(s, n, 0, "reserved") EXCEPT !.cancelled = first.cancelled]]
         /\ Befell(s, (IF first.cancelled THEN {"cancelled"} ELSE {})
                      \cup (IF Issued(first) THEN {"added"} ELSE {}) \cup Detaches(s))
  /\ UNCHANGED owed

\* After the PO the confirmed part takes the whole change, the indent none of it.
SetsIssuedQuantity(l, n) ==
  LET r == orderRow[l]
      s == r.sku
      target == GreaterOf(0, n - r.pending)
  IN  /\ Amends
      /\ Issued(r) /\ n # r.confirmed + r.pending /\ n >= r.inward
      /\ IF target > r.confirmed
         THEN /\ CanTake(shelf[s], target - r.confirmed)
              /\ shelf' = [shelf EXCEPT ![s] = IssueMore(@, target - r.confirmed)]
         ELSE shelf' = [shelf EXCEPT ![s] = TakeBack(@, r.confirmed - target)]
      /\ orderRow' = [orderRow EXCEPT ![l].confirmed = target]
      /\ UNCHANGED <<owed, mishap>>

\* Mutant: the shortfall is added to the indent instead of being it.
SetsHeldQuantityStacked(l, n) ==
  LET r == orderRow[l]
      s == r.sku
      fulfilled == LesserOf(n, r.confirmed + GreaterOf(0, shelf[s].avail))
  IN  /\ Amends
      /\ ~Issued(r) /\ n # r.confirmed + r.pending /\ n >= r.inward
      /\ shelf' = [shelf EXCEPT ![s] = IF fulfilled > r.confirmed THEN Reserve(@, fulfilled - r.confirmed)
                                       ELSE Release(@, r.confirmed - fulfilled)]
      /\ owed' = [owed EXCEPT ![s] = @ + n - fulfilled]
      /\ orderRow' = [orderRow EXCEPT ![l].confirmed = fulfilled, ![l].pending = n - fulfilled]
      /\ Befell(s, Gone(l))

\* Before it, the line gets what stock allows and the rest is the indent: set, not
\* added (setIndentShortfall).
SetsHeldQuantity(l, n) ==
  LET r == orderRow[l]
      s == r.sku
      fulfilled == LesserOf(n, r.confirmed + GreaterOf(0, shelf[s].avail))
  IN  /\ Amends
      /\ ~Issued(r) /\ n # r.confirmed + r.pending /\ n >= r.inward
      /\ shelf' = [shelf EXCEPT ![s] = IF fulfilled > r.confirmed THEN Reserve(@, fulfilled - r.confirmed)
                                       ELSE Release(@, r.confirmed - fulfilled)]
      /\ owed' = [owed EXCEPT ![s] = n - fulfilled]
      /\ orderRow' = [orderRow EXCEPT ![l].confirmed = fulfilled, ![l].pending = n - fulfilled]
      /\ Befell(s, Gone(l))

\* Another SKU: the new one is taken first, then the old one given back.  The
\* row's pendingQty and the indent stay with the old one.
RecodesLine(l, t, n) ==
  LET r == orderRow[l]
      s == r.sku
  IN  /\ Amends
      /\ r.inward = 0 /\ RowsOf(t) = {} /\ CanTake(shelf[t], n)
      /\ shelf' = [shelf EXCEPT ![t] = Take(r, t, n), ![s] = GiveBack(r, s, r.confirmed)]
      /\ orderRow' = [orderRow EXCEPT ![l].sku = t, ![l].confirmed = n]
      /\ mishap' = [mishap EXCEPT ![s] = @ \cup Gone(l) \cup Detaches(s),
                                  ![t] = @ \cup Gone(l) \cup Detaches(t)]
      /\ UNCHANGED owed

-----------------------------------------------------------------------------
\* A booking as it was confirmed: each SKU got what the shelf had, a row if it got
\* any, and an indent for the rest.
Placement(want) ==
  LET got == [s \in Sku |-> LesserOf(want[s], OnShelf[s])]
      rows == {s \in Sku : got[s] > 0}
  IN  \E seat \in Injection(rows, Lines) :
        /\ {seat[s] : s \in rows} = 1..Cardinality(rows)
        /\ rows # {}
        /\ shelf = [s \in Sku |-> Reserve(Shelf(OnShelf[s]), got[s])]
        /\ owed = [s \in Sku |-> want[s] - got[s]]
        /\ orderRow = [l \in Lines |->
             IF \E s \in rows : seat[s] = l
             THEN LET s == CHOOSE x \in rows : seat[x] = l
                  IN  NewOrderRow(s, got[s], want[s] - got[s], "reserved")
             ELSE NoOrderRow]

EditInit ==
  /\ \E want \in Wanted : Placement(want)
  /\ poRaised = FALSE
  /\ rivals = [s \in Sku |-> 0]
  /\ edits = 0
  /\ mishap = [s \in Sku |-> {}]

EditNext ==
  \/ RaisesPoOnRows \/ JobSettlesRows \/ CancelsRows
  \/ \E s \in Sku :
       \/ DeskClosesIndent(s) \/ RivalTakes(s) \/ RivalGivesBack(s)
       \/ \E n \in 1..MaxUnits : IndentServedAnew(s, n) \/ AddsRow(s, n)
  \/ \E l \in Filled :
       \/ RemovesLine(l)
       \/ \E n \in 1..MaxUnits :
            \/ IndentServed(l, n) \/ SetsIssuedQuantity(l, n) \/ SetsHeldQuantity(l, n)
            \/ \E t \in Sku : RecodesLine(l, t, n)

EditSpec == EditInit /\ [][EditNext]_editVars

-----------------------------------------------------------------------------
(* Properties.                                                             *)

\* Edits move as many units as they move quantities, before the PO and after it: of
\* every SKU, what is booked is what this booking's reserved rows and the others
\* hold, and what is on the shelf is the rest - unless a cancelled booking was
\* edited or a line was added to one whose stock is issued.
EditsKeepStock ==
  \A s \in Sku : mishap[s] \cap {"cancelled", "added"} = {} =>
    /\ shelf[s].booked = rivals[s] + UnitsIn(HeldOf(s))
    /\ shelf[s].avail = OnShelf[s] - rivals[s] - UnitsIn({l \in RowsOf(s) : orderRow[l].state # "released"})

\* "This booking's indent for the SKU is exactly the part stock could not cover":
\* what is still owed of a row's SKU is what the row lacks, or the indent has been
\* closed - unless its line was detached from it or a cancelled booking was edited.
OwedIsShortfall ==
  \A l \in Filled :
    LET s == orderRow[l].sku
    IN  mishap[s] = {} => owed[s] \in {0, orderRow[l].pending}
================================================================================
