---------------------------- MODULE StockLedger ----------------------------
(***************************************************************************)
(* The product's stock counters and the five helpers every stock-moving    *)
(* workflow goes through (src/backend/utils/stockLedger.js).               *)
(*                                                                         *)
(* A product document carries availableForSale, bookedQuantity and         *)
(* totalAvailableQuantity; here they are the fields avail, booked, total.  *)
(* Each helper is one findOneAndUpdate/$inc, so each is one function from  *)
(* counters to counters.  The guarded helpers (reserve, and the upward     *)
(* half of adjustConsumedQty) refuse when availableForSale is short: their *)
(* callers conjoin CanTake.                                                *)
(***************************************************************************)
EXTENDS Integers

LesserOf(a, b) == IF a <= b THEN a ELSE b
GreaterOf(a, b) == IF a >= b THEN a ELSE b

\* The counters of one product.
Counters == [avail : Int, booked : Int, total : Int]

\* A shelf of n free units.
Shelf(n) == [avail |-> n, booked |-> 0, total |-> n]

\* The filter { availableForSale: { $gte: qty } }.
CanTake(p, qty) == p.avail >= qty

\* reserveStock: available -> booked, only where CanTake(p, qty).
Reserve(p, qty) ==
  [avail |-> p.avail - qty, booked |-> p.booked + qty, total |-> p.total]

\* The part of qty the booked counter can still give: min(qty, max(0, booked)).
BookedPart(p, qty) == LesserOf(qty, GreaterOf(0, p.booked))

\* releaseStock: the shelf gets all of qty, booked loses what it has (floored at 0).
Release(p, qty) ==
  [avail |-> p.avail + qty, booked |-> p.booked - BookedPart(p, qty), total |-> p.total]

\* consumeStock: booked units leave inventory for good.
Consume(p, qty) ==
  [avail |-> p.avail, booked |-> p.booked - BookedPart(p, qty),
   total |-> p.total - BookedPart(p, qty)]

\* adjustConsumedQty upwards: units leave inventory straight from the shelf,
\* only where CanTake(p, qty).
IssueMore(p, qty) ==
  [avail |-> p.avail - qty, booked |-> p.booked, total |-> p.total - qty]

\* Mutant: a cancellation after the PO that never puts the goods back on the shelf.
TakeBackNothing(p, qty) == p

\* adjustConsumedQty downwards: units already issued come back to the shelf.
TakeBack(p, qty) ==
  [avail |-> p.avail + qty, booked |-> p.booked, total |-> p.total + qty]

\* The identity the helpers are written to preserve:
\* availableForSale + bookedQuantity = totalAvailableQuantity.
Balanced(p) == p.avail + p.booked = p.total
=============================================================================
