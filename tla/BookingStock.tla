---------------------------- MODULE BookingStock ----------------------------
(***************************************************************************)
(* The life of a booking's stock: a selection list is confirmed into order *)
(* lines that hold units, and each line's units are later consumed (PO     *)
(* raised) or released (booking cancelled by staff, or expired after seven *)
(* days without a PO).                                                     *)
(*                                                                         *)
(* Every stock movement runs inside runInTransaction, on a replica set, so *)
(* each one is a single step that re-reads the rows.  What is NOT atomic   *)
(* is the request around it: a handler reads the booking, decides, and     *)
(* only then opens its transaction, and anybody may commit in between.     *)
(* `inflight' holds the requests that have passed their checks and not yet *)
(* committed; `job' holds what the settlement job decided from the list it *)
(* read at its start.                                                      *)
(***************************************************************************)
EXTENDS Integers, FiniteSets, StockLedger

CONSTANTS
  Sku,          \* stock-keeping units
  Res,          \* reservation documents, numbered in the order they are created
  Customer,
  Booking,      \* booking numbers (BO-/SO-x; the indent of b is PI-x)
  Po,           \* PO numbers
  NoPo,         \* the placeholder '-' and the empty PO number
  NoBooking,
  SkuOf,        \* SkuOf[r]:      the SKU reservation r asks for
  CustomerOf,   \* CustomerOf[r]: whose reservation it is
  Stock,        \* Stock[s]:      units on the shelf at the start
  MaxQty,       \* BOUND: the largest quantity of a line
  MaxInflight,  \* BOUND: requests between their check and their commit
  MayOverride,  \* whether some caller holds override_po_lock
  Targets       \* the stages staff move bookings to

Stage == {"PO Received", "Ready for Dispatch", "Dispatched", "Delivered"}

ASSUME ConstantsAssumption ==
  /\ IsFiniteSet(Res) /\ Res \subseteq Nat
  /\ IsFiniteSet(Booking)
  /\ SkuOf \in [Res -> Sku]
  /\ CustomerOf \in [Res -> Customer]
  /\ Stock \in [Sku -> Nat]
  /\ MaxQty \in Nat
  /\ NoPo \notin Po
  /\ NoBooking \notin Booking
  /\ MayOverride \in BOOLEAN
  /\ Targets \subseteq Stage

VARIABLES
  stock,     \* stock[s]: the product's counters
  resv,      \* resv[r]:  the reservation document
  row,       \* row[<<b, r>>]: the order row booking b has for reservation r
  used,      \* booking numbers drawn
  overdue,   \* bookings older than PO_DEADLINE_DAYS
  inflight,  \* requests past their check, before their commit
  job        \* job[b]: what this run of the settlement job will do with b

vars == <<stock, resv, row, used, overdue, inflight, job>>

Line == Booking \X Res

RowStatus == {"none", "Cancelled"} \cup Stage
StockState == {"none", "reserved", "consumed", "released"}
Row == [status : RowStatus, stock : StockState, qty : 0..MaxQty, po : Po \cup {NoPo}]
NoRow == [status |-> "none", stock |-> "none", qty |-> 0, po |-> NoPo]

OpenIndent == {"Pending", "Partially Confirmed"}
ResStatus == {"none", "Reserved", "Confirmed", "Cancelled"} \cup OpenIndent
Reservation ==
  [status : ResStatus, qty : 0..MaxQty, indent : Booking \cup {NoBooking}, po : Po \cup {NoPo}]
NoReservation == [status |-> "none", qty |-> 0, indent |-> NoBooking, po |-> NoPo]

\* The lines of an upload or a cart: sheet[r] units asked for on line r.
Sheet == UNION {[lines -> 1..MaxQty] : lines \in SUBSET Res}

\* A request past its check: what it will do, to which booking, with which PO
\* number or stage.
Request ==
  [op : {"raisePo", "updateOrderPO", "stampIndent"}, b : Booking, arg : Po]
    \cup [op : {"status"}, b : Booking, arg : Stage]
    \cup [op : {"cancel", "closeIndent"}, b : Booking, arg : {NoPo}]

-----------------------------------------------------------------------------
(* Reading a booking.                                                      *)

Rows(b) == {l \in Line : l[1] = b /\ row[l].status # "none"}

AllCancelled(b) == \A l \in Rows(b) : row[l].status = "Cancelled"

\* isBookingLocked: ANY row with a generated PO locks the booking.
IsLocked(b) == \E l \in Rows(b) : row[l].po # NoPo

\* bookingStatusOf: the least advanced stage of a live line.
StageIndex(status) ==
  CASE status = "PO Received" -> 0
    [] status = "Ready for Dispatch" -> 1
    [] status = "Dispatched" -> 2
    [] OTHER -> 3
IsBookingStatus(b, status) ==
  IF AllCancelled(b)
  THEN status = "Cancelled"
  ELSE LET live == {l \in Rows(b) : row[l].status # "Cancelled"}
       IN  /\ \E l \in live : row[l].status = status
           /\ \A l \in live : StageIndex(status) <= StageIndex(row[l].status)

\* The units of SKU s on the lines L, with the quantities of the rows R, one
\* pair per unit; and how many there are.  Quantities are sums over lines, and
\* a sum is written here as the size of a set of units.
Units(R, L, s) == {u \in L \X (1..MaxQty) : SkuOf[u[1][2]] = s /\ u[2] <= R[u[1]].qty}
Quantity(R, L, s) == Cardinality(Units(R, L, s))

LinesIn(R, state) == {l \in Line : R[l].stock = state}

-----------------------------------------------------------------------------
(* The selection list.                                                     *)

\* createReservation: a new line of the customer's selection list (no stock is
\* taken), or a top-up of the line already there.  Two creations that overlap
\* both find no line and make two, so a second line for a SKU can arise.
CreateReservation(r, q) ==
  /\ \A other \in Res : resv[other].status # "none" => other < r
  /\ resv[r].status = "none"
  /\ resv' = [resv EXCEPT ![r] = [NoReservation EXCEPT !.status = "Reserved", !.qty = q]]
  /\ UNCHANGED <<stock, row, used, overdue, inflight, job>>

TopUpReservation(r, q) ==
  /\ resv[r].status = "Reserved"
  /\ resv[r].qty + q <= MaxQty
  /\ resv' = [resv EXCEPT ![r].qty = @ + q]
  /\ UNCHANGED <<stock, row, used, overdue, inflight, job>>

-----------------------------------------------------------------------------
(* Confirmation: runConfirmBooking, and createOrder for direct orders.     *)

\* The order row of a line that got q units.
NewRow(q, po) == [status |-> "PO Received", stock |-> "reserved", qty |-> q, po |-> po]

\* The order rows with booking b's new lines: line r gets g[r] units, and no
\* row when it gets none.
Placed(b, g, po) ==
  [l \in Line |->
     IF l[1] = b /\ l[2] \in DOMAIN g /\ g[l[2]] > 0 THEN NewRow(g[l[2]], po) ELSE row[l]]
NewLines(b, g) == {l \in Line : l[1] = b /\ l[2] \in DOMAIN g /\ g[l[2]] > 0}

\* Mutant: the deduction without its availableForSale filter.
AllotsUnguarded(b, want, g) == \A r \in DOMAIN want : g[r] = want[r]

\* deductStockAtomic, line after line in list order: a line takes
\* min(want, available).  So no SKU gives more than it has, and a line goes
\* short only when it and the lines before it emptied the shelf.
Allots(b, want, g) ==
  LET placed == Placed(b, g, NoPo)
      upTo(r) == {l \in NewLines(b, g) : l[2] <= r}
  IN  /\ \A s \in Sku : CanTake(stock[s], Quantity(placed, NewLines(b, g), s))
      /\ \A r \in DOMAIN want :
           /\ g[r] <= want[r]
           /\ g[r] < want[r] =>
                Quantity(placed, upTo(r), SkuOf[r]) = GreaterOf(0, stock[SkuOf[r]].avail)

\* The stock and row writes of a confirmation.
PlaceBooking(b, g, po) ==
  /\ used' = used \cup {b}
  /\ row' = Placed(b, g, po)
  /\ stock' = [s \in Sku |-> Reserve(stock[s], Quantity(Placed(b, g, po), NewLines(b, g), s))]

\* Mutant: the remainder taken the wrong way round.
OutcomeSwapped(doc, w, n, b, po) ==
  IF n = w
  THEN [doc EXCEPT !.status = "Confirmed", !.qty = w]
  ELSE [doc EXCEPT !.status = IF n > 0 THEN "Partially Confirmed" ELSE "Pending",
                   !.qty = n - w, !.indent = b, !.po = po]

\* What becomes of a reservation that wanted w units and got n: confirmed, or
\* left open as booking b's indent for the remainder.
Outcome(doc, w, n, b, po) ==
  IF n = w
  THEN [doc EXCEPT !.status = "Confirmed", !.qty = w]
  ELSE [doc EXCEPT !.status = IF n > 0 THEN "Partially Confirmed" ELSE "Pending",
                   !.qty = w - n, !.indent = b, !.po = po]

ConfirmReservations(b, want, po) ==
  /\ b \notin used
  /\ DOMAIN want # {}
  /\ \E g \in [DOMAIN want -> 0..MaxQty] :
       /\ Allots(b, want, g)
       /\ PlaceBooking(b, g, po)
       /\ resv' = [r \in Res |-> IF r \in DOMAIN want
                                 THEN Outcome(resv[r], want[r], g[r], b, po)
                                 ELSE resv[r]]
  /\ UNCHANGED <<overdue, inflight, job>>

\* confirmBooking: everything on the customer's selection list, in one transaction.
ConfirmBooking(b, c, po) ==
  LET list == {r \in Res : resv[r].status = "Reserved" /\ CustomerOf[r] = c}
  IN  ConfirmReservations(b, [r \in list |-> resv[r].qty], po)

\* createDirectBooking: the lines of an uploaded sheet (one per SKU), reserved and
\* confirmed in the same transaction; the selection list is not touched.
CreateDirectBooking(b, sheet, po) ==
  /\ \A r \in DOMAIN sheet : \A other \in Res : resv[other].status # "none" => other < r
  /\ \A r1, r2 \in DOMAIN sheet :
       CustomerOf[r1] = CustomerOf[r2] /\ (SkuOf[r1] = SkuOf[r2] => r1 = r2)
  /\ ConfirmReservations(b, sheet, po)

\* createOrder: an order placed without reservations.  The unfulfilled remainder
\* is only reported: no indent is created for it.
CreateOrder(b, sheet, po) ==
  /\ b \notin used
  /\ DOMAIN sheet # {}
  /\ \E g \in [DOMAIN sheet -> 0..MaxQty] :
       /\ Allots(b, sheet, g)
       /\ PlaceBooking(b, g, po)
  /\ UNCHANGED <<resv, overdue, inflight, job>>

-----------------------------------------------------------------------------
(* settleBooking: the one place a line's hold on stock ends.               *)

\* Mutant: a claim that does not look at the line's stock state.
MovableAnyState(b, includeConsumed) == {l \in Rows(b) : row[l].status # "Cancelled"}

\* Mutant: findOne in place of find - only the booking's first reserved line moves.
MovableFirst(b, includeConsumed) ==
  {l \in Rows(b) : /\ row[l].status # "Cancelled" /\ row[l].stock = "reserved"
                   /\ \A m \in Rows(b) : row[m].stock = "reserved" => l[2] <= m[2]}

\* The lines a settlement may move: live, and still reserved - or consumed, for
\* a cancellation that takes goods back after the PO.
Movable(b, includeConsumed) ==
  {l \in Rows(b) : /\ row[l].status # "Cancelled"
                   /\ \/ row[l].stock = "reserved"
                      \/ includeConsumed /\ row[l].stock = "consumed"}

\* action 'consume', on the rows R (the rows with a PO stamped, or as they are).
SettleConsume(b, R) ==
  LET lines == Movable(b, FALSE)
  IN  /\ row' = [l \in Line |-> IF l \in lines THEN [R[l] EXCEPT !.stock = "consumed"] ELSE R[l]]
      /\ stock' = [s \in Sku |-> Consume(stock[s], Quantity(row, lines, s))]

\* Mutant: an indent that was partly confirmed is forgotten.
IndentClosedPendingOnly(b) ==
  [r \in Res |-> IF resv[r].indent = b /\ resv[r].status = "Pending"
                 THEN [resv[r] EXCEPT !.status = "Cancelled"]
                 ELSE resv[r]]

\* closeBookingIndent: the booking's open indent lines are cancelled with it.
IndentClosed(b) ==
  [r \in Res |-> IF resv[r].indent = b /\ resv[r].status \in OpenIndent
                 THEN [resv[r] EXCEPT !.status = "Cancelled"]
                 ELSE resv[r]]

\* Mutant: consumed lines given back through releaseStock, as if still booked.
SettleReleaseAllAsBooked(b, includeConsumed) ==
  LET lines == Movable(b, includeConsumed)
  IN  /\ row' = [l \in Line |-> IF l \in lines
                                THEN [row[l] EXCEPT !.status = "Cancelled", !.stock = "released"]
                                ELSE row[l]]
      /\ stock' = [s \in Sku |-> Release(stock[s], Quantity(row, lines, s))]
      /\ resv' = IF lines # {} THEN IndentClosed(b) ELSE resv

\* Mutant: the lines are cancelled but not claimed as released.
SettleReleaseUnclaimed(b, includeConsumed) ==
  LET lines == Movable(b, includeConsumed)
      held  == {l \in lines : row[l].stock = "reserved"}
      sold  == {l \in lines : row[l].stock = "consumed"}
  IN  /\ row' = [l \in Line |-> IF l \in lines THEN [row[l] EXCEPT !.status = "Cancelled"] ELSE row[l]]
      /\ stock' = [s \in Sku |-> TakeBack(Release(stock[s], Quantity(row, held, s)),
                                          Quantity(row, sold, s))]
      /\ resv' = IF lines # {} THEN IndentClosed(b) ELSE resv

\* action 'release': reserved units go back from booked, consumed ones come back
\* into inventory, the lines are cancelled and the indent is closed - if there
\* was anything to settle.
SettleRelease(b, includeConsumed) ==
  LET lines == Movable(b, includeConsumed)
      held  == {l \in lines : row[l].stock = "reserved"}
      sold  == {l \in lines : row[l].stock = "consumed"}
  IN  /\ row' = [l \in Line |-> IF l \in lines
                                THEN [row[l] EXCEPT !.status = "Cancelled", !.stock = "released"]
                                ELSE row[l]]
      /\ stock' = [s \in Sku |-> TakeBack(Release(stock[s], Quantity(row, held, s)),
                                          Quantity(row, sold, s))]
      /\ resv' = IF lines # {} THEN IndentClosed(b) ELSE resv

-----------------------------------------------------------------------------
(* Requests.  Begin...: the handler's reads and checks.  ...Commits: its   *)
(* transaction, on the rows as they are by then.                           *)

Begin(request) ==
  /\ Rows(request.b) # {}
  /\ Cardinality(inflight) < MaxInflight
  /\ inflight' = inflight \cup {request}
  /\ UNCHANGED <<stock, resv, row, used, overdue, job>>

\* raisePo / updateOrderPO: refused on a locked booking (unless the caller may
\* override) and on a cancelled one.  raisePo also refuses a number another
\* booking carries.
BeginRaisePo(b, po, op) ==
  /\ ~IsLocked(b) \/ MayOverride
  /\ ~AllCancelled(b)
  /\ op = "raisePo" => \A l \in Line : l[1] # b => row[l].po # po
  /\ Begin([op |-> op, b |-> b, arg |-> po])

\* Their transaction: refused if the booking was cancelled meanwhile; otherwise
\* the PO is stamped on every row and the reserved units are consumed.  The lock
\* is not looked at again.  updateOrderPO then stamps the indent, separately.
Stamped(b, po) == [l \in Line |-> IF l \in Rows(b) THEN [row[l] EXCEPT !.po = po] ELSE row[l]]

PoCommits(request) ==
  /\ request.op \in {"raisePo", "updateOrderPO"}
  /\ IF AllCancelled(request.b)
     THEN UNCHANGED <<stock, row>> /\ inflight' = inflight \ {request}
     ELSE /\ SettleConsume(request.b, Stamped(request.b, request.arg))
          /\ inflight' = (inflight \ {request})
               \cup (IF request.op = "updateOrderPO"
                     THEN {[request EXCEPT !.op = "stampIndent"]} ELSE {})
  /\ UNCHANGED <<resv, used, overdue, job>>

IndentStamped(request) ==
  /\ request.op = "stampIndent"
  /\ resv' = [r \in Res |-> IF resv[r].indent = request.b
                            THEN [resv[r] EXCEPT !.po = request.arg] ELSE resv[r]]
  /\ inflight' = inflight \ {request}
  /\ UNCHANGED <<stock, row, used, overdue, job>>

\* cancelBooking: staff cancel at any stage; a booking already cancelled only has
\* its leftover indent closed.
BeginCancel(b) ==
  Begin([op |-> IF AllCancelled(b) THEN "closeIndent" ELSE "cancel", b |-> b, arg |-> NoPo])

CancelCommits(request) ==
  /\ request.op = "cancel"
  /\ SettleRelease(request.b, TRUE)
  /\ inflight' = inflight \ {request}
  /\ UNCHANGED <<used, overdue, job>>

LeftoverIndentCloses(request) ==
  /\ request.op = "closeIndent"
  /\ resv' = IndentClosed(request.b)
  /\ inflight' = inflight \ {request}
  /\ UNCHANGED <<stock, row, used, overdue, job>>

\* applyBookingStatus: any stage but 'Cancelled', refused only when the booking
\* already reads as being there; then every row that differs is set.
BeginStatus(b, status) ==
  /\ ~IsBookingStatus(b, status)
  /\ Begin([op |-> "status", b |-> b, arg |-> status])

StatusCommits(request) ==
  /\ request.op = "status"
  /\ row' = [l \in Line |-> IF l \in Rows(request.b)
                            THEN [row[l] EXCEPT !.status = request.arg] ELSE row[l]]
  /\ inflight' = inflight \ {request}
  /\ UNCHANGED <<stock, resv, used, overdue, job>>

\* The process dies, or the transaction gives up after its retries: nothing of
\* the request's remaining writes happens.
RequestFails(request) ==
  /\ inflight' = inflight \ {request}
  /\ UNCHANGED <<stock, resv, row, used, overdue, job>>

-----------------------------------------------------------------------------
(* runPoSettlement: one run at a time, over a list read at its start.      *)

\* The rows the run lists: live, and their stock still reserved.
Candidates(b) == {l \in Rows(b) : row[l].status # "Cancelled" /\ row[l].stock = "reserved"}

\* Mutant: a run that leaves bookings with a PO to the PO screens.
JobScansUnpaid ==
  /\ \A b \in Booking : job[b] = "none"
  /\ \E b \in Booking : Candidates(b) # {}
  /\ job' = [b \in Booking |->
               IF \E l \in Candidates(b) : row[l].po = NoPo THEN "expire" ELSE "none"]
  /\ UNCHANGED <<stock, resv, row, used, overdue, inflight>>

JobScans ==
  /\ \A b \in Booking : job[b] = "none"
  /\ \E b \in Booking : Candidates(b) # {}
  /\ job' = [b \in Booking |->
               CASE Candidates(b) = {} -> "none"
                 [] \E l \in Candidates(b) : row[l].po # NoPo -> "consume"
                 [] OTHER -> "expire"]
  /\ UNCHANGED <<stock, resv, row, used, overdue, inflight>>

\* PO seen in the list: consume, if a fresh read still shows a PO.
JobConsumes(b) ==
  /\ job[b] = "consume"
  /\ IF IsLocked(b) THEN SettleConsume(b, row) ELSE UNCHANGED <<stock, row>>
  /\ job' = [job EXCEPT ![b] = "none"]
  /\ UNCHANGED <<resv, used, overdue, inflight>>

\* Mutant: the job works from its list alone and cancels the way staff do, consumed
\* lines included.
JobExpiresLikeStaff(b) ==
  /\ job[b] = "expire"
  /\ IF b \in overdue
     THEN SettleRelease(b, TRUE)
     ELSE UNCHANGED <<stock, resv, row>>
  /\ job' = [job EXCEPT ![b] = "none"]
  /\ UNCHANGED <<used, overdue, inflight>>

\* No PO in the list: past the deadline, cancel and release - unless a fresh read
\* shows a PO.
JobExpires(b) ==
  /\ job[b] = "expire"
  /\ IF b \in overdue /\ ~IsLocked(b)
     THEN SettleRelease(b, FALSE)
     ELSE UNCHANGED <<stock, resv, row>>
  /\ job' = [job EXCEPT ![b] = "none"]
  /\ UNCHANGED <<used, overdue, inflight>>

\* The run dies or throws: what is left of its list waits for the next run.
JobAborts ==
  /\ \E b \in Booking : job[b] # "none"
  /\ job' = [b \in Booking |-> "none"]
  /\ UNCHANGED <<stock, resv, row, used, overdue, inflight>>

\* Seven days pass since the booking was made.
DeadlinePasses(b) ==
  /\ b \in used \ overdue
  /\ overdue' = overdue \cup {b}
  /\ UNCHANGED <<stock, resv, row, used, inflight, job>>

-----------------------------------------------------------------------------
Init ==
  /\ stock = [s \in Sku |-> Shelf(Stock[s])]
  /\ resv = [r \in Res |-> NoReservation]
  /\ row = [l \in Line |-> NoRow]
  /\ used = {}
  /\ overdue = {}
  /\ inflight = {}
  /\ job = [b \in Booking |-> "none"]

SelectionListStep ==
  \E r \in Res, q \in 1..MaxQty : CreateReservation(r, q) \/ TopUpReservation(r, q)

ConfirmStep ==
  \E b \in Booking, po \in Po \cup {NoPo} :
    \/ \E c \in Customer : ConfirmBooking(b, c, po)
    \/ \E sheet \in Sheet : CreateDirectBooking(b, sheet, po) \/ CreateOrder(b, sheet, po)

BeginStep ==
  \E b \in Booking :
    \/ \E po \in Po, op \in {"raisePo", "updateOrderPO"} : BeginRaisePo(b, po, op)
    \/ BeginCancel(b)
    \/ \E status \in Targets : BeginStatus(b, status)

CommitStep ==
  \E request \in inflight :
    \/ PoCommits(request)
    \/ IndentStamped(request)
    \/ CancelCommits(request)
    \/ LeftoverIndentCloses(request)
    \/ StatusCommits(request)
    \/ RequestFails(request)

JobStep ==
  \/ JobScans
  \/ \E b \in Booking : JobConsumes(b) \/ JobExpires(b)
  \/ JobAborts

Next ==
  \/ SelectionListStep
  \/ ConfirmStep
  \/ BeginStep
  \/ CommitStep
  \/ JobStep
  \/ \E b \in Booking : DeadlinePasses(b)

Spec == Init /\ [][Next]_vars

-----------------------------------------------------------------------------
(* Properties.                                                             *)

TypeOK ==
  /\ stock \in [Sku -> Counters]
  /\ resv \in [Res -> Reservation]
  /\ row \in [Line -> Row]
  /\ used \subseteq Booking
  /\ overdue \subseteq used
  /\ inflight \subseteq Request
  /\ job \in [Booking -> {"none", "consume", "expire"}]

\* availableForSale + bookedQuantity = totalAvailableQuantity on every product,
\* the identity stockLedger.js is written to keep.  releaseStock alone does not
\* keep it: it gives the shelf more than booked can pay when a line is released
\* that no longer holds its units.
CountersBalance == \A s \in Sku : Balanced(stock[s])

\* bookedQuantity is exactly what the reserved lines hold: no unit is held for
\* nobody, and none is held twice.  Fails as soon as one settlement moves a line
\* without its units, or units without their line.
BookedIsHeld ==
  \A s \in Sku : stock[s].booked = Quantity(row, LinesIn(row, "reserved"), s)

\* Units that left inventory are exactly those of the consumed lines: a PO takes
\* each unit out once, and a cancellation after the PO brings it back once.
IssuedIsConsumed ==
  \A s \in Sku : stock[s].total + Quantity(row, LinesIn(row, "consumed"), s) = Stock[s]

\* No SKU is sold beyond what is on the shelf, however confirmations overlap.
NoOversell == \A s \in Sku : stock[s].avail >= 0

\* A booking is settled as a whole: while one of its lines is still reserved, no
\* other line of it has been consumed or released.
SettledAsAWhole ==
  \A l, m \in Line :
    l[1] = m[1] /\ row[l].stock = "reserved" => row[m].stock \in {"none", "reserved"}

\* "a cancelled booking never keeps one" (order.controller.js): the open indent
\* of a booking is closed by whatever cancels its lines.
CancelledKeepsNoIndent ==
  \A b \in Booking :
    Rows(b) # {} /\ AllCancelled(b) =>
      \A r \in Res : resv[r].indent = b => resv[r].status \notin OpenIndent

\* A line's stock is settled once: reserved, then consumed or released; consumed
\* goods come back only with the line's cancellation; released is the end.
SettledOnce ==
  [][\A l \in Line :
       row'[l].stock # row[l].stock =>
         \/ row[l].stock = "none" /\ row'[l].stock = "reserved"
         \/ row[l].stock = "reserved" /\ row'[l].stock \in {"consumed", "released"}
         \/ /\ row[l].stock = "consumed" /\ row'[l].stock = "released"
            /\ row'[l].status = "Cancelled"]_vars

\* The job cancels a booking only past its deadline and only when no row of it
\* shows a PO - at the moment it cancels, not when it read its list.
ExpiryIsDue ==
  [][\A l \in Line :
       job' # job /\ row'[l].status = "Cancelled" /\ row[l].status # "Cancelled" =>
         l[1] \in overdue /\ ~IsLocked(l[1])]_vars

\* Held stock does not stay held: the PO, the deadline or a cancellation ends it.
EveryHoldEnds ==
  \A b \in Booking : Candidates(b) # {} ~> Candidates(b) = {}

\* The hourly cron keeps running the job, time passes, and a run that keeps being
\* started is not killed for ever before it reaches a given booking.
Fairness ==
  /\ WF_vars(JobScans)
  /\ \A b \in Booking :
       /\ WF_vars(DeadlinePasses(b))
       /\ SF_vars(JobConsumes(b))
       /\ SF_vars(JobExpires(b))

FairSpec == Spec /\ Fairness

\* "an already-raised PO cannot be overwritten by a second raise unless the caller
\* can override the lock" (sales.controller.js): with nobody who can override, a
\* row's PO number never changes.
PoNotOverwritten ==
  [][\A l \in Line : row[l].po # NoPo => row'[l].po = row[l].po]_vars

\* "'Cancelled' ends the lifecycle" (bookingLifecycle.js): a cancelled line stays
\* cancelled.
CancelledEndsLifecycle ==
  [][\A l \in Line : row[l].status = "Cancelled" => row'[l].status = "Cancelled"]_vars

\* The booking core implements the pool of units, with what is held and what is
\* issued read off the order lines.
Pool == INSTANCE StockPool WITH
  Item <- Sku,
  Opening <- Stock,
  shelf <- [s \in Sku |-> stock[s].avail],
  held <- [s \in Sku |-> Quantity(row, LinesIn(row, "reserved"), s)],
  issued <- [s \in Sku |-> Quantity(row, LinesIn(row, "consumed"), s)]

ImplementsPool == Pool!Spec
=============================================================================
