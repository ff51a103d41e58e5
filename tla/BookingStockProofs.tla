------------------------- MODULE BookingStockProofs -------------------------
(***************************************************************************)
(* Theorems about BookingStock, for every set of bookings, lines, SKUs and *)
(* PO numbers and every stock and quantity bound.                          *)
(***************************************************************************)
EXTENDS BookingStock, FiniteSetTheorems, TLAPS

-----------------------------------------------------------------------------
(* Sums over lines.                                                        *)

\* The units of finitely many lines are finitely many, so sums are numbers.
LEMMA UnitsFinite ==
  ASSUME NEW R, NEW L \in SUBSET Line, NEW s
  PROVE  IsFiniteSet(Units(R, L, s)) /\ Quantity(R, L, s) \in Nat
<1>1. IsFiniteSet(Line)
  BY ConstantsAssumption, FS_Product DEF Line
<1>2. IsFiniteSet(L)
  BY <1>1, FS_Subset
<1>3. IsFiniteSet(1..MaxQty)
  BY ConstantsAssumption, FS_Interval
<1>4. IsFiniteSet(L \X (1..MaxQty))
  BY <1>2, <1>3, FS_Product
<1>5. Units(R, L, s) \in SUBSET (L \X (1..MaxQty))
  BY DEF Units
<1>6. IsFiniteSet(Units(R, L, s))
  BY <1>4, <1>5, FS_Subset
<1> QED
  BY <1>6, FS_CardinalityType DEF Quantity

\* The sum over two disjoint sets of lines is the sum of the sums.
LEMMA QuantityAdd ==
  ASSUME NEW R, NEW L \in SUBSET Line, NEW M \in SUBSET Line, NEW s,
         L \cap M = {}
  PROVE  Quantity(R, L \cup M, s) = Quantity(R, L, s) + Quantity(R, M, s)
<1>1. Units(R, L \cup M, s) = Units(R, L, s) \cup Units(R, M, s)
  BY DEF Units
<1>2. Units(R, L, s) \cap Units(R, M, s) = {}
  BY DEF Units
<1>3. IsFiniteSet(Units(R, L, s)) /\ IsFiniteSet(Units(R, M, s))
  BY UnitsFinite
<1>4. Cardinality(Units(R, L, s)) \in Nat /\ Cardinality(Units(R, M, s)) \in Nat
  BY <1>3, FS_CardinalityType
<1>5. Cardinality(Units(R, L, s) \cap Units(R, M, s)) = 0
  BY <1>2, FS_EmptySet
<1>6. Cardinality(Units(R, L, s) \cup Units(R, M, s)) =
        Cardinality(Units(R, L, s)) + Cardinality(Units(R, M, s))
  <2>1. Cardinality(Units(R, L, s) \cup Units(R, M, s)) =
          Cardinality(Units(R, L, s)) + Cardinality(Units(R, M, s))
            - Cardinality(Units(R, L, s) \cap Units(R, M, s))
    BY <1>3, FS_Union, Zenon
  <2> QED
    BY <2>1, <1>4, <1>5
<1>7. Cardinality(Units(R, L \cup M, s)) =
        Cardinality(Units(R, L, s)) + Cardinality(Units(R, M, s))
  BY <1>1, <1>6
<1> QED
  BY <1>7 DEF Quantity

\* The sum looks at nothing but the quantities of the lines.
LEMMA QuantitySame ==
  ASSUME NEW R1, NEW R2, NEW L \in SUBSET Line, NEW s,
         \A l \in L : R1[l].qty = R2[l].qty
  PROVE  Quantity(R1, L, s) = Quantity(R2, L, s)
<1>1. Units(R1, L, s) = Units(R2, L, s)
  BY DEF Units
<1> QED
  BY <1>1 DEF Quantity

\* No lines, no units.
LEMMA QuantityNone ==
  ASSUME NEW R, NEW s
  PROVE  Quantity(R, {}, s) = 0
<1>1. Units(R, {}, s) = {}
  BY DEF Units
<1> QED
  BY <1>1, FS_EmptySet DEF Quantity

\* Taking some lines away takes their units away.
LEMMA QuantityMinus ==
  ASSUME NEW R, NEW L \in SUBSET Line, NEW M \in SUBSET L, NEW s
  PROVE  /\ Quantity(R, L \ M, s) = Quantity(R, L, s) - Quantity(R, M, s)
         /\ Quantity(R, M, s) <= Quantity(R, L, s)
         /\ Quantity(R, M, s) \in Nat
         /\ Quantity(R, L, s) \in Nat
<1>1. L = (L \ M) \cup M
  OBVIOUS
<1>2. Quantity(R, L, s) = Quantity(R, L \ M, s) + Quantity(R, M, s)
  BY <1>1, QuantityAdd, M \in SUBSET Line, (L \ M) \in SUBSET Line, (L \ M) \cap M = {}
<1> QED
  BY <1>2, UnitsFinite, (L \ M) \in SUBSET Line, M \in SUBSET Line

-----------------------------------------------------------------------------
(* The ledger's helpers, on counters that can pay.                         *)

\* What booked can give is all of q, when booked covers q.
LEMMA BookedPartInt ==
  ASSUME NEW p \in Counters, NEW q \in Nat
  PROVE  /\ BookedPart(p, q) \in Int
         /\ q <= p.booked => BookedPart(p, q) = q
BY DEF Counters, BookedPart, LesserOf, GreaterOf

\* reserveStock moves q from available to booked and nothing else.
LEMMA ReserveEffect ==
  ASSUME NEW p \in Counters, NEW q \in Nat
  PROVE  /\ Reserve(p, q) \in Counters
         /\ Reserve(p, q).avail = p.avail - q
         /\ Reserve(p, q).booked = p.booked + q
         /\ Reserve(p, q).total = p.total
BY DEF Reserve, Counters

\* consumeStock takes q out of booked and of total, when booked covers it.
LEMMA ConsumeEffect ==
  ASSUME NEW p \in Counters, NEW q \in Nat
  PROVE  /\ Consume(p, q) \in Counters
         /\ Consume(p, q).avail = p.avail
         /\ q <= p.booked => /\ Consume(p, q).booked = p.booked - q
                             /\ Consume(p, q).total = p.total - q
BY BookedPartInt DEF Consume, Counters

\* releaseStock of q booked units, then taking back k issued ones.
LEMMA ReleaseEffect ==
  ASSUME NEW p \in Counters, NEW q \in Nat, NEW k \in Nat
  PROVE  /\ TakeBack(Release(p, q), k) \in Counters
         /\ TakeBack(Release(p, q), k).avail = p.avail + q + k
         /\ TakeBack(Release(p, q), k).total = p.total + k
         /\ q <= p.booked => TakeBack(Release(p, q), k).booked = p.booked - q
BY BookedPartInt DEF TakeBack, Release, Counters

-----------------------------------------------------------------------------
(* Type correctness.                                                       *)

\* The sets of lines the actions speak of are sets of lines.
LEMMA LineSets ==
  /\ \A b : Rows(b) \in SUBSET Line
  /\ \A b, i : Movable(b, i) \in SUBSET Line
  /\ \A b, g : NewLines(b, g) \in SUBSET Line
  /\ \A R, state : LinesIn(R, state) \in SUBSET Line
BY DEF Rows, Movable, NewLines, LinesIn

\* What a fresh row says.
LEMMA NewRowFields ==
  ASSUME NEW q, NEW po
  PROVE  /\ NewRow(q, po).status = "PO Received"
         /\ NewRow(q, po).stock = "reserved"
         /\ NewRow(q, po).qty = q
BY DEF NewRow

\* A confirmation leaves well-formed rows and counters.
LEMMA PlaceType ==
  ASSUME TypeOK, NEW b \in Booking, NEW po \in Po \cup {NoPo},
         NEW lines \in SUBSET Res, NEW g \in [lines -> 0..MaxQty],
         PlaceBooking(b, g, po)
  PROVE  stock' \in [Sku -> Counters] /\ row' \in [Line -> Row] /\ used' = used \cup {b}
<1>1. Placed(b, g, po) \in [Line -> Row]
  BY ConstantsAssumption DEF TypeOK, Placed, NewRow, Row, Line, RowStatus, StockState, Stage
<1>2. \A s \in Sku : Quantity(Placed(b, g, po), NewLines(b, g), s) \in Nat
  BY LineSets, UnitsFinite
<1>3. \A s \in Sku : Reserve(stock[s], Quantity(Placed(b, g, po), NewLines(b, g), s)) \in Counters
  BY <1>2, ReserveEffect DEF TypeOK
<1> QED
  BY <1>1, <1>3 DEF PlaceBooking

\* So does a settlement that consumes...
LEMMA SettleConsumeType ==
  ASSUME TypeOK, NEW b \in Booking, NEW R \in [Line -> Row], SettleConsume(b, R)
  PROVE  stock' \in [Sku -> Counters] /\ row' \in [Line -> Row]
<1> DEFINE lines == Movable(b, FALSE)
<1>1. row' \in [Line -> Row]
  <2>1. \A l \in Line : [R[l] EXCEPT !.stock = "consumed"] \in Row
    BY DEF Row, StockState
  <2> QED
    BY <2>1 DEF SettleConsume
<1>2. \A s \in Sku : Consume(stock[s], Quantity(row, lines, s)) \in Counters
  BY LineSets, UnitsFinite, ConsumeEffect DEF TypeOK
<1> QED
  BY <1>1, <1>2 DEF SettleConsume

\* ...and one that releases.
LEMMA SettleReleaseType ==
  ASSUME TypeOK, NEW b \in Booking, NEW i, SettleRelease(b, i)
  PROVE  /\ stock' \in [Sku -> Counters]
         /\ row' \in [Line -> Row]
         /\ resv' \in [Res -> Reservation]
<1> DEFINE lines == Movable(b, i)
           held == {l \in lines : row[l].stock = "reserved"}
           sold == {l \in lines : row[l].stock = "consumed"}
<1>1. row' \in [Line -> Row]
  <2>1. \A l \in Line : [row[l] EXCEPT !.status = "Cancelled", !.stock = "released"] \in Row
    BY DEF Row, StockState, RowStatus, TypeOK
  <2> QED
    BY <2>1 DEF SettleRelease, TypeOK
<1>2. \A s \in Sku : TakeBack(Release(stock[s], Quantity(row, held, s)),
                              Quantity(row, sold, s)) \in Counters
  <2>1. held \in SUBSET Line /\ sold \in SUBSET Line
    BY LineSets
  <2> QED
    BY <2>1, UnitsFinite, ReleaseEffect DEF TypeOK
<1>3. resv' \in [Res -> Reservation]
  <2>1. \A r \in Res : [resv[r] EXCEPT !.status = "Cancelled"] \in Reservation
    BY DEF TypeOK, Reservation, ResStatus
  <2>2. IndentClosed(b) \in [Res -> Reservation]
    BY <2>1 DEF IndentClosed, TypeOK
  <2> QED
    BY <2>2 DEF SettleRelease, TypeOK
<1> QED
  BY <1>1, <1>2, <1>3 DEF SettleRelease

\* Opening a request changes nothing but the set of requests.
LEMMA BeginType ==
  ASSUME TypeOK, BeginStep
  PROVE  inflight' \subseteq Request /\ UNCHANGED <<stock, resv, row, used, overdue, job>>
<1>1. PICK b \in Booking :
        \/ \E po \in Po, op \in {"raisePo", "updateOrderPO"} : BeginRaisePo(b, po, op)
        \/ BeginCancel(b)
        \/ \E status \in Targets : BeginStatus(b, status)
  BY DEF BeginStep
<1>2. CASE \E po \in Po, op \in {"raisePo", "updateOrderPO"} : BeginRaisePo(b, po, op)
  <2>1. PICK po \in Po, op \in {"raisePo", "updateOrderPO"} : BeginRaisePo(b, po, op)
    BY <1>2
  <2>2. [op |-> op, b |-> b, arg |-> po] \in Request
    BY DEF Request
  <2> QED
    BY <2>1, <2>2 DEF BeginRaisePo, Begin, TypeOK
<1>3. CASE BeginCancel(b)
  <2>1. [op |-> IF AllCancelled(b) THEN "closeIndent" ELSE "cancel", b |-> b, arg |-> NoPo]
          \in Request
    BY DEF Request
  <2> QED
    BY <1>3, <2>1 DEF BeginCancel, Begin, TypeOK
<1>4. CASE \E status \in Targets : BeginStatus(b, status)
  <2>1. PICK status \in Targets : BeginStatus(b, status)
    BY <1>4
  <2>2. [op |-> "status", b |-> b, arg |-> status] \in Request
    BY ConstantsAssumption DEF Request
  <2> QED
    BY <2>1, <2>2 DEF BeginStatus, Begin, TypeOK
<1> QED
  BY <1>1, <1>2, <1>3, <1>4

\* What a request carries, by what it does.
LEMMA RequestArg ==
  ASSUME NEW request \in Request
  PROVE  /\ request.b \in Booking
         /\ request.op \in {"raisePo", "updateOrderPO"} =>
              request.arg \in Po /\ [request EXCEPT !.op = "stampIndent"] \in Request
         /\ request.op = "stampIndent" => request.arg \in Po
         /\ request.op = "status" => request.arg \in Stage
BY DEF Request

\* The rows with a PO stamped are rows, and differ in nothing but the PO; a row
\* the booking does not have stays absent.
LEMMA StampedRows ==
  ASSUME TypeOK, NEW b, NEW po \in Po
  PROVE  /\ Stamped(b, po) \in [Line -> Row]
         /\ \A l \in Line : /\ Stamped(b, po)[l].stock = row[l].stock
                            /\ Stamped(b, po)[l].qty = row[l].qty
                            /\ Stamped(b, po)[l].status = row[l].status
                            /\ row[l] = NoRow => Stamped(b, po)[l] = NoRow
<1>1. \A l \in Line : [row[l] EXCEPT !.po = po] \in Row
  BY DEF TypeOK, Row
<1>2. \A l \in Line : row[l] = NoRow => l \notin Rows(b)
  BY DEF Rows, NoRow
<1> QED
  BY <1>1, <1>2 DEF Stamped, TypeOK, Row

\* A commit keeps every variable in its type.
LEMMA CommitType ==
  ASSUME TypeOK, CommitStep
  PROVE  TypeOK'
<1>1. PICK request \in inflight :
        \/ PoCommits(request)
        \/ IndentStamped(request)
        \/ CancelCommits(request)
        \/ LeftoverIndentCloses(request)
        \/ StatusCommits(request)
        \/ RequestFails(request)
  BY DEF CommitStep
<1>2. request \in Request /\ inflight \ {request} \subseteq Request
  BY DEF TypeOK
<1>3. CASE PoCommits(request)
  <2>1. CASE AllCancelled(request.b)
    BY <1>2, <1>3, <2>1 DEF PoCommits, TypeOK
  <2>2. CASE ~AllCancelled(request.b)
    <3>1. request.b \in Booking /\ request.arg \in Po
            /\ [request EXCEPT !.op = "stampIndent"] \in Request
      BY <1>2, <1>3, RequestArg DEF PoCommits
    <3>2. SettleConsume(request.b, Stamped(request.b, request.arg))
      BY <1>3, <2>2 DEF PoCommits
    <3>3. stock' \in [Sku -> Counters] /\ row' \in [Line -> Row]
      BY <3>1, <3>2, StampedRows, SettleConsumeType
    <3>4. inflight' \subseteq Request
      BY <1>2, <1>3, <2>2, <3>1 DEF PoCommits
    <3> QED
      BY <1>3, <3>3, <3>4 DEF PoCommits, TypeOK
  <2> QED
    BY <2>1, <2>2
<1>4. CASE IndentStamped(request)
  <2>1. request.arg \in Po
    BY <1>2, <1>4, RequestArg DEF IndentStamped
  <2>2. \A r \in Res : [resv[r] EXCEPT !.po = request.arg] \in Reservation
    BY <2>1 DEF TypeOK, Reservation
  <2>3. resv' \in [Res -> Reservation]
    BY <1>4, <2>2 DEF IndentStamped, TypeOK
  <2> QED
    BY <1>2, <1>4, <2>3 DEF IndentStamped, TypeOK
<1>5. CASE CancelCommits(request)
  <2>1. /\ stock' \in [Sku -> Counters]
        /\ row' \in [Line -> Row]
        /\ resv' \in [Res -> Reservation]
    BY <1>2, <1>5, RequestArg, SettleReleaseType DEF CancelCommits
  <2> QED
    BY <1>2, <1>5, <2>1 DEF CancelCommits, TypeOK
<1>6. CASE LeftoverIndentCloses(request)
  <2>1. \A r \in Res : [resv[r] EXCEPT !.status = "Cancelled"] \in Reservation
    BY DEF TypeOK, Reservation, ResStatus
  <2>2. resv' \in [Res -> Reservation]
    BY <1>6, <2>1 DEF LeftoverIndentCloses, IndentClosed, TypeOK
  <2> QED
    BY <1>2, <1>6, <2>2 DEF LeftoverIndentCloses, TypeOK
<1>7. CASE StatusCommits(request)
  <2>1. request.arg \in Stage
    BY <1>2, <1>7, RequestArg DEF StatusCommits
  <2>2. \A l \in Line : [row[l] EXCEPT !.status = request.arg] \in Row
    BY <2>1 DEF TypeOK, Row, RowStatus
  <2>3. row' \in [Line -> Row]
    BY <1>7, <2>2 DEF StatusCommits, TypeOK
  <2> QED
    BY <1>2, <1>7, <2>3 DEF StatusCommits, TypeOK
<1>8. CASE RequestFails(request)
  BY <1>2, <1>8 DEF RequestFails, TypeOK
<1> QED
  BY <1>1, <1>3, <1>4, <1>5, <1>6, <1>7, <1>8

\* A confirmed reservation is a reservation again.
LEMMA OutcomeType ==
  ASSUME NEW doc \in Reservation, NEW w \in 0..MaxQty, NEW n \in 0..MaxQty, n <= w,
         NEW b \in Booking, NEW po \in Po \cup {NoPo}
  PROVE  Outcome(doc, w, n, b, po) \in Reservation
<1>1. w - n \in 0..MaxQty
  BY ConstantsAssumption
<1>2. CASE n = w
  BY <1>2 DEF Outcome, Reservation, ResStatus
<1>3. CASE n # w
  BY <1>1, <1>3 DEF Outcome, Reservation, ResStatus, OpenIndent
<1> QED
  BY <1>2, <1>3

\* What a confirmation is made of: an unused booking number, an allotment of the
\* shelf to some lines, and the writes of PlaceBooking.
Confirms(b, po, want, g) ==
  /\ b \in Booking \ used
  /\ po \in Po \cup {NoPo}
  /\ DOMAIN want \in SUBSET Res
  /\ want \in [DOMAIN want -> 0..MaxQty]
  /\ g \in [DOMAIN want -> 0..MaxQty]
  /\ Allots(b, want, g)
  /\ PlaceBooking(b, g, po)

\* Reservations confirmed by a step that also places the booking.
ReservationsConfirmed(b, po, want, g) ==
  resv' = [r \in Res |-> IF r \in DOMAIN want
                         THEN Outcome(resv[r], want[r], g[r], b, po) ELSE resv[r]]

\* Whatever the entry point, a confirmation is that step.
LEMMA ConfirmShape ==
  ASSUME TypeOK, ConfirmStep
  PROVE  /\ UNCHANGED <<overdue, inflight, job>>
         /\ \E b, po, want, g :
              /\ Confirms(b, po, want, g)
              /\ resv' = resv \/ ReservationsConfirmed(b, po, want, g)
<1>1. PICK b \in Booking, po \in Po \cup {NoPo} :
        \/ \E c \in Customer : ConfirmBooking(b, c, po)
        \/ \E sheet \in Sheet : CreateDirectBooking(b, sheet, po) \/ CreateOrder(b, sheet, po)
  BY DEF ConfirmStep
<1>2. ASSUME NEW want, DOMAIN want \in SUBSET Res, want \in [DOMAIN want -> 0..MaxQty],
             ConfirmReservations(b, want, po)
      PROVE  /\ UNCHANGED <<overdue, inflight, job>>
             /\ \E g : Confirms(b, po, want, g) /\ ReservationsConfirmed(b, po, want, g)
  BY <1>2 DEF ConfirmReservations, Confirms, ReservationsConfirmed
<1>3. ASSUME NEW sheet \in Sheet
      PROVE  DOMAIN sheet \in SUBSET Res /\ sheet \in [DOMAIN sheet -> 0..MaxQty]
  <2>1. PICK lines \in SUBSET Res : sheet \in [lines -> 1..MaxQty]
    BY DEF Sheet
  <2>2. \A n \in 1..MaxQty : n \in 0..MaxQty
    BY ConstantsAssumption
  <2> QED
    BY <2>1, <2>2
<1>4. CASE \E c \in Customer : ConfirmBooking(b, c, po)
  <2>1. PICK c \in Customer : ConfirmBooking(b, c, po)
    BY <1>4
  <2> DEFINE list == {r \in Res : resv[r].status = "Reserved" /\ CustomerOf[r] = c}
             want == [r \in list |-> resv[r].qty]
  <2>2. DOMAIN want \in SUBSET Res /\ want \in [DOMAIN want -> 0..MaxQty]
    BY DEF TypeOK, Reservation
  <2>3. ConfirmReservations(b, want, po)
    BY <2>1 DEF ConfirmBooking
  <2> HIDE DEF want
  <2> QED
    BY <1>2, <2>2, <2>3
<1>5. CASE \E sheet \in Sheet : CreateDirectBooking(b, sheet, po)
  BY <1>2, <1>3, <1>5 DEF CreateDirectBooking
<1>6. CASE \E sheet \in Sheet : CreateOrder(b, sheet, po)
  <2>1. PICK sheet \in Sheet : CreateOrder(b, sheet, po)
    BY <1>6
  <2>2. PICK g \in [DOMAIN sheet -> 0..MaxQty] :
          Allots(b, sheet, g) /\ PlaceBooking(b, g, po)
    BY <2>1 DEF CreateOrder
  <2>3. Confirms(b, po, sheet, g)
    BY <1>3, <2>1, <2>2 DEF CreateOrder, Confirms
  <2> QED
    BY <2>1, <2>3 DEF CreateOrder
<1> QED
  BY <1>1, <1>4, <1>5, <1>6

\* A confirmation keeps every variable in its type.
LEMMA ConfirmType ==
  ASSUME TypeOK, ConfirmStep
  PROVE  TypeOK'
<1>1. PICK b, po, want, g : /\ Confirms(b, po, want, g)
                            /\ resv' = resv \/ ReservationsConfirmed(b, po, want, g)
  BY ConfirmShape
<1>2. stock' \in [Sku -> Counters] /\ row' \in [Line -> Row] /\ used' = used \cup {b}
  BY <1>1, PlaceType DEF Confirms
<1>3. ASSUME NEW r \in DOMAIN want
      PROVE  Outcome(resv[r], want[r], g[r], b, po) \in Reservation
  <2>1. g[r] <= want[r]
    BY <1>1 DEF Confirms, Allots
  <2>2. resv[r] \in Reservation /\ want[r] \in 0..MaxQty /\ g[r] \in 0..MaxQty
    BY <1>1 DEF Confirms, TypeOK
  <2> QED
    BY <1>1, <2>1, <2>2, OutcomeType DEF Confirms
<1>4. resv' \in [Res -> Reservation]
  BY <1>1, <1>3 DEF ReservationsConfirmed, TypeOK
<1>5. b \in Booking
  BY <1>1 DEF Confirms
<1> QED
  BY <1>2, <1>4, <1>5, ConfirmShape DEF TypeOK

\* So does every step of the settlement job.
LEMMA JobType ==
  ASSUME TypeOK, JobStep
  PROVE  TypeOK'
<1>1. CASE JobScans
  <2>1. job' \in [Booking -> {"none", "consume", "expire"}]
    BY <1>1 DEF JobScans
  <2> QED
    BY <1>1, <2>1 DEF JobScans, TypeOK
<1>2. ASSUME NEW b \in Booking, JobConsumes(b)
      PROVE  TypeOK'
  <2>1. stock' \in [Sku -> Counters] /\ row' \in [Line -> Row]
    BY <1>2, SettleConsumeType DEF JobConsumes, TypeOK
  <2> QED
    BY <1>2, <2>1 DEF JobConsumes, TypeOK
<1>3. ASSUME NEW b \in Booking, JobExpires(b)
      PROVE  TypeOK'
  <2>1. /\ stock' \in [Sku -> Counters]
        /\ row' \in [Line -> Row]
        /\ resv' \in [Res -> Reservation]
    BY <1>3, SettleReleaseType DEF JobExpires, TypeOK
  <2> QED
    BY <1>3, <2>1 DEF JobExpires, TypeOK
<1>4. CASE JobAborts
  BY <1>4 DEF JobAborts, TypeOK
<1> QED
  BY <1>1, <1>2, <1>3, <1>4 DEF JobStep

\* And a selection-list step.
LEMMA SelectionListType ==
  ASSUME TypeOK, SelectionListStep
  PROVE  TypeOK'
<1>1. PICK r \in Res, q \in 1..MaxQty : CreateReservation(r, q) \/ TopUpReservation(r, q)
  BY DEF SelectionListStep
<1>2. CASE CreateReservation(r, q)
  <2>1. [NoReservation EXCEPT !.status = "Reserved", !.qty = q] \in Reservation
    <3>1. NoReservation \in Reservation
      BY ConstantsAssumption DEF NoReservation, Reservation, ResStatus
    <3>2. q \in 0..MaxQty
      BY ConstantsAssumption
    <3> QED
      BY <3>1, <3>2 DEF Reservation, ResStatus
  <2> QED
    BY <1>2, <2>1 DEF CreateReservation, TypeOK
<1>3. CASE TopUpReservation(r, q)
  <2>1. resv[r].qty + q \in 0..MaxQty
    BY <1>3, ConstantsAssumption DEF TopUpReservation, TypeOK, Reservation
  <2>2. [resv[r] EXCEPT !.qty = @ + q] \in Reservation
    BY <2>1 DEF TypeOK, Reservation
  <2>3. resv' \in [Res -> Reservation]
    BY <1>3, <2>2 DEF TopUpReservation, TypeOK
  <2> QED
    BY <1>3, <2>3 DEF TopUpReservation, TypeOK
<1> QED
  BY <1>1, <1>2, <1>3

\* Every step keeps every variable in its type.
LEMMA TypeStep == TypeOK /\ [Next]_vars => TypeOK'
<1> SUFFICES ASSUME TypeOK, [Next]_vars PROVE TypeOK'
  OBVIOUS
<1>1. CASE SelectionListStep
  BY <1>1, SelectionListType
<1>2. CASE ConfirmStep
  BY <1>2, ConfirmType
<1>3. CASE BeginStep
  BY <1>3, BeginType DEF TypeOK
<1>4. CASE CommitStep
  BY <1>4, CommitType
<1>5. CASE JobStep
  BY <1>5, JobType
<1>6. CASE \E b \in Booking : DeadlinePasses(b)
  BY <1>6 DEF DeadlinePasses, TypeOK
<1>7. CASE UNCHANGED vars
  BY <1>7 DEF vars, TypeOK
<1> QED
  BY <1>1, <1>2, <1>3, <1>4, <1>5, <1>6, <1>7 DEF Next

\* The initial state is well typed.
LEMMA TypeInit == Init => TypeOK
<1> SUFFICES ASSUME Init PROVE TypeOK
  OBVIOUS
<1>1. stock \in [Sku -> Counters]
  BY ConstantsAssumption DEF Init, Shelf, Counters
<1>2. resv \in [Res -> Reservation]
  BY ConstantsAssumption DEF Init, NoReservation, Reservation, ResStatus
<1>3. row \in [Line -> Row]
  BY ConstantsAssumption DEF Init, NoRow, Row, RowStatus, StockState
<1> QED
  BY <1>1, <1>2, <1>3 DEF Init, TypeOK

\* Every reachable state is well formed: quantities stay within a line's bound,
\* statuses within the models' enums, requests and the job's list well typed.
THEOREM TypeCorrect == Spec => []TypeOK
BY TypeInit, TypeStep, PTL DEF Spec

-----------------------------------------------------------------------------
(* The inductive invariant.                                                *)

\* A booking number not drawn yet has no rows: a confirmation writes fresh ones.
FreshBookings == \A l \in Line : l[1] \notin used => row[l] = NoRow

\* A line that holds or has taken units is a live line of its booking, so a
\* settlement of the booking finds it.
HeldIsLive == \A l \in Line : row[l].stock \in {"reserved", "consumed"} => row[l].status \in Stage

IInv ==
  /\ TypeOK
  /\ FreshBookings
  /\ HeldIsLive
  /\ CountersBalance
  /\ BookedIsHeld
  /\ IssuedIsConsumed
  /\ NoOversell

\* The five ways a step can touch the counters and the rows.
Quiet == UNCHANGED <<stock, row, used>>
Confirming == \E b, po, want, g : Confirms(b, po, want, g)
SameLines(R) ==
  /\ R \in [Line -> Row]
  /\ \A l \in Line : /\ R[l].stock = row[l].stock
                     /\ R[l].qty = row[l].qty
                     /\ R[l].status = row[l].status
                     /\ row[l] = NoRow => R[l] = NoRow
Consuming == used' = used /\ \E b \in Booking : \E R : SameLines(R) /\ SettleConsume(b, R)
Releasing == used' = used /\ \E b \in Booking, i \in BOOLEAN : SettleRelease(b, i)
Restaging ==
  /\ UNCHANGED <<stock, used>>
  /\ \E b \in Booking, stage \in Stage :
       row' = [l \in Line |-> IF l \in Rows(b) THEN [row[l] EXCEPT !.status = stage] ELSE row[l]]

\* For the books, a step is one of five kinds: it confirms, consumes, releases,
\* restages a booking's lines, or leaves stock and line states alone.
LEMMA StepKinds ==
  ASSUME TypeOK, [Next]_vars
  PROVE  Quiet \/ Confirming \/ Consuming \/ Releasing \/ Restaging
<1>1. CASE SelectionListStep
  BY <1>1 DEF SelectionListStep, CreateReservation, TopUpReservation, Quiet
<1>2. CASE ConfirmStep
  BY <1>2, ConfirmShape DEF Confirming
<1>3. CASE BeginStep
  BY <1>3, BeginType DEF Quiet
<1>4. CASE CommitStep
  <2>1. PICK request \in inflight :
          \/ PoCommits(request)
          \/ IndentStamped(request)
          \/ CancelCommits(request)
          \/ LeftoverIndentCloses(request)
          \/ StatusCommits(request)
          \/ RequestFails(request)
    BY <1>4 DEF CommitStep
  <2>2. request \in Request
    BY DEF TypeOK
  <2>3. CASE PoCommits(request)
    <3>1. CASE AllCancelled(request.b)
      BY <2>3, <3>1 DEF PoCommits, Quiet
    <3>2. CASE ~AllCancelled(request.b)
      <4>1. request.b \in Booking /\ request.arg \in Po
        BY <2>2, <2>3, RequestArg DEF PoCommits
      <4>2. SameLines(Stamped(request.b, request.arg))
        BY <4>1, StampedRows DEF SameLines
      <4>3. SettleConsume(request.b, Stamped(request.b, request.arg)) /\ used' = used
        BY <2>3, <3>2 DEF PoCommits
      <4> QED
        BY <4>1, <4>2, <4>3 DEF Consuming
    <3> QED
      BY <3>1, <3>2
  <2>4. CASE IndentStamped(request) \/ LeftoverIndentCloses(request) \/ RequestFails(request)
    BY <2>4 DEF IndentStamped, LeftoverIndentCloses, RequestFails, Quiet
  <2>5. CASE CancelCommits(request)
    BY <2>2, <2>5, RequestArg DEF CancelCommits, Releasing
  <2>6. CASE StatusCommits(request)
    BY <2>2, <2>6, RequestArg DEF StatusCommits, Restaging
  <2> QED
    BY <2>1, <2>3, <2>4, <2>5, <2>6
<1>5. CASE JobStep
  <2>1. CASE JobScans \/ JobAborts
    BY <2>1 DEF JobScans, JobAborts, Quiet
  <2>2. ASSUME NEW b \in Booking, JobConsumes(b)
        PROVE  Quiet \/ Consuming
    <3>1. SameLines(row)
      BY DEF SameLines, TypeOK
    <3> QED
      BY <2>2, <3>1 DEF JobConsumes, Quiet, Consuming
  <2>3. ASSUME NEW b \in Booking, JobExpires(b)
        PROVE  Quiet \/ Releasing
    BY <2>3 DEF JobExpires, Quiet, Releasing
  <2> QED
    BY <1>5, <2>1, <2>2, <2>3 DEF JobStep
<1>6. CASE \E b \in Booking : DeadlinePasses(b)
  BY <1>6 DEF DeadlinePasses, Quiet
<1>7. CASE UNCHANGED vars
  BY <1>7 DEF vars, Quiet
<1> QED
  BY <1>1, <1>2, <1>3, <1>4, <1>5, <1>6, <1>7 DEF Next

\* The units of SKU s that lines hold, and that lines have taken out.
Held(s) == Quantity(row, LinesIn(row, "reserved"), s)
Issued(s) == Quantity(row, LinesIn(row, "consumed"), s)

\* A confirmation holds n units more and issues none.
LEMMA ConfirmUnits ==
  ASSUME IInv, NEW b, NEW po, NEW want, NEW g, Confirms(b, po, want, g), NEW s \in Sku
  PROVE  LET n == Quantity(Placed(b, g, po), NewLines(b, g), s)
         IN  /\ n \in Nat
             /\ n <= stock[s].avail
             /\ stock'[s] = Reserve(stock[s], n)
             /\ Held(s)' = Held(s) + n
             /\ Issued(s)' = Issued(s)
<1> DEFINE new == NewLines(b, g)
           n == Quantity(Placed(b, g, po), new, s)
<1>1. row' = Placed(b, g, po) /\ stock'[s] = Reserve(stock[s], n)
  BY DEF Confirms, PlaceBooking
<1>2. n \in Nat
  BY LineSets, UnitsFinite
<1>3. n <= stock[s].avail
  <2>1. CanTake(stock[s], Quantity(Placed(b, g, NoPo), new, s))
    BY DEF Confirms, Allots
  <2>2. ASSUME NEW l \in new PROVE Placed(b, g, NoPo)[l].qty = Placed(b, g, po)[l].qty
    <3>1. l \in Line /\ l[1] = b /\ l[2] \in DOMAIN g /\ g[l[2]] > 0
      BY DEF NewLines
    <3>2. Placed(b, g, NoPo)[l] = NewRow(g[l[2]], NoPo) /\ Placed(b, g, po)[l] = NewRow(g[l[2]], po)
      BY <3>1 DEF Placed
    <3>3. NewRow(g[l[2]], NoPo).qty = g[l[2]] /\ NewRow(g[l[2]], po).qty = g[l[2]]
      BY NewRowFields
    <3> QED
      BY <3>2, <3>3
  <2>3. Quantity(Placed(b, g, NoPo), new, s) = n
    BY <2>2, LineSets, QuantitySame
  <2>4. stock[s].avail \in Int
    BY DEF IInv, TypeOK, Counters
  <2> QED
    BY <1>2, <2>1, <2>3, <2>4 DEF CanTake
<1>4. \A l \in new : row[l].stock = "none" /\ row'[l].stock = "reserved"
  <2>1. \A l \in new : row[l] = NoRow
    BY DEF IInv, FreshBookings, NewLines, Confirms
  <2>3. NoRow.stock = "none"
    BY DEF NoRow
  <2>4. ASSUME NEW l \in new PROVE row'[l].stock = "reserved"
    <3>1. l \in Line /\ l[1] = b /\ l[2] \in DOMAIN g /\ g[l[2]] > 0
      BY DEF NewLines
    <3>2. row'[l] = NewRow(g[l[2]], po)
      BY <1>1, <3>1 DEF Placed
    <3>3. NewRow(g[l[2]], po).stock = "reserved"
      BY NewRowFields
    <3> QED
      BY <3>2, <3>3
  <2> QED
    BY <2>1, <2>3, <2>4
<1>5. \A l \in Line \ new : row'[l] = row[l]
  BY <1>1 DEF Placed, NewLines
<1>6. LinesIn(row', "reserved") = LinesIn(row, "reserved") \cup new
  BY <1>4, <1>5, LineSets DEF LinesIn
<1>7. LinesIn(row, "reserved") \cap new = {}
  BY <1>4 DEF LinesIn
<1>8. LinesIn(row', "consumed") = LinesIn(row, "consumed")
  BY <1>4, <1>5, LineSets DEF LinesIn
<1>9. Quantity(row', LinesIn(row, "reserved"), s) = Held(s)
  <2>1. \A l \in LinesIn(row, "reserved") : row'[l].qty = row[l].qty
    BY <1>5, <1>7, LineSets
  <2> QED
    BY <2>1, LineSets, QuantitySame DEF Held
<1>10. Quantity(row', LinesIn(row, "consumed"), s) = Issued(s)
  <2>1. \A l \in LinesIn(row, "consumed") : row'[l].qty = row[l].qty
    BY <1>4, <1>5, LineSets DEF LinesIn
  <2> QED
    BY <2>1, LineSets, QuantitySame DEF Issued
<1>11. Held(s)' = Held(s) + n
  <2>1. Quantity(row', LinesIn(row, "reserved") \cup new, s) =
          Quantity(row', LinesIn(row, "reserved"), s) + Quantity(row', new, s)
    BY <1>7, LineSets, QuantityAdd
  <2> QED
    BY <1>1, <1>6, <1>9, <2>1 DEF Held
<1>12. Issued(s)' = Issued(s)
  BY <1>8, <1>10 DEF Issued
<1> QED
  BY <1>1, <1>2, <1>3, <1>11, <1>12

\* A consumption turns n held units into issued ones.
LEMMA ConsumeUnits ==
  ASSUME IInv, NEW b \in Booking, NEW R, SameLines(R), SettleConsume(b, R), NEW s \in Sku
  PROVE  LET n == Quantity(row, Movable(b, FALSE), s)
         IN  /\ n \in Nat
             /\ n <= Held(s)
             /\ stock'[s] = Consume(stock[s], n)
             /\ Held(s)' = Held(s) - n
             /\ Issued(s)' = Issued(s) + n
<1> DEFINE lines == Movable(b, FALSE)
           n == Quantity(row, lines, s)
           held == LinesIn(row, "reserved")
           sold == LinesIn(row, "consumed")
<1>1. stock'[s] = Consume(stock[s], n)
  BY DEF SettleConsume
<1>2. lines \in SUBSET held /\ held \in SUBSET Line /\ sold \in SUBSET Line
  BY LineSets DEF Movable, LinesIn, Rows
<1>3. \A l \in Line : row'[l].qty = row[l].qty
  BY DEF SettleConsume, SameLines, Row
<1>4. \A l \in Line : row'[l].stock = IF l \in lines THEN "consumed" ELSE row[l].stock
  BY DEF SettleConsume, SameLines, Row
<1>5. LinesIn(row', "reserved") = held \ lines
  BY <1>4 DEF LinesIn
<1>6. LinesIn(row', "consumed") = sold \cup lines /\ sold \cap lines = {}
  BY <1>2, <1>4 DEF LinesIn
<1> HIDE DEF lines, held, sold
<1>7. n \in Nat /\ n <= Held(s) /\ Quantity(row, held \ lines, s) = Held(s) - n
  BY <1>2, QuantityMinus DEF Held, held
<1>8. Held(s)' = Held(s) - n
  <2>1. Quantity(row', held \ lines, s) = Quantity(row, held \ lines, s)
    BY <1>2, <1>3, QuantitySame
  <2> QED
    BY <1>5, <1>7, <2>1 DEF Held, held
<1>9. Issued(s)' = Issued(s) + n
  <2>1. Quantity(row', sold \cup lines, s) = Quantity(row, sold \cup lines, s)
    BY <1>2, <1>3, QuantitySame
  <2>2. Quantity(row, sold \cup lines, s) = Quantity(row, sold, s) + Quantity(row, lines, s)
    BY <1>2, <1>6, QuantityAdd
  <2> QED
    BY <1>6, <2>1, <2>2 DEF Issued, sold
<1> QED
  BY <1>1, <1>7, <1>8, <1>9 DEF lines

\* A release gives back n held units and k issued ones.
LEMMA ReleaseUnits ==
  ASSUME IInv, NEW b \in Booking, NEW i, SettleRelease(b, i), NEW s \in Sku
  PROVE  \E n, k \in Nat :
           /\ n <= Held(s)
           /\ stock'[s] = TakeBack(Release(stock[s], n), k)
           /\ Held(s)' = Held(s) - n
           /\ Issued(s)' = Issued(s) - k
<1> DEFINE lines == Movable(b, i)
           mine == {l \in lines : row[l].stock = "reserved"}
           back == {l \in lines : row[l].stock = "consumed"}
           held == LinesIn(row, "reserved")
           sold == LinesIn(row, "consumed")
           n == Quantity(row, mine, s)
           k == Quantity(row, back, s)
<1>1. stock'[s] = TakeBack(Release(stock[s], n), k)
  BY DEF SettleRelease
<1>2. /\ mine \in SUBSET held /\ held \in SUBSET Line
      /\ back \in SUBSET sold /\ sold \in SUBSET Line
  BY LineSets DEF LinesIn
<1>3. \A l \in Line : row'[l].qty = row[l].qty
  BY DEF SettleRelease, IInv, TypeOK, Row
<1>4. \A l \in Line : row'[l].stock = IF l \in lines THEN "released" ELSE row[l].stock
  BY DEF SettleRelease, IInv, TypeOK, Row
<1>5. LinesIn(row', "reserved") = held \ mine /\ LinesIn(row', "consumed") = sold \ back
  BY <1>4 DEF LinesIn
<1>6. n \in Nat /\ n <= Held(s) /\ Quantity(row, held \ mine, s) = Held(s) - n
  BY <1>2, QuantityMinus DEF Held
<1>7. k \in Nat /\ Quantity(row, sold \ back, s) = Issued(s) - k
  BY <1>2, QuantityMinus DEF Issued
<1>8. Quantity(row', held \ mine, s) = Quantity(row, held \ mine, s)
  BY <1>2, <1>3, QuantitySame
<1>9. Quantity(row', sold \ back, s) = Quantity(row, sold \ back, s)
  BY <1>2, <1>3, QuantitySame
<1>10. Held(s)' = Held(s) - n
  BY <1>5, <1>6, <1>8 DEF Held
<1>11. Issued(s)' = Issued(s) - k
  BY <1>5, <1>7, <1>9 DEF Issued
<1> QED
  BY <1>1, <1>6, <1>7, <1>10, <1>11

\* What the invariant says of one SKU, in the terms of the three lemmas above.
LEMMA Sums ==
  ASSUME IInv, NEW s \in Sku
  PROVE  /\ stock[s] \in Counters /\ Stock[s] \in Nat
         /\ Held(s) \in Nat /\ Issued(s) \in Nat
         /\ stock[s].booked = Held(s)
         /\ stock[s].total + Issued(s) = Stock[s]
         /\ stock[s].avail + stock[s].booked = stock[s].total
         /\ stock[s].avail >= 0
<1>1. Held(s) \in Nat /\ Issued(s) \in Nat
  BY LineSets, UnitsFinite DEF Held, Issued
<1> QED
  BY <1>1, ConstantsAssumption
  DEF IInv, TypeOK, BookedIsHeld, IssuedIsConsumed, CountersBalance, NoOversell,
      Balanced, Held, Issued

\* The sums still agree after any step that confirms, consumes or releases.
LEMMA SumsKept ==
  ASSUME IInv, TypeOK', Confirming \/ Consuming \/ Releasing, NEW s \in Sku
  PROVE  /\ stock'[s].booked = Held(s)'
         /\ stock'[s].total + Issued(s)' = Stock[s]
         /\ stock'[s].avail + stock'[s].booked = stock'[s].total
         /\ stock'[s].avail >= 0
<1>4. /\ stock[s].avail \in Int /\ stock[s].booked \in Int /\ stock[s].total \in Int
      /\ Stock[s] \in Nat /\ Held(s) \in Nat /\ Issued(s) \in Nat
      /\ stock[s].booked = Held(s)
      /\ stock[s].total + Issued(s) = Stock[s]
      /\ stock[s].avail + stock[s].booked = stock[s].total
      /\ stock[s].avail >= 0
  BY Sums DEF Counters
<1>1. CASE Confirming
  <2>1. PICK b, po, want, g : Confirms(b, po, want, g)
    BY <1>1 DEF Confirming
  <2>2. PICK n \in Nat : /\ n <= stock[s].avail
                         /\ stock'[s] = Reserve(stock[s], n)
                         /\ Held(s)' = Held(s) + n
                         /\ Issued(s)' = Issued(s)
    BY <2>1, ConfirmUnits
  <2>3. /\ Reserve(stock[s], n).avail = stock[s].avail - n
        /\ Reserve(stock[s], n).booked = stock[s].booked + n
        /\ Reserve(stock[s], n).total = stock[s].total
    BY <1>4, <2>2, Sums, ReserveEffect
  <2>4. /\ stock'[s].avail = stock[s].avail - n
        /\ stock'[s].booked = stock[s].booked + n
        /\ stock'[s].total = stock[s].total
    BY <2>2, <2>3
  <2> QED
    BY <1>4, <2>2, <2>4
<1>2. CASE Consuming
  <2>1. PICK b \in Booking : \E R : SameLines(R) /\ SettleConsume(b, R)
    BY <1>2 DEF Consuming
  <2>2. PICK n \in Nat : /\ n <= Held(s)
                         /\ stock'[s] = Consume(stock[s], n)
                         /\ Held(s)' = Held(s) - n
                         /\ Issued(s)' = Issued(s) + n
    BY <2>1, ConsumeUnits
  <2>3. /\ Consume(stock[s], n).avail = stock[s].avail
        /\ Consume(stock[s], n).booked = stock[s].booked - n
        /\ Consume(stock[s], n).total = stock[s].total - n
    BY <1>4, <2>2, Sums, ConsumeEffect
  <2>4. /\ stock'[s].avail = stock[s].avail
        /\ stock'[s].booked = stock[s].booked - n
        /\ stock'[s].total = stock[s].total - n
    BY <2>2, <2>3
  <2> QED
    BY <1>4, <2>2, <2>4
<1>3. CASE Releasing
  <2>1. PICK b \in Booking, i \in BOOLEAN : SettleRelease(b, i)
    BY <1>3 DEF Releasing
  <2>2. PICK n \in Nat, k \in Nat : /\ n <= Held(s)
                                    /\ stock'[s] = TakeBack(Release(stock[s], n), k)
                                    /\ Held(s)' = Held(s) - n
                                    /\ Issued(s)' = Issued(s) - k
    BY <2>1, ReleaseUnits
  <2>3. /\ TakeBack(Release(stock[s], n), k).avail = stock[s].avail + n + k
        /\ TakeBack(Release(stock[s], n), k).booked = stock[s].booked - n
        /\ TakeBack(Release(stock[s], n), k).total = stock[s].total + k
    <3>1. stock[s] \in Counters /\ n <= stock[s].booked
      BY <1>4, <2>2, Sums
    <3> QED
      BY <3>1, ReleaseEffect
  <2>4. /\ stock'[s].avail = stock[s].avail + n + k
        /\ stock'[s].booked = stock[s].booked - n
        /\ stock'[s].total = stock[s].total + k
    BY <2>2, <2>3
  <2> QED
    BY <1>4, <2>2, <2>4
<1> QED
  BY <1>1, <1>2, <1>3

\* Moving lines along their stages leaves every quantity and every hold alone.
LEMMA RestageSums ==
  ASSUME IInv, Restaging, NEW s \in Sku
  PROVE  Held(s)' = Held(s) /\ Issued(s)' = Issued(s)
<1>1. PICK b \in Booking, stage \in Stage :
        row' = [l \in Line |-> IF l \in Rows(b) THEN [row[l] EXCEPT !.status = stage] ELSE row[l]]
  BY DEF Restaging
<1>2. \A l \in Line : row'[l].qty = row[l].qty /\ row'[l].stock = row[l].stock
  BY <1>1 DEF IInv, TypeOK, Row
<1>3. /\ LinesIn(row', "reserved") = LinesIn(row, "reserved")
      /\ LinesIn(row', "consumed") = LinesIn(row, "consumed")
  BY <1>2 DEF LinesIn
<1>4. /\ Quantity(row', LinesIn(row, "reserved"), s) = Quantity(row, LinesIn(row, "reserved"), s)
      /\ Quantity(row', LinesIn(row, "consumed"), s) = Quantity(row, LinesIn(row, "consumed"), s)
  BY <1>2, LineSets, QuantitySame
<1> QED
  BY <1>3, <1>4 DEF Held, Issued

\* What each kind of step does to a row's status and stock state.
LEMMA RowEffects ==
  ASSUME IInv, NEW l \in Line
  PROVE  /\ \A b, po, want, g :
              Confirms(b, po, want, g) =>
                \/ row'[l] = row[l]
                \/ /\ l[1] = b
                   /\ row[l].status = "none" /\ row[l].stock = "none"
                   /\ row'[l].status = "PO Received" /\ row'[l].stock = "reserved"
         /\ \A b, R :
              SameLines(R) /\ SettleConsume(b, R) =>
                /\ row'[l].status = row[l].status
                /\ row'[l].stock = IF l \in Movable(b, FALSE) THEN "consumed" ELSE row[l].stock
         /\ \A b, i :
              SettleRelease(b, i) =>
                IF l \in Movable(b, i)
                THEN row'[l].status = "Cancelled" /\ row'[l].stock = "released"
                ELSE row'[l] = row[l]
<1>1. ASSUME NEW b, NEW po, NEW want, NEW g, Confirms(b, po, want, g)
      PROVE  \/ row'[l] = row[l]
             \/ /\ l[1] = b
                /\ row[l].status = "none" /\ row[l].stock = "none"
                /\ row'[l].status = "PO Received" /\ row'[l].stock = "reserved"
  <2>1. row' = Placed(b, g, po) /\ b \notin used
    BY <1>1 DEF Confirms, PlaceBooking
  <2>2. CASE l[1] = b /\ l[2] \in DOMAIN g /\ g[l[2]] > 0
    <3>1. row'[l] = NewRow(g[l[2]], po)
      BY <2>1, <2>2 DEF Placed
    <3>2. /\ NewRow(g[l[2]], po).status = "PO Received"
          /\ NewRow(g[l[2]], po).stock = "reserved"
      BY NewRowFields
    <3>3. row[l] = NoRow
      BY <2>1, <2>2 DEF IInv, FreshBookings
    <3>4. NoRow.status = "none" /\ NoRow.stock = "none"
      BY DEF NoRow
    <3> QED
      BY <2>2, <3>1, <3>2, <3>3, <3>4
  <2>3. CASE ~(l[1] = b /\ l[2] \in DOMAIN g /\ g[l[2]] > 0)
    BY <2>1, <2>3 DEF Placed
  <2> QED
    BY <2>2, <2>3
<1>2. ASSUME NEW b, NEW R, SameLines(R), SettleConsume(b, R)
      PROVE  /\ row'[l].status = row[l].status
             /\ row'[l].stock = IF l \in Movable(b, FALSE) THEN "consumed" ELSE row[l].stock
  BY <1>2 DEF SettleConsume, SameLines, Row
<1>3. ASSUME NEW b, NEW i, SettleRelease(b, i)
      PROVE  IF l \in Movable(b, i)
             THEN row'[l].status = "Cancelled" /\ row'[l].stock = "released"
             ELSE row'[l] = row[l]
  BY <1>3 DEF SettleRelease, IInv, TypeOK, Row
<1> QED
  BY <1>1, <1>2, <1>3

\* A booking number that was never drawn has no rows, after any step.
LEMMA FreshStep == IInv /\ [Next]_vars => FreshBookings'
<1> SUFFICES ASSUME IInv, [Next]_vars, NEW l \in Line, l[1] \notin used' PROVE row'[l] = NoRow
  BY DEF FreshBookings
<1>1. Quiet \/ Confirming \/ Consuming \/ Releasing \/ Restaging
  BY StepKinds DEF IInv
<1>2. CASE Quiet
  BY <1>2 DEF Quiet, IInv, FreshBookings
<1>3. CASE Confirming
  <2>1. PICK b, po, want, g : Confirms(b, po, want, g)
    BY <1>3 DEF Confirming
  <2>2. used' = used \cup {b}
    BY <2>1 DEF Confirms, PlaceBooking
  <2>3. row'[l] = row[l]
    BY <2>1, <2>2, RowEffects
  <2> QED
    BY <2>2, <2>3 DEF IInv, FreshBookings
<1>4. CASE Consuming \/ Releasing \/ Restaging
  <2>1. l[1] \notin used /\ row[l] = NoRow
    BY <1>4 DEF Consuming, Releasing, Restaging, IInv, FreshBookings
  <2>2. \A b : l \notin Rows(b)
    BY <2>1 DEF Rows, NoRow
  <2>3. \A b, i : l \notin Movable(b, i)
    BY <2>2 DEF Movable
  <2>4. CASE Releasing
    BY <2>1, <2>3, <2>4, RowEffects DEF Releasing
  <2>5. CASE Restaging
    BY <2>1, <2>2, <2>5 DEF Restaging
  <2>6. CASE Consuming
    BY <2>1, <2>3, <2>6 DEF Consuming, SettleConsume, SameLines
  <2> QED
    BY <1>4, <2>4, <2>5, <2>6
<1> QED
  BY <1>1, <1>2, <1>3, <1>4

\* No step cancels a line and leaves its units held.
LEMMA LiveStep == IInv /\ TypeOK' /\ [Next]_vars => HeldIsLive'
<1> SUFFICES ASSUME IInv, TypeOK', [Next]_vars, NEW l \in Line,
                    row'[l].stock \in {"reserved", "consumed"}
             PROVE  row'[l].status \in Stage
  BY DEF HeldIsLive
<1>1. Quiet \/ Confirming \/ Consuming \/ Releasing \/ Restaging
  BY StepKinds DEF IInv
<1>2. CASE Quiet
  BY <1>2 DEF Quiet, IInv, HeldIsLive
<1>3. CASE Confirming
  <2>1. "PO Received" \in Stage
    BY DEF Stage
  <2> QED
    BY <1>3, <2>1, RowEffects DEF Confirming, IInv, HeldIsLive
<1>4. CASE Consuming
  <2>1. PICK b, R : SameLines(R) /\ SettleConsume(b, R)
    BY <1>4 DEF Consuming
  <2>2. /\ row'[l].status = row[l].status
        /\ row'[l].stock = IF l \in Movable(b, FALSE) THEN "consumed" ELSE row[l].stock
    BY <2>1, RowEffects
  <2>3. l \in Movable(b, FALSE) => row[l].stock = "reserved"
    BY DEF Movable
  <2> QED
    BY <2>2, <2>3 DEF IInv, HeldIsLive
<1>5. CASE Releasing
  BY <1>5, RowEffects DEF Releasing, IInv, HeldIsLive
<1>6. CASE Restaging
  <2>1. PICK b \in Booking, stage \in Stage :
          row' = [m \in Line |-> IF m \in Rows(b) THEN [row[m] EXCEPT !.status = stage] ELSE row[m]]
    BY <1>6 DEF Restaging
  <2>2. CASE l \in Rows(b)
    BY <2>1, <2>2 DEF IInv, TypeOK, Row
  <2>3. CASE l \notin Rows(b)
    BY <2>1, <2>3 DEF IInv, HeldIsLive
  <2> QED
    BY <2>2, <2>3
<1> QED
  BY <1>1, <1>2, <1>3, <1>4, <1>5, <1>6

\* No step parts the counters from the sums over the lines.
LEMMA SumsStep ==
  IInv /\ TypeOK' /\ [Next]_vars =>
    CountersBalance' /\ BookedIsHeld' /\ IssuedIsConsumed' /\ NoOversell'
<1> SUFFICES ASSUME IInv, TypeOK', [Next]_vars, NEW s \in Sku
             PROVE  /\ stock'[s].booked = Held(s)'
                    /\ stock'[s].total + Issued(s)' = Stock[s]
                    /\ stock'[s].avail + stock'[s].booked = stock'[s].total
                    /\ stock'[s].avail >= 0
  BY DEF CountersBalance, BookedIsHeld, IssuedIsConsumed, NoOversell, Balanced, Held, Issued
<1>1. CASE Quiet
  <2>1. Held(s)' = Held(s) /\ Issued(s)' = Issued(s) /\ stock' = stock
    BY <1>1 DEF Quiet, Held, Issued
  <2> QED
    BY <2>1, Sums
<1>2. CASE Confirming \/ Consuming \/ Releasing
  BY <1>2, SumsKept
<1>3. CASE Restaging
  BY <1>3, RestageSums, Sums DEF Restaging
<1> QED
  BY <1>1, <1>2, <1>3, StepKinds DEF IInv

\* The inductive invariant is kept by every step.
LEMMA InvStep == IInv /\ [Next]_vars => IInv'
BY TypeStep, FreshStep, LiveStep, SumsStep DEF IInv

\* The inductive invariant holds at the start.
LEMMA InvInit == Init => IInv
<1> SUFFICES ASSUME Init PROVE IInv
  OBVIOUS
<1>1. TypeOK
  BY TypeInit
<1>2. \A l \in Line : row[l] = NoRow
  BY DEF Init
<1>3. NoRow.stock = "none"
  BY DEF NoRow
<1>4. FreshBookings /\ HeldIsLive
  BY <1>2, <1>3 DEF FreshBookings, HeldIsLive
<1>5. LinesIn(row, "reserved") = {} /\ LinesIn(row, "consumed") = {}
  BY <1>2, <1>3 DEF LinesIn
<1>6. \A s \in Sku : Held(s) = 0 /\ Issued(s) = 0
  BY <1>5, QuantityNone DEF Held, Issued
<1>7. \A s \in Sku : /\ stock[s].avail = Stock[s]
                     /\ stock[s].booked = 0
                     /\ stock[s].total = Stock[s]
                     /\ Stock[s] \in Nat
  BY ConstantsAssumption DEF Init, Shelf
<1>8. CountersBalance /\ NoOversell
  BY <1>7 DEF CountersBalance, NoOversell, Balanced
<1>9. BookedIsHeld /\ IssuedIsConsumed
  BY <1>6, <1>7 DEF BookedIsHeld, IssuedIsConsumed, Held, Issued
<1> QED
  BY <1>1, <1>4, <1>8, <1>9 DEF IInv

\* The inductive invariant holds in every reachable state.
THEOREM Invariance == Spec => []IInv
BY InvInit, InvStep, PTL DEF Spec

\* Available plus booked is always the total: releaseStock, which gives the shelf
\* more than booked loses when booked is short, is never called in that situation.
THEOREM CountersAlwaysBalance == Spec => []CountersBalance
BY Invariance, PTL DEF IInv

\* bookedQuantity is always the sum over the reserved lines: no unit is held for
\* nobody and none is held twice, whatever requests and job runs interleave.
THEOREM BookedAlwaysHeld == Spec => []BookedIsHeld
BY Invariance, PTL DEF IInv

\* What left inventory is always the sum over the consumed lines: a PO takes a unit
\* out once and a cancellation after it brings it back once.
THEOREM IssuedAlwaysConsumed == Spec => []IssuedIsConsumed
BY Invariance, PTL DEF IInv

\* The shelf is never sold below zero.
THEOREM NeverOversold == Spec => []NoOversell
BY Invariance, PTL DEF IInv

-----------------------------------------------------------------------------
(* A booking is settled as a whole.                                        *)

\* A live line that still holds units is movable by any settlement of its booking.
LEMMA HeldIsMovable ==
  ASSUME IInv, NEW l \in Line, row[l].stock = "reserved", NEW i
  PROVE  l \in Movable(l[1], i)
<1>1. row[l].status \in Stage
  BY DEF IInv, HeldIsLive
<1> QED
  BY <1>1 DEF Movable, Rows, Stage

\* No step settles one line of a booking and leaves another reserved.
LEMMA WholeStep == IInv /\ SettledAsAWhole /\ [Next]_vars => SettledAsAWhole'
<1> SUFFICES ASSUME IInv, SettledAsAWhole, [Next]_vars,
                    NEW l \in Line, NEW m \in Line, l[1] = m[1], row'[l].stock = "reserved"
             PROVE  row'[m].stock \in {"none", "reserved"}
  BY DEF SettledAsAWhole
<1>1. Quiet \/ Confirming \/ Consuming \/ Releasing \/ Restaging
  BY StepKinds DEF IInv
<1>2. CASE Quiet
  BY <1>2 DEF Quiet, SettledAsAWhole
<1>3. CASE Confirming
  <2>1. PICK b, po, want, g : Confirms(b, po, want, g)
    BY <1>3 DEF Confirming
  <2>2. CASE row'[l] = row[l]
    <3>1. row[m].stock \in {"none", "reserved"}
      BY <2>2 DEF SettledAsAWhole
    <3> QED
      BY <2>1, <3>1, RowEffects
  <2>3. CASE row'[l] # row[l]
    <3>1. l[1] = b
      BY <2>1, <2>3, RowEffects
    <3>2. row[m] = NoRow
      BY <2>1, <3>1 DEF Confirms, IInv, FreshBookings
    <3>3. row[m].stock = "none"
      BY <3>2 DEF NoRow
    <3> QED
      BY <2>1, <3>3, RowEffects
  <2> QED
    BY <2>2, <2>3
<1>4. CASE Consuming
  <2>1. PICK b, R : SameLines(R) /\ SettleConsume(b, R)
    BY <1>4 DEF Consuming
  <2>2. row[l].stock = "reserved" /\ l \notin Movable(b, FALSE)
    BY <2>1, RowEffects
  <2>3. l[1] # b
    BY <2>2, HeldIsMovable
  <2>4. m \notin Movable(b, FALSE)
    BY <2>3 DEF Movable, Rows
  <2> QED
    BY <2>1, <2>2, <2>4, RowEffects DEF SettledAsAWhole
<1>5. CASE Releasing
  <2>1. PICK b \in Booking, i \in BOOLEAN : SettleRelease(b, i)
    BY <1>5 DEF Releasing
  <2>2. l \notin Movable(b, i) /\ row[l].stock = "reserved"
    BY <2>1, RowEffects
  <2>3. l[1] # b
    BY <2>2, HeldIsMovable
  <2>4. m \notin Movable(b, i)
    BY <2>3 DEF Movable, Rows
  <2> QED
    BY <2>1, <2>2, <2>4, RowEffects DEF SettledAsAWhole
<1>6. CASE Restaging
  <2>1. row'[l].stock = row[l].stock /\ row'[m].stock = row[m].stock
    BY <1>6 DEF Restaging, IInv, TypeOK, Row
  <2> QED
    BY <2>1 DEF SettledAsAWhole
<1> QED
  BY <1>1, <1>2, <1>3, <1>4, <1>5, <1>6

\* Reserved lines and settled lines never meet in one booking.
THEOREM AlwaysSettledAsAWhole == Spec => []SettledAsAWhole
<1>1. Init => SettledAsAWhole
  BY DEF Init, SettledAsAWhole, NoRow
<1> QED
  BY <1>1, WholeStep, Invariance, PTL DEF Spec

-----------------------------------------------------------------------------
(* What a step may do to a line.                                           *)

\* A step moves a line's stock state only along the allowed transitions.
LEMMA SettleStep ==
  ASSUME IInv, [Next]_vars, NEW l \in Line, row'[l].stock # row[l].stock
  PROVE  \/ row[l].stock = "none" /\ row'[l].stock = "reserved"
         \/ row[l].stock = "reserved" /\ row'[l].stock \in {"consumed", "released"}
         \/ /\ row[l].stock = "consumed" /\ row'[l].stock = "released"
            /\ row'[l].status = "Cancelled"
<1>1. Quiet \/ Confirming \/ Consuming \/ Releasing \/ Restaging
  BY StepKinds DEF IInv
<1>2. CASE Quiet
  BY <1>2 DEF Quiet
<1>3. CASE Confirming
  BY <1>3, RowEffects DEF Confirming
<1>4. CASE Consuming
  <2>1. PICK b, R : SameLines(R) /\ SettleConsume(b, R)
    BY <1>4 DEF Consuming
  <2>2. l \in Movable(b, FALSE) /\ row'[l].stock = "consumed"
    BY <2>1, RowEffects
  <2> QED
    BY <2>2 DEF Movable
<1>5. CASE Releasing
  <2>1. PICK b \in Booking, i \in BOOLEAN : SettleRelease(b, i)
    BY <1>5 DEF Releasing
  <2>2. l \in Movable(b, i) /\ row'[l].stock = "released" /\ row'[l].status = "Cancelled"
    BY <2>1, RowEffects
  <2> QED
    BY <2>2 DEF Movable
<1>6. CASE Restaging
  BY <1>6 DEF Restaging, IInv, TypeOK, Row
<1> QED
  BY <1>1, <1>2, <1>3, <1>4, <1>5, <1>6

\* A line's stock is settled once, whatever requests and job runs overlap.
THEOREM AlwaysSettledOnce == Spec => SettledOnce
<1>1. IInv /\ [Next]_vars =>
        [\A l \in Line :
           row'[l].stock # row[l].stock =>
             \/ row[l].stock = "none" /\ row'[l].stock = "reserved"
             \/ row[l].stock = "reserved" /\ row'[l].stock \in {"consumed", "released"}
             \/ /\ row[l].stock = "consumed" /\ row'[l].stock = "released"
                /\ row'[l].status = "Cancelled"]_vars
  BY SettleStep
<1> QED
  BY <1>1, Invariance, PTL DEF Spec, SettledOnce

\* The job never cancels a booking that is not due, or that shows a PO by then,
\* however old the list is that it works from.
THEOREM ExpiryAlwaysDue == Spec => ExpiryIsDue
<1>1. ASSUME IInv, [Next]_vars, NEW l \in Line,
             job' # job, row'[l].status = "Cancelled", row[l].status # "Cancelled"
      PROVE  l[1] \in overdue /\ ~IsLocked(l[1])
  <2>1. CASE SelectionListStep
    BY <1>1, <2>1 DEF SelectionListStep, CreateReservation, TopUpReservation
  <2>2. CASE ConfirmStep
    BY <1>1, <2>2, ConfirmShape DEF IInv
  <2>3. CASE BeginStep
    BY <1>1, <2>3, BeginType DEF IInv
  <2>4. CASE CommitStep
    BY <1>1, <2>4
    DEF CommitStep, PoCommits, IndentStamped, CancelCommits, LeftoverIndentCloses,
        StatusCommits, RequestFails
  <2>5. CASE JobScans \/ JobAborts
    BY <1>1, <2>5 DEF JobScans, JobAborts
  <2>6. ASSUME NEW b \in Booking, JobConsumes(b)
        PROVE  FALSE
    <3>1. CASE IsLocked(b)
      <4>1. SettleConsume(b, row) /\ SameLines(row)
        BY <1>1, <2>6, <3>1 DEF JobConsumes, SameLines, IInv, TypeOK
      <4> QED
        BY <1>1, <4>1, RowEffects
    <3>2. CASE ~IsLocked(b)
      BY <1>1, <2>6, <3>2 DEF JobConsumes
    <3> QED
      BY <3>1, <3>2
  <2>7. ASSUME NEW b \in Booking, JobExpires(b)
        PROVE  l[1] \in overdue /\ ~IsLocked(l[1])
    <3>1. CASE b \in overdue /\ ~IsLocked(b)
      <4>1. SettleRelease(b, FALSE)
        BY <2>7, <3>1 DEF JobExpires
      <4>2. l \in Movable(b, FALSE)
        BY <1>1, <4>1, RowEffects
      <4>3. l[1] = b
        BY <4>2 DEF Movable, Rows
      <4> QED
        BY <3>1, <4>3
    <3>2. CASE ~(b \in overdue /\ ~IsLocked(b))
      BY <1>1, <2>7, <3>2 DEF JobExpires
    <3> QED
      BY <3>1, <3>2
  <2>8. CASE \E b \in Booking : DeadlinePasses(b)
    BY <1>1, <2>8 DEF DeadlinePasses
  <2>9. CASE UNCHANGED vars
    BY <1>1, <2>9 DEF vars
  <2> QED
    BY <1>1, <2>1, <2>2, <2>3, <2>4, <2>5, <2>6, <2>7, <2>8, <2>9 DEF Next, JobStep
<1>2. IInv /\ [Next]_vars =>
        [\A l \in Line :
           job' # job /\ row'[l].status = "Cancelled" /\ row[l].status # "Cancelled" =>
             l[1] \in overdue /\ ~IsLocked(l[1])]_vars
  BY <1>1
<1> QED
  BY <1>2, Invariance, PTL DEF Spec, ExpiryIsDue

-----------------------------------------------------------------------------
(* A cancelled booking keeps no open indent.                               *)

\* Whether a booking is cancelled depends on nothing but its rows' statuses.
LEMMA CancelledSame ==
  ASSUME NEW b, \A l \in Line : l[1] = b => row'[l].status = row[l].status
  PROVE  Rows(b)' = Rows(b) /\ AllCancelled(b)' = AllCancelled(b)
<1>1. Rows(b)' = Rows(b)
  BY DEF Rows
<1>2. \A l \in Rows(b) : row'[l].status = row[l].status
  BY DEF Rows
<1> QED
  BY <1>1, <1>2 DEF AllCancelled

\* A reservation a confirmation leaves open is left open for that booking.
LEMMA OutcomeIndent ==
  ASSUME NEW doc \in Reservation, NEW w \in 0..MaxQty, NEW n \in 0..MaxQty,
         NEW b \in Booking, NEW po \in Po \cup {NoPo},
         Outcome(doc, w, n, b, po).status \in OpenIndent
  PROVE  Outcome(doc, w, n, b, po).indent = b
<1>1. CASE n = w
  BY <1>1 DEF Outcome, OpenIndent, Reservation
<1>2. CASE n # w
  BY <1>2 DEF Outcome, Reservation
<1> QED
  BY <1>1, <1>2

\* settleBooking leaves no open indent behind a booking it has cancelled.
LEMMA ReleaseIndent ==
  ASSUME IInv, CancelledKeepsNoIndent,
         NEW c \in Booking, NEW i, SettleRelease(c, i),
         NEW b \in Booking, NEW r \in Res,
         Rows(b)' # {}, AllCancelled(b)', resv'[r].indent = b
  PROVE  resv'[r].status \notin OpenIndent
<1>1. CASE Movable(c, i) = {}
  <2>1. \A l \in Line : row'[l] = row[l]
    BY <1>1, RowEffects
  <2>2. Rows(b) # {} /\ AllCancelled(b)
    BY <2>1, CancelledSame
  <2> QED
    BY <1>1, <2>2 DEF SettleRelease, CancelledKeepsNoIndent
<1>2. CASE Movable(c, i) # {}
  <2>1. resv' = IndentClosed(c)
    BY <1>2 DEF SettleRelease
  <2>2. resv[r].indent = b
    BY <2>1 DEF IndentClosed, IInv, TypeOK, Reservation
  <2>3. CASE b = c
    BY <2>1, <2>2, <2>3 DEF IndentClosed, IInv, TypeOK, Reservation, OpenIndent
  <2>4. CASE b # c
    <3>1. \A l \in Line : l[1] = b => l \notin Movable(c, i)
      BY <2>4 DEF Movable, Rows
    <3>2. \A l \in Line : l[1] = b => row'[l] = row[l]
      BY <3>1, RowEffects
    <3>3. Rows(b) # {} /\ AllCancelled(b)
      BY <3>2, CancelledSame
    <3> QED
      BY <2>1, <2>2, <2>4, <3>3 DEF IndentClosed, CancelledKeepsNoIndent
  <2> QED
    BY <2>3, <2>4
<1> QED
  BY <1>1, <1>2

\* Steps that leave the statuses of rows alone and open no indent.
LEMMA IndentSame ==
  ASSUME CancelledKeepsNoIndent,
         NEW b \in Booking, NEW r \in Res,
         Rows(b)' # {}, AllCancelled(b)',
         \A l \in Line : l[1] = b => row'[l].status = row[l].status,
         \/ resv'[r].indent = resv[r].indent /\ resv'[r].status = resv[r].status
         \/ resv'[r].status \notin OpenIndent,
         resv'[r].indent = b
  PROVE  resv'[r].status \notin OpenIndent
BY CancelledSame DEF CancelledKeepsNoIndent

\* No step cancels the last live line of a booking and leaves its indent open.
LEMMA IndentStep == IInv /\ CancelledKeepsNoIndent /\ [Next]_vars => CancelledKeepsNoIndent'
<1> SUFFICES ASSUME IInv, CancelledKeepsNoIndent, [Next]_vars,
                    NEW b \in Booking, NEW r \in Res,
                    Rows(b)' # {}, AllCancelled(b)', resv'[r].indent = b
             PROVE  resv'[r].status \notin OpenIndent
  BY DEF CancelledKeepsNoIndent
<1>1. CASE UNCHANGED <<row, resv>>
  BY <1>1, IndentSame
<1>2. CASE SelectionListStep
  <2>1. PICK c \in Res, q \in 1..MaxQty : CreateReservation(c, q) \/ TopUpReservation(c, q)
    BY <1>2 DEF SelectionListStep
  <2>2. row' = row
    BY <2>1 DEF CreateReservation, TopUpReservation
  <2>3. CASE CreateReservation(c, q)
    <3>1. [NoReservation EXCEPT !.status = "Reserved", !.qty = q].status = "Reserved"
      BY DEF NoReservation
    <3>2. r = c => resv'[r].status = "Reserved"
      BY <2>3, <3>1 DEF CreateReservation, IInv, TypeOK
    <3>3. r # c => resv'[r] = resv[r]
      BY <2>3 DEF CreateReservation, IInv, TypeOK
    <3> QED
      BY <2>2, <3>2, <3>3, IndentSame DEF OpenIndent
  <2>4. CASE TopUpReservation(c, q)
    <3>1. resv'[r].indent = resv[r].indent /\ resv'[r].status = resv[r].status
      BY <2>4 DEF TopUpReservation, IInv, TypeOK, Reservation
    <3> QED
      BY <2>2, <3>1, IndentSame
  <2> QED
    BY <2>1, <2>3, <2>4
<1>3. CASE ConfirmStep
  <2>1. PICK c, po, want, g : /\ Confirms(c, po, want, g)
                              /\ resv' = resv \/ ReservationsConfirmed(c, po, want, g)
    BY <1>3, ConfirmShape DEF IInv
  <2>2. c \in Booking /\ po \in Po \cup {NoPo}
    BY <2>1 DEF Confirms
  <2>3. CASE b = c
    <3>1. PICK l \in Line : l[1] = b /\ row'[l].status = "Cancelled"
      BY DEF Rows, AllCancelled
    <3>2. row[l] = NoRow
      BY <2>1, <2>3, <3>1 DEF Confirms, IInv, FreshBookings
    <3>3. row[l].status = "none"
      BY <3>2 DEF NoRow
    <3> QED
      BY <2>1, <3>1, <3>3, RowEffects
  <2>4. CASE b # c
    <3>1. \A l \in Line : l[1] = b => row'[l].status = row[l].status
      BY <2>1, <2>4, RowEffects
    <3>2. resv'[r] = resv[r] \/ resv'[r].status \notin OpenIndent
      <4>1. CASE resv' = resv \/ r \notin DOMAIN want
        BY <2>1, <4>1 DEF ReservationsConfirmed
      <4>2. CASE resv' # resv /\ r \in DOMAIN want
        <5>1. resv'[r] = Outcome(resv[r], want[r], g[r], c, po)
          BY <2>1, <4>2 DEF ReservationsConfirmed
        <5>2. resv[r] \in Reservation /\ want[r] \in 0..MaxQty /\ g[r] \in 0..MaxQty
          BY <2>1, <4>2 DEF Confirms, IInv, TypeOK
        <5>3. Outcome(resv[r], want[r], g[r], c, po).status \in OpenIndent =>
                Outcome(resv[r], want[r], g[r], c, po).indent = c
          BY <2>2, <5>2, OutcomeIndent
        <5> QED
          BY <2>4, <5>1, <5>3
      <4> QED
        BY <4>1, <4>2
    <3> QED
      BY <3>1, <3>2, IndentSame
  <2> QED
    BY <2>3, <2>4
<1>4. CASE BeginStep
  BY <1>1, <1>4, BeginType DEF IInv
<1>5. CASE CommitStep
  <2>1. PICK request \in inflight :
          \/ PoCommits(request)
          \/ IndentStamped(request)
          \/ CancelCommits(request)
          \/ LeftoverIndentCloses(request)
          \/ StatusCommits(request)
          \/ RequestFails(request)
    BY <1>5 DEF CommitStep
  <2>2. request \in Request /\ request.b \in Booking
    BY RequestArg DEF IInv, TypeOK
  <2>3. CASE PoCommits(request)
    <3>1. CASE AllCancelled(request.b)
      BY <1>1, <2>3, <3>1 DEF PoCommits
    <3>2. CASE ~AllCancelled(request.b)
      <4>1. request.arg \in Po
        BY <2>2, <2>3, RequestArg DEF PoCommits
      <4>2. SameLines(Stamped(request.b, request.arg))
        BY <4>1, StampedRows DEF SameLines, IInv
      <4>3. SettleConsume(request.b, Stamped(request.b, request.arg)) /\ resv' = resv
        BY <2>3, <3>2 DEF PoCommits
      <4>4. \A l \in Line : row'[l].status = row[l].status
        BY <4>2, <4>3, RowEffects
      <4> QED
        BY <4>3, <4>4, IndentSame
    <3> QED
      BY <3>1, <3>2
  <2>4. CASE IndentStamped(request)
    <3>1. resv'[r].indent = resv[r].indent /\ resv'[r].status = resv[r].status
      BY <2>4 DEF IndentStamped, IInv, TypeOK, Reservation
    <3> QED
      BY <2>4, <3>1, IndentSame DEF IndentStamped
  <2>5. CASE CancelCommits(request)
    BY <2>2, <2>5, ReleaseIndent DEF CancelCommits
  <2>6. CASE LeftoverIndentCloses(request)
    <3>1. resv'[r] = resv[r] \/ resv'[r].status \notin OpenIndent
      BY <2>6 DEF LeftoverIndentCloses, IndentClosed, IInv, TypeOK, Reservation, OpenIndent
    <3> QED
      BY <2>6, <3>1, IndentSame DEF LeftoverIndentCloses
  <2>7. CASE StatusCommits(request)
    <3>1. request.arg \in Stage
      BY <2>2, <2>7, RequestArg DEF StatusCommits
    <3>2. CASE b = request.b
      <4>1. PICK l \in Line : l[1] = b /\ row'[l].status = "Cancelled"
        BY DEF Rows, AllCancelled
      <4>2. CASE l \in Rows(b)
        <5>1. row'[l].status = request.arg
          BY <2>7, <3>2, <4>2 DEF StatusCommits, IInv, TypeOK, Row
        <5> QED
          BY <3>1, <4>1, <5>1 DEF Stage
      <4>3. CASE l \notin Rows(b)
        BY <2>7, <3>2, <4>1, <4>3 DEF StatusCommits, Rows
      <4> QED
        BY <4>2, <4>3
    <3>3. CASE b # request.b
      <4>1. \A l \in Line : l[1] = b => row'[l].status = row[l].status
        BY <2>7, <3>3 DEF StatusCommits, Rows
      <4> QED
        BY <2>7, <4>1, IndentSame DEF StatusCommits
    <3> QED
      BY <3>2, <3>3
  <2>8. CASE RequestFails(request)
    BY <1>1, <2>8 DEF RequestFails
  <2> QED
    BY <2>1, <2>3, <2>4, <2>5, <2>6, <2>7, <2>8
<1>6. CASE JobStep
  <2>1. CASE JobScans \/ JobAborts
    BY <1>1, <2>1 DEF JobScans, JobAborts
  <2>2. ASSUME NEW c \in Booking, JobConsumes(c)
        PROVE  resv'[r].status \notin OpenIndent
    <3>1. CASE IsLocked(c)
      <4>1. SettleConsume(c, row) /\ SameLines(row) /\ resv' = resv
        BY <2>2, <3>1 DEF JobConsumes, SameLines, IInv, TypeOK
      <4>2. \A l \in Line : row'[l].status = row[l].status
        BY <4>1, RowEffects
      <4> QED
        BY <4>1, <4>2, IndentSame
    <3>2. CASE ~IsLocked(c)
      BY <1>1, <2>2, <3>2 DEF JobConsumes
    <3> QED
      BY <3>1, <3>2
  <2>3. ASSUME NEW c \in Booking, JobExpires(c)
        PROVE  resv'[r].status \notin OpenIndent
    <3>1. CASE c \in overdue /\ ~IsLocked(c)
      BY <2>3, <3>1, ReleaseIndent DEF JobExpires
    <3>2. CASE ~(c \in overdue /\ ~IsLocked(c))
      BY <1>1, <2>3, <3>2 DEF JobExpires
    <3> QED
      BY <3>1, <3>2
  <2> QED
    BY <1>6, <2>1, <2>2, <2>3 DEF JobStep
<1>7. CASE \E c \in Booking : DeadlinePasses(c)
  BY <1>1, <1>7 DEF DeadlinePasses
<1>8. CASE UNCHANGED vars
  BY <1>1, <1>8 DEF vars
<1> QED
  BY <1>2, <1>3, <1>4, <1>5, <1>6, <1>7, <1>8 DEF Next

\* A booking whose lines are all cancelled has no open indent, whoever cancelled it
\* and whatever was under way.
THEOREM CancelledNeverKeepsIndent == Spec => []CancelledKeepsNoIndent
<1>1. Init => CancelledKeepsNoIndent
  BY DEF Init, CancelledKeepsNoIndent, Rows, NoRow
<1> QED
  BY <1>1, IndentStep, Invariance, PTL DEF Spec

-----------------------------------------------------------------------------
(* The booking core implements the pool of units.                          *)

\* The pool's three places, as they stand now.
LEMMA PoolPlaces ==
  ASSUME IInv, NEW s \in Sku
  PROVE  /\ stock[s].avail \in Nat /\ Held(s) \in Nat /\ Issued(s) \in Nat /\ Stock[s] \in Nat
         /\ stock[s].avail + Held(s) + Issued(s) = Stock[s]
<1>1. /\ stock[s].avail \in Int /\ stock[s].booked \in Int /\ stock[s].total \in Int
      /\ Stock[s] \in Nat /\ Held(s) \in Nat /\ Issued(s) \in Nat
      /\ stock[s].booked = Held(s)
      /\ stock[s].total + Issued(s) = Stock[s]
      /\ stock[s].avail + stock[s].booked = stock[s].total
      /\ stock[s].avail >= 0
  BY Sums DEF Counters
<1> QED
  BY <1>1

\* No step makes or loses a unit.
LEMMA PoolConserved ==
  ASSUME IInv, IInv'
  PROVE  Pool!Conserved
<1>1. ASSUME NEW s \in Sku
      PROVE  stock'[s].avail + Held(s)' + Issued(s)' = stock[s].avail + Held(s) + Issued(s)
  <2>1. stock[s].avail + Held(s) + Issued(s) = Stock[s]
    BY PoolPlaces
  <2>2. (IInv => stock[s].avail + Held(s) + Issued(s) = Stock[s])'
    BY PoolPlaces, PTL
  <2> QED
    BY <2>1, <2>2
<1> QED
  BY <1>1 DEF Pool!Conserved, Held, Issued

\* Each kind of step is a step of the pool, or leaves it alone.
LEMMA PoolStep ==
  ASSUME IInv, IInv', [Next]_vars
  PROVE  [Pool!Next]_(Pool!vars)
<1>1. Pool!Conserved
  BY PoolConserved
<1>2. \A s \in Sku : stock'[s].avail \in Nat
  BY DEF IInv, TypeOK, NoOversell, Counters
<1>3. CASE Quiet
  <2>1. stock' = stock /\ row' = row
    BY <1>3 DEF Quiet
  <2> QED
    BY <2>1 DEF Pool!vars, LinesIn
<1>4. CASE Confirming
  <2>1. PICK b, po, want, g : Confirms(b, po, want, g)
    BY <1>4 DEF Confirming
  <2>2. \A s \in Sku : Held(s)' >= Held(s) /\ Issued(s)' = Issued(s)
    BY <2>1, ConfirmUnits, PoolPlaces
  <2>3. Pool!Hold
    BY <1>1, <1>2, <2>2 DEF Pool!Hold, Held, Issued
  <2> QED
    BY <2>3 DEF Pool!Next
<1>5. CASE Consuming
  <2>1. PICK b \in Booking : \E R : SameLines(R) /\ SettleConsume(b, R)
    BY <1>5 DEF Consuming
  <2>2. ASSUME NEW s \in Sku
        PROVE  stock'[s].avail = stock[s].avail /\ Issued(s)' >= Issued(s)
    <3>1. PICK n \in Nat : /\ stock'[s] = Consume(stock[s], n)
                           /\ Issued(s)' = Issued(s) + n
      BY <2>1, ConsumeUnits
    <3>2. Consume(stock[s], n).avail = stock[s].avail
      BY ConsumeEffect DEF IInv, TypeOK
    <3> QED
      BY <3>1, <3>2, PoolPlaces
  <2>3. Pool!Issue
    BY <1>1, <2>2 DEF Pool!Issue, Issued
  <2> QED
    BY <2>3 DEF Pool!Next
<1>6. CASE Releasing
  <2>1. PICK b \in Booking, i \in BOOLEAN : SettleRelease(b, i)
    BY <1>6 DEF Releasing
  <2>2. ASSUME NEW s \in Sku
        PROVE  Held(s)' <= Held(s) /\ Issued(s)' <= Issued(s)
    <3>1. PICK n \in Nat, k \in Nat : Held(s)' = Held(s) - n /\ Issued(s)' = Issued(s) - k
      BY <2>1, ReleaseUnits
    <3> QED
      BY <3>1, PoolPlaces
  <2>3. Pool!PutBack
    BY <1>1, <2>2 DEF Pool!PutBack, Held, Issued
  <2> QED
    BY <2>3 DEF Pool!Next
<1>7. CASE Restaging
  <2>1. stock' = stock
    BY <1>7 DEF Restaging
  <2>2. \A s \in Sku : Held(s)' = Held(s) /\ Issued(s)' = Issued(s)
    BY <1>7, RestageSums
  <2> QED
    BY <2>1, <2>2 DEF Pool!vars, Held, Issued
<1> QED
  BY <1>3, <1>4, <1>5, <1>6, <1>7, StepKinds DEF IInv

\* The core starts where the pool starts.
LEMMA PoolInit == Init => Pool!Init
<1> SUFFICES ASSUME Init PROVE Pool!Init
  OBVIOUS
<1>1. stock \in [Sku -> Counters] /\ Stock = [s \in Sku |-> Stock[s]]
  BY TypeInit, ConstantsAssumption DEF TypeOK
<1>2. \A s \in Sku : stock[s].avail = Stock[s]
  BY DEF Init, Shelf
<1>3. \A l \in Line : row[l].stock = "none"
  BY DEF Init, NoRow
<1>4. LinesIn(row, "reserved") = {} /\ LinesIn(row, "consumed") = {}
  BY <1>3 DEF LinesIn
<1>5. \A s \in Sku : Quantity(row, {}, s) = 0
  BY QuantityNone
<1> QED
  BY <1>1, <1>2, <1>4, <1>5 DEF Pool!Init

\* Whatever requests, job runs and failures interleave, physical units only move
\* between the shelf, the reserved lines and the consumed lines, one way a step.
THEOREM CoreImplementsPool == Spec => ImplementsPool
<1>1. IInv /\ IInv' /\ [Next]_vars => [Pool!Next]_(Pool!vars)
  BY PoolStep
<1> QED
  BY <1>1, PoolInit, Invariance, PTL DEF Spec, ImplementsPool, Pool!Spec
=============================================================================
