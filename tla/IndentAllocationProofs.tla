----------------------- MODULE IndentAllocationProofs -----------------------
(***************************************************************************)
(* Theorems about IndentAllocation, for any indents, bookings, SKUs,       *)
(* workers, quantities and failures.                                       *)
(***************************************************************************)
EXTENDS IndentAllocation, FiniteSetTheorems, WellFoundedInduction, TLAPS

-----------------------------------------------------------------------------
(* The inductive invariant.                                                *)

\* A worker past a claim is at an indent, and an indent meant for a fresh booking is
\* taken whole or not at all.
WholeIfFresh(item) == item.fresh /\ item.take > 0 => item.take = item.doc.qty
Shaped(p) ==
  /\ p.pc \in {"claimed", "refused", "unwound"} => p.at \in Indent
  /\ \A r \in Indent : WholeIfFresh(p.item[r])

PassShape == \A w \in Worker : Shaped(pass[w])

\* A row with stock is for an indent, and no more came in later than it has.
RowShape ==
  \A d \in RowId :
    /\ row[d].stock # "none" => row[d].r \in Indent
    /\ row[d].inward <= row[d].qty

ShapeInv == PassShape /\ RowShape

\* The counters, which are what overselling is about, apart from the other documents.
DocTypes ==
  /\ indent \in [Indent -> IndentDoc]
  /\ row \in [RowId -> RowDoc]
  /\ drawn \subseteq Fresh
  /\ elsewhere \in [Sku -> 0..MaxElsewhere]
  /\ arrived \in [Sku -> 0..MaxArrived]
  /\ pass \in [Worker -> PassState]
  /\ gaps \subseteq {"torn", "died", "crossed", "deleted", "outdated", "overwritten", "closed"}

\* Units on the shelf are a natural number.
ShelfInv == stock \in [Sku -> [avail : Nat, booked : Int, total : Int]]

IInv == DocTypes /\ ShapeInv /\ ShelfInv

-----------------------------------------------------------------------------
(* Facts about helpers.                                                    *)

\* What the rows L have of SKU s is a number.
LEMMA QuantityIsNat ==
  ASSUME row \in [RowId -> RowDoc], NEW L \in SUBSET RowId, NEW s
  PROVE  Quantity(L, s) \in Nat
<1> DEFINE M == {d \in L : SkuOf[row[d].r] = s}
           U == {{d} \X (1..row[d].qty) : d \in M}
<1>1. IsFiniteSet(M)
  BY AllocationAssumption, FS_Subset, M \in SUBSET RowId
<1>2. IsFiniteSet(U)
  <2> DEFINE f == [d \in M |-> {d} \X (1..row[d].qty)]
  <2>1. f \in Surjection(M, U)
    BY DEF Surjection
  <2> QED
    BY <1>1, <2>1, FS_Surjection
<1>3. \A T \in U : IsFiniteSet(T)
  <2> SUFFICES ASSUME NEW d \in M PROVE IsFiniteSet({d} \X (1..row[d].qty))
    OBVIOUS
  <2>1. row[d].qty \in Int
    BY DEF RowDoc
  <2>2. IsFiniteSet({d})
    BY FS_Singleton
  <2>3. IsFiniteSet(1..row[d].qty)
    BY <2>1, FS_Interval
  <2> QED
    BY <2>2, <2>3, FS_Product
<1>4. IsFiniteSet(UNION U)
  BY <1>2, <1>3, FS_UNION
<1>5. Cardinality(UNION U) \in Nat
  BY <1>4, FS_CardinalityType
<1> QED
  BY <1>5 DEF Quantity, Total

\* Going on to the next job keeps what is known of the worker.
LEMMA OnwardsKeeps ==
  ASSUME NEW p \in PassState, Shaped(p)
  PROVE  Onwards(p) \in PassState /\ Shaped(Onwards(p))
<1>1. NoItem \in Item /\ WholeIfFresh(NoItem)
  BY AllocationAssumption DEF NoItem, Item, IndentDoc, WholeIfFresh
<1>2. Idle \in PassState /\ Shaped(Idle)
  BY <1>1 DEF Idle, PassState, Shaped
<1>3. [p EXCEPT !.pc = "ready", !.to = NoBooking, !.at = 0] \in PassState
  BY DEF PassState
<1>4. Shaped([p EXCEPT !.pc = "ready", !.to = NoBooking, !.at = 0])
  BY DEF PassState, Shaped
<1> QED
  BY <1>2, <1>3, <1>4 DEF Onwards

LEMMA ItemTyped ==
  ASSUME NEW doc \in IndentDoc
  PROVE  /\ NoItem \in Item /\ WholeIfFresh(NoItem)
         /\ [NoItem EXCEPT !.doc = doc] \in Item /\ WholeIfFresh([NoItem EXCEPT !.doc = doc])
<1>1. 0 \in 0..MaxQty
  BY AllocationAssumption
<1>2. [status |-> "Cancelled", qty |-> 0] \in IndentDoc
  BY DEF IndentDoc
<1>3. NoItem \in Item /\ [NoItem EXCEPT !.doc = doc] \in Item
  BY <1>1, <1>2 DEF NoItem, Item
<1> QED
  BY <1>3 DEF NoItem, WholeIfFresh

\* One worker changes its state.
LEMMA OnePass ==
  ASSUME DocTypes, PassShape, NEW w \in Worker, NEW q \in PassState, Shaped(q),
         pass' = [pass EXCEPT ![w] = q]
  PROVE  pass' \in [Worker -> PassState] /\ PassShape'
  BY DEF DocTypes, PassShape, Shaped, WholeIfFresh

\* The state of a worker.
LEMMA PassTyped ==
  ASSUME IInv, NEW w \in Worker
  PROVE  pass[w] \in PassState /\ Shaped(pass[w])
  BY DEF IInv, DocTypes, ShapeInv, PassShape

LEMMA IdleItem == NoItem \in Item /\ WholeIfFresh(NoItem)
<1>1. [status |-> "Cancelled", qty |-> 0] \in IndentDoc
  BY DEF IndentDoc
<1> QED
  BY <1>1, ItemTyped

LEMMA IdleTyped == Idle \in PassState /\ Shaped(Idle)
  BY IdleItem DEF Idle, PassState, Shaped

\* A step that changes its worker, and perhaps draws a number.
LEMMA PassStepKeeps ==
  ASSUME IInv, pass' \in [Worker -> PassState], PassShape', drawn' \subseteq Fresh,
         UNCHANGED <<stock, indent, row, elsewhere, arrived, gaps>>
  PROVE  IInv'
<1>1. DocTypes'
  BY DEF IInv, DocTypes
<1>2. RowShape'
  BY DEF IInv, ShapeInv, RowShape
<1>3. ShelfInv'
  BY DEF IInv, ShelfInv
<1> QED
  BY <1>1, <1>2, <1>3 DEF IInv, ShapeInv

\* What is decided for an indent is an item, whole if for a fresh booking.
LEMMA DecisionsTyped ==
  ASSUME DocTypes, NEW r \in Indent, NEW doc \in IndentDoc, NEW n \in 0..MaxQty,
         n > 0 /\ NeedsFresh(r) => n = doc.qty, NEW item \in Decisions(r, doc, n)
  PROVE  item \in Item /\ WholeIfFresh(item)
<1> DEFINE Made(d, consumed) ==
      [doc |-> doc, take |-> n, row |-> d, consumed |-> consumed, fresh |-> NeedsFresh(r)]
<1>1. NeedsFresh(r) \in BOOLEAN /\ \A d : (row[d].stock = "consumed") \in BOOLEAN
  BY DEF NeedsFresh
<1>2. \A d \in RowId \cup {0}, consumed \in BOOLEAN :
        Made(d, consumed) \in Item /\ WholeIfFresh(Made(d, consumed))
  BY <1>1 DEF Item, WholeIfFresh
<1>3. CASE n = 0
  <2>1. item = NoItem
    BY <1>3 DEF Decisions
  <2> QED
    BY <2>1, ItemTyped
<1>4. CASE n > 0 /\ (NeedsFresh(r) \/ LiveRows(Parent[r]) = {})
  <2>1. ~NeedsFresh(r) => LineRows(r) = {}
    BY <1>4 DEF LineRows
  <2>2. Decisions(r, doc, n) = {Made(0, FALSE)}
    BY <2>1, <1>4 DEF Decisions
  <2>3. item = Made(0, FALSE)
    BY <2>2
  <2> QED
    BY <2>3, <1>2
<1>5. CASE n > 0 /\ ~NeedsFresh(r) /\ LiveRows(Parent[r]) # {} /\ LineRows(r) # {}
  <2>1. item \in {Made(d, row[d].stock = "consumed") : d \in LineRows(r)}
    BY <1>5 DEF Decisions
  <2>2. LineRows(r) \subseteq RowId
    BY DEF LineRows, LiveRows
  <2> QED
    BY <2>1, <2>2, <1>1, <1>2
<1>6. CASE n > 0 /\ ~NeedsFresh(r) /\ LiveRows(Parent[r]) # {} /\ LineRows(r) = {}
  <2>1. PICK d \in LiveRows(Parent[r]) : item = Made(0, row[d].stock = "consumed")
    BY <1>6 DEF Decisions
  <2> QED
    BY <2>1, <1>1, <1>2
<1> QED
  BY <1>3, <1>4, <1>5, <1>6

-----------------------------------------------------------------------------
(* One lemma per step of a worker.                                         *)

LEMMA ListsKeeps ==
  ASSUME IInv, NEW w \in Worker, Lists(w)
  PROVE  IInv'
<1> PICK skus \in SUBSET Sku :
      LET listed == {r \in Indent : SkuOf[r] \in skus /\ Open(r)}
      IN  pass' = [pass EXCEPT ![w] =
            [@ EXCEPT !.pc = "listed",
                      !.item = [r \in Indent |->
                         IF r \in listed THEN [NoItem EXCEPT !.doc = indent[r]] ELSE NoItem]]]
  BY DEF Lists
<1> DEFINE items == [r \in Indent |-> IF SkuOf[r] \in skus /\ Open(r)
                                     THEN [NoItem EXCEPT !.doc = indent[r]] ELSE NoItem]
           q == [pass[w] EXCEPT !.pc = "listed", !.item = items]
<1>1. items \in [Indent -> Item] /\ \A r \in Indent : WholeIfFresh(items[r])
  <2>1. \A r \in Indent : indent[r] \in IndentDoc
    BY DEF IInv, DocTypes
  <2>2. NoItem \in Item /\ WholeIfFresh(NoItem)
    BY IdleItem
  <2> QED
    BY <2>1, <2>2, ItemTyped
<1>2. q \in PassState /\ Shaped(q)
  <2> HIDE DEF items
  <2> QED
    BY <1>1, PassTyped DEF PassState, Shaped
<1>3. pass' = [pass EXCEPT ![w] = q]
  OBVIOUS
<1> HIDE DEF q
<1>4. pass' \in [Worker -> PassState] /\ PassShape'
  BY <1>2, <1>3, OnePass DEF IInv, ShapeInv
<1>9. UNCHANGED <<stock, indent, row, drawn, elsewhere, arrived, gaps>>
  BY DEF Lists
<1>10. drawn' \subseteq Fresh
  BY <1>9 DEF IInv, DocTypes
<1> HIDE DEF items
<1> QED
  BY ONLY <1>4, <1>9, <1>10, IInv, PassStepKeeps, Zenon

LEMMA ReadsIndentKeeps ==
  ASSUME IInv, NEW w \in Worker, NEW r \in Indent, ReadsIndent(w, r)
  PROVE  IInv'
<1> DEFINE q == [pass[w] EXCEPT !.pc = "assigning", !.item[r] = [NoItem EXCEPT !.doc = indent[r]]]
<1>1. [NoItem EXCEPT !.doc = indent[r]] \in Item /\ WholeIfFresh([NoItem EXCEPT !.doc = indent[r]])
  BY ItemTyped DEF IInv, DocTypes
<1> DEFINE it == [NoItem EXCEPT !.doc = indent[r]]
<1>2. q \in PassState /\ Shaped(q)
  <2>1. it \in Item /\ WholeIfFresh(it) /\ q = [pass[w] EXCEPT !.pc = "assigning", !.item[r] = it]
    BY <1>1
  <2> HIDE DEF it, q
  <2> QED
    BY <2>1, PassTyped DEF PassState, Shaped
<1>3. pass' = [pass EXCEPT ![w] = q]
  BY DEF ReadsIndent
<1> HIDE DEF q
<1>4. pass' \in [Worker -> PassState] /\ PassShape'
  BY <1>2, <1>3, OnePass DEF IInv, ShapeInv
<1>9. UNCHANGED <<stock, indent, row, drawn, elsewhere, arrived, gaps>>
  BY DEF ReadsIndent
<1>10. drawn' \subseteq Fresh
  BY <1>9 DEF IInv, DocTypes
<1> QED
  BY <1>4, <1>9, <1>10, PassStepKeeps

\* Both ways of deciding.
LEMMA DecidesTyped ==
  ASSUME IInv, NEW w \in Worker, NEW n \in [Indent -> 0..MaxQty], Decides(w, n),
         \A r \in Indent : n[r] > 0 /\ NeedsFresh(r) => n[r] = pass[w].item[r].doc.qty
  PROVE  pass' \in [Worker -> PassState] /\ PassShape'
<1> DEFINE read == pass[w].item
<1> PICK item : /\ DOMAIN item = Indent /\ item = [r \in Indent |-> item[r]]
                /\ \A r \in Indent : item[r] \in Decisions(r, read[r].doc, n[r])
                /\ pass' = [pass EXCEPT ![w] =
                     IF \E r \in Indent : n[r] > 0
                     THEN [Idle EXCEPT !.pc = "ready", !.item = item] ELSE Idle]
  BY DEF Decides
<1>1. \A r \in Indent : item[r] \in Item /\ WholeIfFresh(item[r])
  <2> TAKE r \in Indent
  <2>1. read[r].doc \in IndentDoc
    BY DEF IInv, DocTypes, PassState, Item
  <2> QED
    BY <2>1, DecisionsTyped DEF IInv
<1>2. item \in [Indent -> Item]
  BY <1>1
<1>3. Idle \in PassState /\ Shaped(Idle)
  BY IdleTyped
<1>4. [Idle EXCEPT !.pc = "ready", !.item = item] \in PassState
  BY <1>2, <1>3 DEF Idle, PassState
<1>5. Shaped([Idle EXCEPT !.pc = "ready", !.item = item])
  BY <1>1 DEF Idle, Shaped
<1> QED
  BY <1>3, <1>4, <1>5, OnePass DEF IInv, ShapeInv

LEMMA PassDecidesKeeps ==
  ASSUME IInv, NEW w \in Worker, PassDecides(w)
  PROVE  IInv'
<1>1. PICK n \in [Indent -> 0..MaxQty] : Shortlists(pass[w].item, n) /\ Decides(w, n)
  BY DEF PassDecides
<1>2. pass' \in [Worker -> PassState] /\ PassShape'
  BY <1>1, DecidesTyped DEF Shortlists
<1>9. UNCHANGED <<stock, indent, row, drawn, elsewhere, arrived, gaps>>
  BY DEF PassDecides
<1>10. drawn' \subseteq Fresh
  BY <1>9 DEF IInv, DocTypes
<1> QED
  BY <1>2, <1>9, <1>10, PassStepKeeps

LEMMA AssignmentDecidesKeeps ==
  ASSUME IInv, NEW w \in Worker, AssignmentDecides(w)
  PROVE  IInv'
<1>1. PICK n \in [Indent -> 0..MaxQty] :
        /\ \A r \in Indent : n[r] > 0 /\ NeedsFresh(r) => n[r] = pass[w].item[r].doc.qty
        /\ Decides(w, n)
  BY DEF AssignmentDecides
<1>2. pass' \in [Worker -> PassState] /\ PassShape'
  BY <1>1, DecidesTyped
<1>9. UNCHANGED <<stock, indent, row, drawn, elsewhere, arrived, gaps>>
  BY DEF AssignmentDecides
<1>10. drawn' \subseteq Fresh
  BY <1>9 DEF IInv, DocTypes
<1> QED
  BY <1>2, <1>9, <1>10, PassStepKeeps

LEMMA JobStartsKeeps ==
  ASSUME IInv, NEW w \in Worker, JobStarts(w)
  PROVE  IInv'
<1> DEFINE wanted == {r \in Indent : pass[w].item[r].take > 0}
           Started(to, items) ==
             pass' = [pass EXCEPT ![w] = [@ EXCEPT !.pc = "job", !.to = to, !.todo = items]]
<1>1. \/ \E r \in wanted : \E items \in SUBSET Indent : Started(Parent[r], items) /\ drawn' = drawn
      \/ \E b \in Fresh : \E items \in SUBSET Indent : Started(b, items) /\ drawn' = drawn \cup {b}
  <2>1. CASE \E b \in {Parent[r] : r \in {x \in wanted : ~pass[w].item[x].fresh}} :
               /\ Started(b, {r \in wanted : ~pass[w].item[r].fresh /\ Parent[r] = b})
               /\ UNCHANGED drawn
    <3>1. PICK r \in wanted :
            /\ Started(Parent[r], {x \in wanted : ~pass[w].item[x].fresh /\ Parent[x] = Parent[r]})
            /\ UNCHANGED drawn
      <4> HIDE DEF Started
      <4> QED BY <2>1
    <3>2. {x \in wanted : ~pass[w].item[x].fresh /\ Parent[x] = Parent[r]} \in SUBSET Indent
      OBVIOUS
    <3> HIDE DEF Started
    <3> QED
      BY <3>1, <3>2
  <2>2. CASE \E c \in {CustomerOf[r] : r \in {x \in wanted : pass[w].item[x].fresh}}, b \in Fresh \ drawn :
               /\ Started(b, {r \in wanted : pass[w].item[r].fresh /\ CustomerOf[r] = c})
               /\ drawn' = drawn \cup {b}
    <3> HIDE DEF Started
    <3>1. PICK c \in {CustomerOf[r] : r \in {x \in wanted : pass[w].item[x].fresh}}, b \in Fresh :
            /\ Started(b, {r \in wanted : pass[w].item[r].fresh /\ CustomerOf[r] = c})
            /\ drawn' = drawn \cup {b}
      <4> HIDE DEF wanted
      <4> QED BY <2>2
    <3>2. {r \in wanted : pass[w].item[r].fresh /\ CustomerOf[r] = c} \in SUBSET Indent
      OBVIOUS
    <3> QED
      BY <3>1, <3>2
  <2>3. \/ \E b \in {Parent[r] : r \in {x \in wanted : ~pass[w].item[x].fresh}} :
              /\ Started(b, {r \in wanted : ~pass[w].item[r].fresh /\ Parent[r] = b})
              /\ UNCHANGED drawn
        \/ \E c \in {CustomerOf[r] : r \in {x \in wanted : pass[w].item[x].fresh}}, b \in Fresh \ drawn :
              /\ Started(b, {r \in wanted : pass[w].item[r].fresh /\ CustomerOf[r] = c})
              /\ drawn' = drawn \cup {b}
    BY Zenon DEF JobStarts
  <2> HIDE DEF Started, wanted
  <2> QED
    BY <2>1, <2>2, <2>3
<1>a. PICK to \in Booking \cup Fresh \cup {NoBooking}, items \in SUBSET Indent :
        Started(to, items) /\ (drawn' = drawn \/ \E b \in Fresh : drawn' = drawn \cup {b})
  <2>1. \A r \in wanted : Parent[r] \in Booking \cup Fresh \cup {NoBooking}
    BY AllocationAssumption
  <2> HIDE DEF Started, wanted
  <2> QED
    BY <1>1, <2>1
<1> DEFINE q == [pass[w] EXCEPT !.pc = "job", !.to = to, !.todo = items]
<1>2. q \in PassState /\ Shaped(q)
  BY PassTyped DEF PassState, Shaped
<1>3. pass' = [pass EXCEPT ![w] = q]
  BY <1>a
<1> HIDE DEF q
<1>4. pass' \in [Worker -> PassState] /\ PassShape'
  BY <1>2, <1>3, OnePass DEF IInv, ShapeInv
<1>5. drawn' \subseteq Fresh
  <2>1. drawn \subseteq Fresh
    BY DEF IInv, DocTypes
  <2>2. drawn' = drawn \/ \E b \in Fresh : drawn' = drawn \cup {b}
    <3> HIDE DEF Started
    <3> QED BY ONLY <1>a, Zenon
  <2> QED
    BY <2>1, <2>2
<1>9. UNCHANGED <<stock, indent, row, elsewhere, arrived, gaps>>
  BY Zenon DEF JobStarts
<1> QED
  BY <1>4, <1>5, <1>9, PassStepKeeps

LEMMA PartOpenTyped == \A n \in Nat : [status |-> "Partially Confirmed", qty |-> n] \in IndentDoc
  BY DEF IndentDoc, OpenStatus

\* What a claim leaves of a document is a document.
LEMMA AfterClaimTyped ==
  ASSUME NEW doc \in IndentDoc, NEW item \in Item, WholeIfFresh(item),
         item.fresh \/ doc.qty = item.doc.qty
  PROVE  AfterClaim(doc, item) \in IndentDoc
<1>1. /\ item.take \in Nat /\ doc.qty \in Nat /\ item.doc \in IndentDoc /\ item.doc.qty \in Nat
      /\ item.fresh \in BOOLEAN
  BY AllocationAssumption DEF Item, IndentDoc
<1>2. CASE item.take >= item.doc.qty
  BY <1>2 DEF AfterClaim, IndentDoc, OpenStatus
<1>3. CASE ~(item.take >= item.doc.qty)
  <2> DEFINE left == doc.qty - item.take
  <2>1. left \in Nat
    <3>1. CASE item.fresh /\ item.take > 0
      BY <1>1, <1>3, <3>1 DEF WholeIfFresh
    <3>2. CASE item.take = 0
      BY <1>1, <3>2
    <3>3. CASE ~item.fresh
      BY <1>1, <1>3, <3>3
    <3> QED
      BY <1>1, <3>1, <3>2, <3>3
  <2>2. AfterClaim(doc, item) = [status |-> "Partially Confirmed", qty |-> left]
    BY <1>3 DEF AfterClaim
  <2> HIDE DEF left
  <2> QED
    BY <2>1, <2>2, PartOpenTyped
<1> QED
  BY <1>2, <1>3

LEMMA ClaimsKeeps ==
  ASSUME IInv, NEW w \in Worker, Claims(w)
  PROVE  IInv'
<1> DEFINE p == pass[w]
<1>1. PICK r \in p.todo :
        IF Claimable(r, p.item[r])
        THEN /\ indent' = [indent EXCEPT ![r] = AfterClaim(@, p.item[r])]
             /\ pass' = [pass EXCEPT ![w] =
                  [p EXCEPT !.pc = "claimed", !.at = r, !.todo = @ \ {r}]]
             /\ gaps' = gaps \cup (IF p.item[r].fresh /\ indent[r].qty # p.item[r].doc.qty
                                 THEN {"outdated"} ELSE {})
        ELSE /\ pass' = [pass EXCEPT ![w] =
                  Onwards([p EXCEPT !.todo = @ \ {r}, !.item[r] = NoItem])]
             /\ UNCHANGED <<indent, gaps>>
  BY Zenon DEF Claims, Oldest
<1>2. p \in PassState /\ Shaped(p) /\ r \in Indent /\ p.item[r] \in Item /\ WholeIfFresh(p.item[r])
  BY DEF IInv, DocTypes, PassState, ShapeInv, PassShape, Shaped
<1>3. CASE Claimable(r, p.item[r])
  <2> DEFINE q == [p EXCEPT !.pc = "claimed", !.at = r, !.todo = @ \ {r}]
  <2>1. q \in PassState /\ Shaped(q)
    BY <1>2 DEF PassState, Shaped
  <2>2. pass' = [pass EXCEPT ![w] = q]
    BY <1>1, <1>3
  <2> HIDE DEF q
  <2>3. pass' \in [Worker -> PassState] /\ PassShape'
    BY <2>1, <2>2, OnePass DEF IInv, ShapeInv
  <2>4. AfterClaim(indent[r], p.item[r]) \in IndentDoc
    BY <1>2, <1>3, AfterClaimTyped DEF Claimable, IInv, DocTypes
  <2>5. indent' \in [Indent -> IndentDoc]
    BY <1>1, <1>2, <1>3, <2>4 DEF IInv, DocTypes
  <2>6. gaps' \subseteq {"torn", "died", "crossed", "deleted", "outdated", "overwritten", "closed"}
    BY <1>1, <1>3 DEF IInv, DocTypes
  <2> QED
    BY <2>3, <2>5, <2>6 DEF IInv, ShapeInv, RowShape, DocTypes, ShelfInv, Claims
<1>4. CASE ~Claimable(r, p.item[r])
  <2> DEFINE q == [p EXCEPT !.todo = @ \ {r}, !.item[r] = NoItem]
  <2>1. NoItem \in Item /\ WholeIfFresh(NoItem)
    BY <1>2, ItemTyped DEF Item
  <2>2. q \in PassState /\ Shaped(q)
    BY <1>2, <2>1 DEF PassState, Shaped
  <2>3. pass' = [pass EXCEPT ![w] = Onwards(q)]
    BY <1>1, <1>4
  <2> HIDE DEF q
  <2>4. pass' \in [Worker -> PassState] /\ PassShape'
    BY <2>2, <2>3, OnwardsKeeps, OnePass DEF IInv, ShapeInv
  <2>5. UNCHANGED <<stock, indent, row, drawn, elsewhere, arrived, gaps>>
    BY <1>1, <1>4, Zenon DEF Claims
  <2>6. drawn' \subseteq Fresh
    BY <2>5 DEF IInv, DocTypes
  <2> QED
    BY ONLY <2>4, <2>5, <2>6, IInv, PassStepKeeps, Zenon
<1> QED
  BY <1>3, <1>4

LEMMA TakesStockKeeps ==
  ASSUME IInv, NEW w \in Worker, TakesStock(w)
  PROVE  IInv'
<1> DEFINE p == pass[w]
           s == SkuOf[p.at]
           item == p.item[p.at]
<1>1. p \in PassState /\ Shaped(p) /\ p.at \in Indent /\ item \in Item /\ s \in Sku
  BY AllocationAssumption DEF IInv, DocTypes, PassState, ShapeInv, PassShape, Shaped, TakesStock
<1>2. item.take \in Nat /\ item.consumed \in BOOLEAN
  BY <1>1, AllocationAssumption DEF Item
<1>3. CASE Takeable(p.at, item)
  <2> DEFINE q == [p EXCEPT !.pc = "job", !.at = 0, !.hand = @ \cup {p.at}]
  <2>1. q \in PassState /\ Shaped(q)
    BY <1>1 DEF PassState, Shaped
  <2>2. pass' = [pass EXCEPT ![w] = q]
    BY <1>3 DEF TakesStock
  <2> HIDE DEF q
  <2>3. pass' \in [Worker -> PassState] /\ PassShape'
    BY <2>1, <2>2, OnePass DEF IInv, ShapeInv
  <2>4. Taken(stock[s], item) \in [avail : Nat, booked : Int, total : Int]
    BY <1>1, <1>2, <1>3 DEF IInv, ShelfInv, Takeable, CanTake, Taken, IssueMore, Reserve
  <2>5. stock' = [stock EXCEPT ![s] = Taken(@, item)]
    BY <1>3 DEF TakesStock
  <2>6. ShelfInv'
    BY <1>1, <2>4, <2>5 DEF IInv, ShelfInv
  <2> QED
    BY <2>3, <2>6 DEF IInv, ShapeInv, RowShape, DocTypes, TakesStock
<1>4. CASE ~Takeable(p.at, item)
  <2> DEFINE q == [p EXCEPT !.pc = "refused"]
  <2>1. q \in PassState /\ Shaped(q)
    BY <1>1 DEF PassState, Shaped
  <2>2. pass' = [pass EXCEPT ![w] = q]
    BY <1>4 DEF TakesStock
  <2> HIDE DEF q
  <2>3. pass' \in [Worker -> PassState] /\ PassShape'
    BY <2>1, <2>2, OnePass DEF IInv, ShapeInv
  <2> QED
    BY <1>4, <2>3 DEF IInv, ShapeInv, RowShape, DocTypes, ShelfInv, TakesStock
<1> QED
  BY <1>3, <1>4

LEMMA RestoresIndentKeeps ==
  ASSUME IInv, NEW w \in Worker, RestoresIndent(w)
  PROVE  IInv'
<1> DEFINE p == pass[w]
           item == p.item[p.at]
           q == [p EXCEPT !.pc = IF p.pc = "unwound" /\ p.hand # {} THEN "unwind" ELSE "job",
                          !.at = 0, !.item[p.at] = NoItem]
<1>1. p \in PassState /\ Shaped(p) /\ p.at \in Indent /\ item \in Item
  BY DEF IInv, DocTypes, PassState, ShapeInv, PassShape, Shaped, RestoresIndent
<1>2. NoItem \in Item /\ WholeIfFresh(NoItem)
  BY <1>1, ItemTyped DEF Item
<1>3. q \in PassState /\ Shaped(q)
  BY <1>1, <1>2 DEF PassState, Shaped
<1>4. pass' = [pass EXCEPT ![w] = Onwards(q)]
  BY DEF RestoresIndent
<1> HIDE DEF q
<1>5. pass' \in [Worker -> PassState] /\ PassShape'
  BY <1>3, <1>4, OnwardsKeeps, OnePass DEF IInv, ShapeInv
<1>6. Restored(indent[p.at], item) \in IndentDoc
  BY <1>1 DEF Restored, Item, IndentDoc, IInv, DocTypes
<1>7. indent' \in [Indent -> IndentDoc]
  BY <1>1, <1>6 DEF IInv, DocTypes, RestoresIndent
<1>8. gaps' \subseteq {"torn", "died", "crossed", "deleted", "outdated", "overwritten", "closed"}
  BY DEF IInv, DocTypes, RestoresIndent
<1> QED
  BY <1>5, <1>7, <1>8 DEF IInv, ShapeInv, RowShape, DocTypes, ShelfInv, RestoresIndent

LEMMA UnwindsKeeps ==
  ASSUME IInv, NEW w \in Worker, Unwinds(w)
  PROVE  IInv'
<1> DEFINE p == pass[w]
<1>1. PICK r \in p.hand :
        /\ stock' = [stock EXCEPT ![SkuOf[r]] = GivenBack(@, p.item[r])]
        /\ pass' = [pass EXCEPT ![w] = [p EXCEPT !.pc = "unwound", !.at = r, !.hand = @ \ {r}]]
  BY DEF Unwinds, Oldest
<1> DEFINE q == [p EXCEPT !.pc = "unwound", !.at = r, !.hand = @ \ {r}]
<1>2. p \in PassState /\ Shaped(p) /\ r \in Indent /\ p.item[r] \in Item /\ SkuOf[r] \in Sku
  BY AllocationAssumption DEF IInv, DocTypes, PassState, ShapeInv, PassShape
<1>3. p.item[r].take \in Nat
  BY <1>2, AllocationAssumption DEF Item
<1>4. GivenBack(stock[SkuOf[r]], p.item[r]) \in [avail : Nat, booked : Int, total : Int]
  BY <1>2, <1>3 DEF IInv, ShelfInv, GivenBack, TakeBack, Release, BookedPart, LesserOf, GreaterOf
<1>5. ShelfInv'
  BY <1>1, <1>2, <1>4 DEF IInv, ShelfInv
<1>6. q \in PassState /\ Shaped(q)
  BY <1>2 DEF PassState, Shaped
<1>7. pass' = [pass EXCEPT ![w] = q]
  BY <1>1
<1> HIDE DEF q
<1>8. pass' \in [Worker -> PassState] /\ PassShape'
  BY <1>6, <1>7, OnePass DEF IInv, ShapeInv
<1> QED
  BY <1>5, <1>8 DEF IInv, ShapeInv, RowShape, DocTypes, Unwinds

LEMMA PassDiesKeeps ==
  ASSUME IInv, NEW w \in Worker, PassDies(w)
  PROVE  IInv'
<1>1. pass[w] \in PassState
  BY DEF IInv, DocTypes
<1>2. Idle \in PassState /\ Shaped(Idle)
  BY IdleTyped
<1>3. pass' \in [Worker -> PassState] /\ PassShape'
  BY <1>2, OnePass DEF IInv, ShapeInv, PassDies
<1>4. gaps' \subseteq {"torn", "died", "crossed", "deleted", "outdated", "overwritten", "closed"}
  BY DEF IInv, DocTypes, PassDies
<1> QED
  BY <1>3, <1>4 DEF IInv, ShapeInv, RowShape, DocTypes, ShelfInv, PassDies

-----------------------------------------------------------------------------
(* Writing the rows.                                                       *)

\* What is known of the row that document d becomes.
SoundRow(d) ==
  /\ d \in RowDoc
  /\ d.stock # "none" => d.r \in Indent
  /\ d.inward <= d.qty

LEMMA TakeIsNat == \A item \in Item : item.take \in Nat
  BY AllocationAssumption DEF Item

LEMMA InsertedIsSound ==
  ASSUME NEW b \in Booking \cup Fresh \cup {NoBooking}, NEW r \in Indent, NEW item \in Item
  PROVE  SoundRow(Inserted(b, r, item))
<1>1. item.take \in Nat
  BY AllocationAssumption DEF Item
<1>2. (IF item.consumed THEN "consumed" ELSE "reserved") \in {"none", "reserved", "consumed", "released"}
  OBVIOUS
<1> QED
  BY <1>1, <1>2 DEF SoundRow, Inserted, RowDoc

LEMMA GrownIsSound ==
  ASSUME NEW d \in RowDoc, SoundRow(d), NEW n \in Int, d.inward + n \in Nat
  PROVE  SoundRow(Grown(d, n))
<1>1. d.qty \in Nat /\ d.inward \in Nat
  BY DEF RowDoc
<1>2. d.qty + n \in Nat /\ d.inward + n \in Nat /\ d.inward + n <= d.qty + n
  BY <1>1 DEF SoundRow
<1> DEFINE q == d.qty + n
           i == d.inward + n
           e == [d EXCEPT !.qty = q, !.inward = i]
<1>3. Grown(d, n) = e
  BY DEF Grown
<1> HIDE DEF q, i
<1>4. e \in RowDoc /\ e.qty = q /\ e.inward = i /\ e.stock = d.stock /\ e.r = d.r
  BY <1>2 DEF RowDoc, q, i
<1> HIDE DEF e
<1> QED
  BY <1>2, <1>3, <1>4 DEF SoundRow, q, i

LEMMA WritesRowsTyped ==
  ASSUME IInv, NEW b \in Booking \cup Fresh \cup {NoBooking}, NEW R \in SUBSET Indent,
         NEW item \in [Indent -> Item], WritesRows(b, R, item)
  PROVE  row' \in [RowId -> RowDoc] /\ RowShape'
<1> DEFINE place(r) == FirstFree + Cardinality({x \in NewRows(R, item) : x < r})
           becomes == [d \in RowId |->
             IF \E r \in NewRows(R, item) : place(r) = d
             THEN LET r == CHOOSE x \in NewRows(R, item) : place(x) = d
                  IN  Inserted(b, r, item[r])
             ELSE IF row[d] # NoRow /\ \E r \in R : item[r].row = d
             THEN LET r == CHOOSE x \in R : item[x].row = d
                  IN  Grown(row[d], item[r].take)
             ELSE row[d]]
<1>1. row' = becomes
  BY DEF WritesRows
<1>2. \A d \in RowId : row[d] \in RowDoc /\ SoundRow(row[d])
  BY DEF IInv, DocTypes, ShapeInv, RowShape, SoundRow
<1>3. ASSUME NEW d \in RowId PROVE SoundRow(becomes[d])
  <2>1. CASE \E r \in NewRows(R, item) : place(r) = d
    <3> DEFINE r == CHOOSE x \in NewRows(R, item) : place(x) = d
    <3>1. r \in NewRows(R, item)
      <4> HIDE DEF place
      <4> QED BY <2>1
    <3>2. r \in Indent
      BY <3>1 DEF NewRows
    <3>3. becomes[d] = Inserted(b, r, item[r])
      <4> HIDE DEF place
      <4> QED BY <2>1
    <3> HIDE DEF r, becomes
    <3> QED
      BY <3>2, <3>3, InsertedIsSound
  <2>2. CASE /\ ~\E r \in NewRows(R, item) : place(r) = d
             /\ row[d] # NoRow /\ \E r \in R : item[r].row = d
    <3> DEFINE r == CHOOSE x \in R : item[x].row = d
    <3>1. r \in Indent
      BY <2>2
    <3>2. item[r].take \in Nat /\ row[d].inward + item[r].take \in Nat
      <4> HIDE DEF r
      <4>1. item[r].take \in Nat
        BY <3>1, TakeIsNat
      <4>2. row[d].inward \in Nat
        BY <1>2 DEF RowDoc
      <4> QED BY <4>1, <4>2
    <3>3. becomes[d] = Grown(row[d], item[r].take)
      <4> HIDE DEF place
      <4> QED BY <2>2
    <3> HIDE DEF r, becomes
    <3> QED
      BY <1>2, <3>2, <3>3, GrownIsSound
  <2>3. CASE /\ ~\E r \in NewRows(R, item) : place(r) = d
             /\ ~(row[d] # NoRow /\ \E r \in R : item[r].row = d)
    <3>1. becomes[d] = row[d]
      <4> HIDE DEF place
      <4> QED BY <2>3
    <3> QED
      BY <1>2, <3>1
  <2> HIDE DEF place, becomes
  <2> QED
    BY <2>1, <2>2, <2>3
<1>4. DOMAIN becomes = RowId /\ becomes = [d \in RowId |-> becomes[d]]
  OBVIOUS
<1> HIDE DEF becomes
<1> QED
  BY <1>1, <1>3, <1>4 DEF SoundRow, RowShape

LEMMA JobWritesKeeps ==
  ASSUME IInv, NEW w \in Worker, JobWrites(w)
  PROVE  IInv'
<1> DEFINE p == pass[w]
           items == [r \in Indent |-> IF r \in p.hand THEN NoItem ELSE p.item[r]]
           q == [p EXCEPT !.hand = {}, !.item = items]
<1>1. p \in PassState /\ Shaped(p)
  BY DEF IInv, DocTypes, ShapeInv, PassShape
<1>2. NoItem \in Item /\ WholeIfFresh(NoItem)
  BY IdleItem
<1>3. items \in [Indent -> Item] /\ \A r \in Indent : WholeIfFresh(items[r])
  BY <1>1, <1>2 DEF PassState, Shaped
<1>4. q \in PassState /\ Shaped(q)
  BY <1>1, <1>3 DEF PassState, Shaped
<1>5. pass' = [pass EXCEPT ![w] = Onwards(q)]
  BY DEF JobWrites
<1> HIDE DEF q
<1>6. pass' \in [Worker -> PassState] /\ PassShape'
  BY <1>4, <1>5, OnwardsKeeps, OnePass DEF IInv, ShapeInv
<1>7. row' \in [RowId -> RowDoc] /\ RowShape'
  BY <1>1, WritesRowsTyped DEF PassState, JobWrites
<1> QED
  BY <1>6, <1>7 DEF IInv, ShapeInv, DocTypes, ShelfInv, JobWrites

LEMMA WriteFailsKeeps ==
  ASSUME IInv, NEW w \in Worker, WriteFails(w)
  PROVE  IInv'
<1> DEFINE p == pass[w]
           q == [p EXCEPT !.pc = "unwind"]
<1>1. p \in PassState /\ Shaped(p)
  BY DEF IInv, DocTypes, ShapeInv, PassShape
<1>2. q \in PassState /\ Shaped(q)
  BY <1>1 DEF PassState, Shaped, WriteFails
<1>3. pass' = [pass EXCEPT ![w] = q]
  BY DEF WriteFails
<1> HIDE DEF q
<1>4. pass' \in [Worker -> PassState] /\ PassShape'
  BY <1>2, <1>3, OnePass DEF IInv, ShapeInv
<1>5. /\ row' \in [RowId -> RowDoc] /\ RowShape'
      /\ gaps' \subseteq {"torn", "died", "crossed", "deleted", "outdated", "overwritten", "closed"}
  <2>1. CASE UNCHANGED <<row, gaps>>
    BY <2>1 DEF IInv, DocTypes, ShapeInv, RowShape
  <2>2. CASE /\ gaps' = gaps \cup {"torn"}
             /\ \E last \in p.hand : WritesRows(p.to, {r \in p.hand : r <= last}, p.item)
    <3>1. PICK last \in p.hand : WritesRows(p.to, {r \in p.hand : r <= last}, p.item)
      BY <2>2
    <3>2. {r \in p.hand : r <= last} \in SUBSET Indent
      BY <1>1 DEF PassState
    <3>3. row' \in [RowId -> RowDoc] /\ RowShape'
      BY <1>1, <3>1, <3>2, WritesRowsTyped DEF PassState
    <3> QED
      BY <2>2, <3>3 DEF IInv, DocTypes
  <2> QED
    BY <2>1, <2>2 DEF WriteFails
<1> QED
  BY <1>4, <1>5 DEF IInv, ShapeInv, DocTypes, ShelfInv, WriteFails

-----------------------------------------------------------------------------
(* What else happens: one lemma per step.                                  *)

\* A booking's stock is settled.  Rows change state only, quantities are numbers,
\* and the shelf never loses units.
LEMMA SettledRow ==
  ASSUME NEW d \in RowDoc, SoundRow(d), NEW to \in {"consumed", "released"}, d.stock # "none"
  PROVE  SoundRow([d EXCEPT !.stock = to]) /\ [d EXCEPT !.stock = to] \in RowDoc
  BY DEF SoundRow, RowDoc

LEMMA RowsSettled ==
  ASSUME IInv, NEW L \in SUBSET RowId, NEW to \in {"consumed", "released"},
         \A d \in L : row[d].stock # "none",
         row' = [d \in RowId |-> IF d \in L THEN [row[d] EXCEPT !.stock = to] ELSE row[d]]
  PROVE  row' \in [RowId -> RowDoc] /\ RowShape'
<1>1. \A d \in RowId : row[d] \in RowDoc /\ SoundRow(row[d])
  BY DEF IInv, DocTypes, ShapeInv, RowShape, SoundRow
<1>2. \A d \in RowId : row'[d] \in RowDoc /\ SoundRow(row'[d])
  <2> SUFFICES ASSUME NEW d \in RowId PROVE row'[d] \in RowDoc /\ SoundRow(row'[d])
    OBVIOUS
  <2>1. CASE d \in L
    BY <1>1, <2>1, SettledRow
  <2>2. CASE d \notin L
    BY <1>1, <2>2
  <2> QED
    BY <2>1, <2>2
<1> QED
  BY <1>2 DEF SoundRow, RowShape

LEMMA PoConsumesKeeps ==
  ASSUME IInv, NEW b \in Booking \cup Fresh, PoConsumes(b)
  PROVE  IInv'
<1> DEFINE L == {d \in RowsIn("reserved") : row[d].b = b}
<1>1. L \in SUBSET RowId /\ \A d \in L : row[d].stock # "none"
  BY DEF RowsIn
<1>2. row' \in [RowId -> RowDoc] /\ RowShape'
  <2>1. row' = [d \in RowId |-> IF d \in L THEN [row[d] EXCEPT !.stock = "consumed"] ELSE row[d]]
    BY DEF PoConsumes
  <2> HIDE DEF L
  <2> QED
    BY <1>1, <2>1, RowsSettled
<1>3. ShelfInv'
  <2>1. stock' = [s \in Sku |-> Consume(stock[s], Quantity(L, s))]
    BY DEF PoConsumes
  <2> HIDE DEF L
  <2>2. ASSUME NEW s \in Sku
        PROVE  Consume(stock[s], Quantity(L, s)) \in [avail : Nat, booked : Int, total : Int]
    <3>1. Quantity(L, s) \in Nat
      BY <1>1, QuantityIsNat DEF IInv, DocTypes
    <3> QED
      BY <3>1 DEF IInv, ShelfInv, Consume, BookedPart, LesserOf, GreaterOf
  <2> QED
    BY <2>1, <2>2 DEF ShelfInv
<1>4. gaps' \subseteq {"torn", "died", "crossed", "deleted", "outdated", "overwritten", "closed"}
  BY DEF PoConsumes, Crossed, IInv, DocTypes
<1> QED
  BY <1>2, <1>3, <1>4 DEF IInv, ShapeInv, PassShape, DocTypes, PoConsumes

LEMMA BookingCancelledKeeps ==
  ASSUME IInv, NEW b \in Booking \cup Fresh, BookingCancelled(b)
  PROVE  IInv'
<1> DEFINE H == {d \in RowsIn("reserved") : row[d].b = b}
           S == {d \in RowsIn("consumed") : row[d].b = b}
           L == H \cup S
<1>1. H \in SUBSET RowId /\ S \in SUBSET RowId /\ \A d \in H \cup S : row[d].stock # "none"
  BY DEF RowsIn
<1>2. row' \in [RowId -> RowDoc] /\ RowShape'
  <2>1. row' = [d \in RowId |-> IF d \in H \cup S THEN [row[d] EXCEPT !.stock = "released"] ELSE row[d]]
    BY DEF BookingCancelled
  <2> HIDE DEF H, S
  <2> QED
    BY <1>1, <2>1, RowsSettled
<1>3. ShelfInv'
  <2>1. stock' = [s \in Sku |-> TakeBack(Release(stock[s], Quantity(H, s)), Quantity(S, s))]
    BY DEF BookingCancelled
  <2> HIDE DEF H, S
  <2>2. ASSUME NEW s \in Sku
        PROVE  TakeBack(Release(stock[s], Quantity(H, s)), Quantity(S, s))
                 \in [avail : Nat, booked : Int, total : Int]
    <3>1. Quantity(H, s) \in Nat /\ Quantity(S, s) \in Nat
      BY <1>1, QuantityIsNat DEF IInv, DocTypes
    <3> QED
      BY <3>1 DEF IInv, ShelfInv, TakeBack, Release, BookedPart, LesserOf, GreaterOf
  <2> QED
    BY <2>1, <2>2 DEF ShelfInv
<1>4. indent' \in [Indent -> IndentDoc]
  BY DEF BookingCancelled, IInv, DocTypes, IndentDoc
<1>5. gaps' \subseteq {"torn", "died", "crossed", "deleted", "outdated", "overwritten", "closed"}
  BY DEF BookingCancelled, Crossed, IInv, DocTypes
<1> QED
  BY <1>2, <1>3, <1>4, <1>5 DEF IInv, ShapeInv, PassShape, DocTypes, BookingCancelled

LEMMA DeskCancelsIndentKeeps ==
  ASSUME IInv, NEW r \in Indent, DeskCancelsIndent(r)
  PROVE  IInv'
<1>1. indent' \in [Indent -> IndentDoc]
  BY DEF DeskCancelsIndent, IInv, DocTypes, IndentDoc
<1> QED
  BY <1>1 DEF DeskCancelsIndent, IInv, ShapeInv, PassShape, RowShape, DocTypes, ShelfInv

LEMMA ReopenedTyped ==
  ASSUME IInv, NEW r \in Indent, NEW q \in Nat, NEW n
  PROVE  Reopened(r, q, n) \in IndentDoc
<1>1. indent[r] \in IndentDoc
  BY DEF IInv, DocTypes
<1>2. indent[r].qty + q \in Nat
  BY <1>1 DEF IndentDoc
<1>3. CASE Open(r)
  <2> DEFINE total == indent[r].qty + q
  <2>1. Reopened(r, q, n) = [indent[r] EXCEPT !.qty = total]
    BY <1>3 DEF Reopened
  <2> HIDE DEF total
  <2>2. total \in Nat
    BY <1>2 DEF total
  <2> QED
    BY <1>1, <2>1, <2>2 DEF IndentDoc
<1>4. CASE ~Open(r)
  BY <1>4 DEF Reopened, IndentDoc, OpenStatus
<1> QED
  BY <1>3, <1>4

\* A row that gives up inward units has them, and its indent is one.
LEMMA GivesUpSound ==
  ASSUME IInv, NEW d \in RowId, NEW q \in 1..MaxQty, HoldsInward(d, q)
  PROVE  /\ q \in Nat /\ row[d].r \in Indent
         /\ Grown(row[d], -q) \in RowDoc /\ SoundRow(Grown(row[d], -q))
<1>1. q \in Nat
  BY AllocationAssumption
<1>2. row[d] \in RowDoc /\ SoundRow(row[d])
  BY DEF IInv, DocTypes, ShapeInv, RowShape, SoundRow
<1>3. row[d].inward \in Nat /\ q <= row[d].inward /\ row[d].stock # "none"
  BY <1>2 DEF RowDoc, HoldsInward
<1>4. -q \in Int /\ row[d].inward + (-q) \in Nat
  BY <1>1, <1>3
<1>5. SoundRow(Grown(row[d], -q))
  BY <1>2, <1>4, GrownIsSound
<1> QED
  BY <1>1, <1>2, <1>3, <1>5 DEF SoundRow

LEMMA AllocationCancelledKeeps ==
  ASSUME IInv, NEW d \in RowId, NEW q \in 1..MaxQty, AllocationCancelled(d, q)
  PROVE  IInv'
<1> DEFINE r == row[d].r
           s == SkuOf[r]
           g == Grown(row[d], -q)
<1>1. q \in Nat /\ r \in Indent /\ g \in RowDoc /\ SoundRow(g) /\ s \in Sku
  BY GivesUpSound, AllocationAssumption DEF AllocationCancelled
<1>2. row' = [row EXCEPT ![d] = g]
  BY DEF AllocationCancelled
<1>3. row' \in [RowId -> RowDoc] /\ RowShape'
  <2> HIDE DEF g
  <2> QED
    BY <1>1, <1>2 DEF IInv, DocTypes, ShapeInv, RowShape, SoundRow
<1>4. ShelfInv'
  <2>1. stock' = [stock EXCEPT ![s] = IF row[d].stock = "consumed" THEN TakeBack(@, q) ELSE Release(@, q)]
    BY DEF AllocationCancelled
  <2>2. /\ TakeBack(stock[s], q) \in [avail : Nat, booked : Int, total : Int]
        /\ Release(stock[s], q) \in [avail : Nat, booked : Int, total : Int]
    BY <1>1 DEF IInv, ShelfInv, TakeBack, Release, BookedPart, LesserOf, GreaterOf
  <2> HIDE DEF s
  <2> QED
    BY <2>1, <2>2 DEF IInv, ShelfInv
<1>5. indent' \in [Indent -> IndentDoc]
  <2>1. Reopened(r, q, row[d].qty) \in IndentDoc
    BY <1>1, ReopenedTyped
  <2> QED
    BY <1>1, <2>1 DEF IInv, DocTypes, AllocationCancelled
<1> QED
  BY <1>3, <1>4, <1>5 DEF IInv, ShapeInv, PassShape, DocTypes, AllocationCancelled

LEMMA AllocationMovedKeeps ==
  ASSUME IInv, NEW d \in RowId, NEW q \in 1..MaxQty, AllocationMoved(d, q)
  PROVE  IInv'
<1> DEFINE r == row[d].r
           s == SkuOf[r]
           g == Grown(row[d], -q)
<1>1. q \in Nat /\ r \in Indent /\ g \in RowDoc /\ SoundRow(g) /\ s \in Sku
  BY GivesUpSound, AllocationAssumption DEF AllocationMoved
<1>2. PICK gone \in BOOLEAN :
        /\ row' = [row EXCEPT ![d] = IF gone THEN NoRow ELSE g]
        /\ gaps' = gaps \cup (IF gone /\ Targeted(d) THEN {"deleted"} ELSE {})
  BY DEF AllocationMoved
<1>3. row' \in [RowId -> RowDoc] /\ RowShape'
  <2>1. NoRow \in RowDoc /\ SoundRow(NoRow)
    BY DEF NoRow, RowDoc, SoundRow
  <2> HIDE DEF g
  <2> QED
    BY <1>1, <1>2, <2>1 DEF IInv, DocTypes, ShapeInv, RowShape, SoundRow
<1>4. ShelfInv'
  <2>1. stock' = [stock EXCEPT ![s] = Release(@, q)]
    BY DEF AllocationMoved
  <2>2. Release(stock[s], q) \in [avail : Nat, booked : Int, total : Int]
    BY <1>1 DEF IInv, ShelfInv, Release, BookedPart, LesserOf, GreaterOf
  <2> HIDE DEF s
  <2> QED
    BY <2>1, <2>2 DEF IInv, ShelfInv
<1>5. indent' \in [Indent -> IndentDoc]
  <2>1. Reopened(r, q, row[d].qty) \in IndentDoc
    BY <1>1, ReopenedTyped
  <2> QED
    BY <1>1, <2>1 DEF IInv, DocTypes, AllocationMoved
<1>6. gaps' \subseteq {"torn", "died", "crossed", "deleted", "outdated", "overwritten", "closed"}
  BY <1>2 DEF IInv, DocTypes
<1> QED
  BY <1>3, <1>4, <1>5, <1>6 DEF IInv, ShapeInv, PassShape, DocTypes, AllocationMoved

LEMMA StockStepKeeps ==
  ASSUME IInv, StockStep
  PROVE  IInv'
<1>1. PICK s \in Sku : OtherBooks(s) \/ OtherReleases(s) \/ Arrives(s)
  BY DEF StockStep
<1>2. MaxElsewhere \in Nat /\ MaxArrived \in Nat
  BY AllocationAssumption
<1>3. CASE OtherBooks(s)
  BY <1>2, <1>3 DEF OtherBooks, CanTake, Reserve, IInv, ShapeInv, PassShape, RowShape, DocTypes, ShelfInv
<1>4. CASE OtherReleases(s)
  BY <1>2, <1>4 DEF OtherReleases, Release, BookedPart, LesserOf, GreaterOf,
                    IInv, ShapeInv, PassShape, RowShape, DocTypes, ShelfInv
<1>5. CASE Arrives(s)
  <2> DEFINE more == [avail |-> stock[s].avail + 1, booked |-> stock[s].booked,
                      total |-> stock[s].total + 1]
  <2>1. more \in [avail : Nat, booked : Int, total : Int]
    BY DEF IInv, ShelfInv
  <2>2. stock' = [stock EXCEPT ![s] = more]
    BY <1>5 DEF Arrives
  <2> HIDE DEF more
  <2>3. ShelfInv'
    BY <2>1, <2>2 DEF IInv, ShelfInv
  <2>4. arrived' \in [Sku -> 0..MaxArrived]
    BY <1>2, <1>5 DEF Arrives, IInv, DocTypes
  <2> QED
    BY <1>5, <2>3, <2>4 DEF Arrives, IInv, ShapeInv, PassShape, RowShape, DocTypes
<1> QED
  BY <1>1, <1>3, <1>4, <1>5

-----------------------------------------------------------------------------
(* The start, and the theorems.                                            *)

LEMMA SupplyIsNat == ASSUME NEW S \in SUBSET Supplied PROVE Total(LAMBDA r : Confirmed[r], S) \in Nat
<1> DEFINE U == {{r} \X (1..Confirmed[r]) : r \in S}
<1>1. IsFiniteSet(S)
  BY AllocationAssumption, FS_Subset, S \in SUBSET Indent DEF Supplied
<1>2. IsFiniteSet(U)
  <2> DEFINE f == [r \in S |-> {r} \X (1..Confirmed[r])]
  <2>1. f \in Surjection(S, U)
    BY DEF Surjection
  <2> QED
    BY <1>1, <2>1, FS_Surjection
<1>3. \A T \in U : IsFiniteSet(T)
  <2> SUFFICES ASSUME NEW r \in S PROVE IsFiniteSet({r} \X (1..Confirmed[r]))
    OBVIOUS
  <2>1. Confirmed[r] \in Int
    BY AllocationAssumption DEF Supplied
  <2>2. IsFiniteSet({r})
    BY FS_Singleton
  <2>3. IsFiniteSet(1..Confirmed[r])
    BY <2>1, FS_Interval
  <2> QED
    BY <2>2, <2>3, FS_Product
<1>4. IsFiniteSet(UNION U)
  BY <1>2, <1>3, FS_UNION
<1>5. Cardinality(UNION U) \in Nat
  BY <1>4, FS_CardinalityType
<1> QED
  BY <1>5 DEF Total

LEMMA InitRows ==
  ASSUME Init
  PROVE  row \in [RowId -> RowDoc] /\ RowShape
<1> DEFINE place(r) == Cardinality({x \in Supplied : x <= r})
           first == [d \in RowId |->
             IF \E r \in Supplied : place(r) = d
             THEN LET r == CHOOSE x \in Supplied : place(x) = d
                  IN  [b |-> Parent[r], r |-> r, qty |-> Confirmed[r], inward |-> 0, stock |-> "reserved"]
             ELSE NoRow]
<1>1. row = first
  BY DEF Init
<1>2. ASSUME NEW d \in RowId PROVE first[d] \in RowDoc /\ SoundRow(first[d])
  <2>1. CASE \E r \in Supplied : place(r) = d
    <3> DEFINE r == CHOOSE x \in Supplied : place(x) = d
    <3>1. r \in Supplied
      <4> HIDE DEF place
      <4> QED BY <2>1
    <3>2. first[d] = [b |-> Parent[r], r |-> r, qty |-> Confirmed[r], inward |-> 0, stock |-> "reserved"]
      <4> HIDE DEF place
      <4> QED BY <2>1
    <3> HIDE DEF r, first
    <3>3. r \in Indent /\ Confirmed[r] \in Nat /\ Parent[r] \in Booking \cup {NoBooking}
      BY <3>1, AllocationAssumption DEF Supplied
    <3> QED
      BY <3>2, <3>3 DEF RowDoc, SoundRow
  <2>2. CASE ~\E r \in Supplied : place(r) = d
    <3>1. first[d] = NoRow
      <4> HIDE DEF place
      <4> QED BY <2>2
    <3> HIDE DEF first
    <3> QED
      BY <3>1 DEF NoRow, RowDoc, SoundRow
  <2> HIDE DEF place, first
  <2> QED
    BY <2>1, <2>2
<1>3. DOMAIN first = RowId /\ first = [d \in RowId |-> first[d]]
  OBVIOUS
<1> HIDE DEF first
<1> QED
  BY <1>1, <1>2, <1>3 DEF SoundRow, RowShape

LEMMA InitHolds == ASSUME Init PROVE IInv
<1>1. stock \in [Sku -> [avail : Nat, booked : Int, total : Int]]
  <2> DEFINE sold(s) == Total(LAMBDA r : Confirmed[r], {r \in Supplied : SkuOf[r] = s})
  <2>1. stock = [s \in Sku |-> [avail |-> Stock[s], booked |-> sold(s), total |-> Stock[s] + sold(s)]]
    BY DEF Init
  <2>2. \A s \in Sku : sold(s) \in Nat
    BY SupplyIsNat
  <2> HIDE DEF sold
  <2> QED
    BY <2>1, <2>2, AllocationAssumption
<1>2. indent \in [Indent -> IndentDoc]
  <2>1. \A r \in Indent : Asked[r] \in Nat
    BY AllocationAssumption
  <2> QED
    BY <2>1 DEF Init, IndentDoc, OpenStatus
<1>3. Idle \in PassState /\ Shaped(Idle)
  BY IdleTyped
<1>4. pass \in [Worker -> PassState] /\ PassShape
  BY <1>3 DEF Init, PassShape
<1>5. elsewhere \in [Sku -> 0..MaxElsewhere] /\ arrived \in [Sku -> 0..MaxArrived]
  <2>1. elsewhere = [s \in Sku |-> 0] /\ arrived = [s \in Sku |-> 0]
    BY DEF Init
  <2> QED
    BY <2>1, AllocationAssumption
<1> QED
  BY <1>1, <1>2, <1>4, <1>5, InitRows DEF Init, IInv, DocTypes, ShapeInv, ShelfInv

LEMMA StepHolds == ASSUME IInv, [Next]_vars PROVE IInv'
<1>1. CASE \E w \in Worker : PassStep(w)
  <2>1. PICK w \in Worker : PassStep(w)
    BY <1>1
  <2>2. CASE Lists(w)
    BY <2>2, ListsKeeps
  <2>3. CASE PassDecides(w)
    BY <2>3, PassDecidesKeeps
  <2>4. CASE \E r \in Indent : ReadsIndent(w, r)
    BY <2>4, ReadsIndentKeeps
  <2>5. CASE AssignmentDecides(w)
    BY <2>5, AssignmentDecidesKeeps
  <2>6. CASE JobStarts(w)
    BY <2>6, JobStartsKeeps
  <2>7. CASE Claims(w)
    BY <2>7, ClaimsKeeps
  <2>8. CASE TakesStock(w)
    BY <2>8, TakesStockKeeps
  <2>9. CASE RestoresIndent(w)
    BY <2>9, RestoresIndentKeeps
  <2>10. CASE JobWrites(w)
    BY <2>10, JobWritesKeeps
  <2>11. CASE WriteFails(w)
    BY <2>11, WriteFailsKeeps
  <2>12. CASE Unwinds(w)
    BY <2>12, UnwindsKeeps
  <2>13. CASE PassDies(w)
    BY <2>13, PassDiesKeeps
  <2> QED
    BY <2>1, <2>2, <2>3, <2>4, <2>5, <2>6, <2>7, <2>8, <2>9, <2>10, <2>11, <2>12, <2>13 DEF PassStep
<1>2. CASE BookingStep
  <2>1. CASE \E b \in Booking \cup Fresh : PoConsumes(b) \/ BookingCancelled(b)
    BY <2>1, PoConsumesKeeps, BookingCancelledKeeps
  <2>2. CASE \E r \in Indent : DeskCancelsIndent(r)
    BY <2>2, DeskCancelsIndentKeeps
  <2>3. CASE \E d \in RowId, q \in 1..MaxQty : AllocationCancelled(d, q) \/ AllocationMoved(d, q)
    <3>1. PICK d \in RowId, q \in 1..MaxQty : AllocationCancelled(d, q) \/ AllocationMoved(d, q)
      BY <2>3
    <3> QED
      BY <3>1, AllocationCancelledKeeps, AllocationMovedKeeps
  <2> QED
    BY <1>2, <2>1, <2>2, <2>3 DEF BookingStep
<1>3. CASE StockStep
  BY <1>3, StockStepKeeps
<1>4. CASE UNCHANGED vars
  BY <1>4 DEF vars, IInv, DocTypes, ShapeInv, PassShape, RowShape, ShelfInv
<1> QED
  BY <1>1, <1>2, <1>3, <1>4 DEF Next

\* The inductive invariant: documents keep their types, a worker past a claim knows
\* which indent it is at, and the shelf is never below zero.
THEOREM InvariantHolds == Spec => []IInv
  BY InitHolds, StepHolds, PTL DEF Spec

\* Every document keeps its type: indents wait for a natural number of units, rows
\* never lose more than they have, workers hold indents and units they may hold.
THEOREM TypesKept == Spec => []TypeOK
<1>1. IInv => TypeOK
  BY DEF IInv, DocTypes, ShelfInv, TypeOK, Counters
<1> QED
  BY <1>1, InvariantHolds, PTL

\* However many passes, assignments, undos, settlements and deaths run into each
\* other, no unit that is not on the shelf is ever taken.
THEOREM NothingOversold == Spec => []NoOversell
<1>1. IInv => NoOversell
  BY DEF IInv, ShelfInv, NoOversell
<1> QED
  BY <1>1, InvariantHolds, PTL

-----------------------------------------------------------------------------
(* Sums of a function of natural numbers, as sizes of sets of units.       *)

Units(f, S) == UNION {{x} \X (1..f[x]) : x \in S}
Size(f, S) == Cardinality(Units(f, S))

\* The units of x are numbered from 1.
LEMMA UnitIn ==
  ASSUME NEW S, NEW f, NEW u
  PROVE  u \in Units(f, S) <=> \E x \in S : \E n \in 1..f[x] : u = <<x, n>>
  BY DEF Units

\* Finitely many things have finitely many units.
LEMMA SizeIsNat ==
  ASSUME NEW S, IsFiniteSet(S), NEW f \in [S -> Nat]
  PROVE  IsFiniteSet(Units(f, S)) /\ Size(f, S) \in Nat
<1> DEFINE U == {{x} \X (1..f[x]) : x \in S}
           g == [x \in S |-> {x} \X (1..f[x])]
<1>1. g \in Surjection(S, U)
  BY DEF Surjection
<1>2. IsFiniteSet(U)
  BY <1>1, FS_Surjection
<1>3. ASSUME NEW T \in U PROVE IsFiniteSet(T)
  <2>1. PICK x \in S : T = {x} \X (1..f[x])
    OBVIOUS
  <2>2. IsFiniteSet({x})
    BY FS_Singleton
  <2>3. IsFiniteSet(1..f[x])
    BY FS_Interval, f[x] \in Int
  <2> QED
    BY <2>1, <2>2, <2>3, FS_Product
<1>4. IsFiniteSet(UNION U)
  BY <1>2, <1>3, FS_UNION
<1> QED
  BY <1>4, FS_CardinalityType DEF Units, Size

\* Moving n units from g to h: each unit of f has its own in g or in h.
LEMMA SizePlus ==
  ASSUME NEW S, IsFiniteSet(S), NEW f \in [S -> Nat], NEW g \in [S -> Nat], NEW h \in [S -> Nat],
         \A x \in S : f[x] = g[x] + h[x]
  PROVE  Size(f, S) = Size(g, S) + Size(h, S)
<1> DEFINE G == Units(g, S)
           H == Units(h, S)
           K == Units(f, S) \ G
           t == [u \in H |-> <<u[1], u[2] + g[u[1]]>>]
<1>1. \A x \in S : f[x] \in Nat /\ g[x] \in Nat /\ h[x] \in Nat
  OBVIOUS
<1>2. G \subseteq Units(f, S)
  <2> SUFFICES ASSUME NEW u \in G PROVE u \in Units(f, S)
    OBVIOUS
  <2>1x. PICK x \in S : \E n \in 1..g[x] : u = <<x, n>>
    BY UnitIn
  <2>1. PICK n \in 1..g[x] : u = <<x, n>>
    BY <2>1x
  <2>2. n \in 1..f[x]
    BY <1>1
  <2> QED
    BY <2>1, <2>2, UnitIn
<1>3. \A u \in H : \E x \in S : \E n \in 1..h[x] : u = <<x, n>> /\ t[u] = <<x, n + g[x]>>
  <2> SUFFICES ASSUME NEW u \in H
               PROVE \E x \in S : \E n \in 1..h[x] : u = <<x, n>> /\ t[u] = <<x, n + g[x]>>
    OBVIOUS
  <2>1x. PICK x \in S : \E n \in 1..h[x] : u = <<x, n>>
    BY UnitIn
  <2>1. PICK n \in 1..h[x] : u = <<x, n>>
    BY <2>1x
  <2>2. t[u] = <<u[1], u[2] + g[u[1]]>>
    OBVIOUS
  <2> QED
    BY <2>1, <2>2
<1>4. \A u \in H : t[u] \in K
  <2> SUFFICES ASSUME NEW u \in H PROVE t[u] \in K
    OBVIOUS
  <2>1x. PICK x \in S : \E n \in 1..h[x] : u = <<x, n>> /\ t[u] = <<x, n + g[x]>>
    BY <1>3
  <2>1. PICK n \in 1..h[x] : u = <<x, n>> /\ t[u] = <<x, n + g[x]>>
    BY <2>1x
  <2> HIDE DEF t, H
  <2>2. n + g[x] \in 1..f[x] /\ n + g[x] \notin 1..g[x]
    BY <1>1
  <2>3. t[u] \in Units(f, S)
    BY <2>1, <2>2, UnitIn
  <2>4. t[u] \notin G
    <3> SUFFICES ASSUME NEW y \in S, NEW m \in 1..g[y], t[u] = <<y, m>> PROVE FALSE
      BY UnitIn
    <3> QED
      BY <2>1, <2>2
  <2> QED
    BY <2>3, <2>4
<1>5. \A k \in K : \E u \in H : t[u] = k
  <2> SUFFICES ASSUME NEW k \in K PROVE \E u \in H : t[u] = k
    OBVIOUS
  <2>1x. PICK x \in S : \E n \in 1..f[x] : k = <<x, n>>
    BY UnitIn
  <2>1. PICK n \in 1..f[x] : k = <<x, n>>
    BY <2>1x
  <2>2. n \notin 1..g[x]
    BY <2>1, UnitIn
  <2>3. n - g[x] \in 1..h[x] /\ (n - g[x]) + g[x] = n
    BY <2>2, <1>1
  <2>4. <<x, n - g[x]>> \in H
    BY <2>3, UnitIn
  <2>5. t[<<x, n - g[x]>>] = <<x, n>>
    BY <2>3, <2>4
  <2> QED
    BY <2>1, <2>4, <2>5
<1>6. \A u, v \in H : t[u] = t[v] => u = v
  <2> SUFFICES ASSUME NEW u \in H, NEW v \in H, t[u] = t[v] PROVE u = v
    OBVIOUS
  <2>1x. PICK x \in S : \E n \in 1..h[x] : u = <<x, n>> /\ t[u] = <<x, n + g[x]>>
    BY <1>3
  <2>1. PICK n \in 1..h[x] : u = <<x, n>> /\ t[u] = <<x, n + g[x]>>
    BY <2>1x
  <2>2x. PICK y \in S : \E m \in 1..h[y] : v = <<y, m>> /\ t[v] = <<y, m + g[y]>>
    BY <1>3
  <2>2. PICK m \in 1..h[y] : v = <<y, m>> /\ t[v] = <<y, m + g[y]>>
    BY <2>2x
  <2> HIDE DEF t, H
  <2>3. x = y /\ n + g[x] = m + g[y]
    BY <2>1, <2>2
  <2>4. n = m
    BY <2>3, <1>1
  <2> QED
    BY <2>1, <2>2, <2>3, <2>4
<1>7. t \in Bijection(H, K)
  <2>1. t \in [H -> K]
    BY <1>4
  <2> HIDE DEF t
  <2> QED
    BY <2>1, <1>5, <1>6, DOMAIN t = H, Zenon DEF Bijection, Injection, Surjection, IsInjective
<1>8. IsFiniteSet(G) /\ IsFiniteSet(H) /\ Size(g, S) \in Nat /\ Size(h, S) \in Nat
  BY SizeIsNat
<1> HIDE DEF G, H, K, t
<1>9. IsFiniteSet(K) /\ Cardinality(K) = Cardinality(H)
  BY <1>7, <1>8, FS_Bijection DEF ExistsBijection
<1>10. G \cap K = {} /\ Units(f, S) = G \cup K
  BY <1>2 DEF K
<1>11. Cardinality(G \cup K) = Cardinality(G) + Cardinality(K) - Cardinality(G \cap K)
  BY <1>8, <1>9, FS_Union, Zenon
<1>12. Cardinality(G \cap K) = 0
  BY <1>10, FS_EmptySet
<1>13. Size(f, S) = Cardinality(G) + Cardinality(K)
  BY <1>10, <1>11, <1>12, <1>8, <1>9 DEF Size, G, H
<1> QED
  BY <1>13, <1>9 DEF Size, G, H

\* A sum looks at nothing but the numbers.
LEMMA SizeSame ==
  ASSUME NEW S, NEW f, NEW g, \A x \in S : f[x] = g[x]
  PROVE  Size(f, S) = Size(g, S)
<1>1. Units(f, S) = Units(g, S)
  BY DEF Units
<1> QED
  BY <1>1 DEF Size

\* Nothing of anything is nothing.
LEMMA SizeNone ==
  ASSUME NEW S, NEW f, \A x \in S : f[x] = 0
  PROVE  Size(f, S) = 0
<1>1. \A u : u \notin Units(f, S)
  <2> SUFFICES ASSUME NEW u, NEW x \in S, NEW n \in 1..f[x] PROVE FALSE
    BY UnitIn
  <2> QED
    BY f[x] = 0
<1>2. Units(f, S) = {}
  BY <1>1
<1> QED
  BY <1>2, FS_EmptySet DEF Size

\* A sum with smaller numbers is not larger.
LEMMA SizeLess ==
  ASSUME NEW S, IsFiniteSet(S), NEW f \in [S -> Nat], NEW g \in [S -> Nat],
         \A x \in S : f[x] <= g[x]
  PROVE  Size(f, S) <= Size(g, S)
<1> DEFINE h == [x \in S |-> g[x] - f[x]]
<1>1. h \in [S -> Nat] /\ \A x \in S : g[x] = f[x] + h[x]
  OBVIOUS
<1> HIDE DEF h
<1>2. Size(g, S) = Size(f, S) + Size(h, S)
  BY <1>1, SizePlus
<1>3. Size(f, S) \in Nat /\ Size(h, S) \in Nat
  BY <1>1, SizeIsNat
<1> QED
  BY <1>2, <1>3

\* The sum over the values of an injective t is the sum over its domain.
LEMMA SizeMoved ==
  ASSUME NEW R, IsFiniteSet(R), NEW D, NEW h \in [R -> Nat], NEW k \in [D -> Nat],
         NEW t \in [R -> D], \A x, y \in R : t[x] = t[y] => x = y,
         \A x \in R : k[t[x]] = h[x],
         \A d \in D : (\A x \in R : t[x] # d) => k[d] = 0
  PROVE  Size(k, D) = Size(h, R)
<1> DEFINE H == Units(h, R)
           K == Units(k, D)
           m == [u \in H |-> <<t[u[1]], u[2]>>]
<1>1. \A u \in H : \E x \in R : \E n \in 1..h[x] : u = <<x, n>> /\ m[u] = <<t[x], n>>
  <2> SUFFICES ASSUME NEW u \in H
               PROVE \E x \in R : \E n \in 1..h[x] : u = <<x, n>> /\ m[u] = <<t[x], n>>
    OBVIOUS
  <2>1. PICK x \in R : \E n \in 1..h[x] : u = <<x, n>>
    BY UnitIn
  <2>2. m[u] = <<t[u[1]], u[2]>>
    OBVIOUS
  <2> QED
    BY <2>1, <2>2
<1>2. \A u \in H : m[u] \in K
  <2> SUFFICES ASSUME NEW u \in H PROVE m[u] \in K
    OBVIOUS
  <2>1. PICK x \in R : \E n \in 1..h[x] : u = <<x, n>> /\ m[u] = <<t[x], n>>
    BY <1>1
  <2>2. PICK n \in 1..h[x] : m[u] = <<t[x], n>>
    BY <2>1
  <2> HIDE DEF m, H
  <2>3. t[x] \in D /\ n \in 1..k[t[x]]
    OBVIOUS
  <2> QED
    BY <2>2, <2>3, UnitIn
<1>3. \A v \in K : \E u \in H : m[u] = v
  <2> SUFFICES ASSUME NEW v \in K PROVE \E u \in H : m[u] = v
    OBVIOUS
  <2>1. PICK d \in D : \E n \in 1..k[d] : v = <<d, n>>
    BY UnitIn
  <2>2. PICK n \in 1..k[d] : v = <<d, n>>
    BY <2>1
  <2>3. k[d] # 0
    BY k[d] \in Nat
  <2>4. PICK x \in R : t[x] = d
    BY <2>3
  <2>5. n \in 1..h[x]
    BY <2>4
  <2>6. <<x, n>> \in H
    BY <2>5, UnitIn
  <2>7. m[<<x, n>>] = <<d, n>>
    BY <2>6, <2>4
  <2> QED
    BY <2>2, <2>6, <2>7
<1>4. \A u, v \in H : m[u] = m[v] => u = v
  <2> SUFFICES ASSUME NEW u \in H, NEW v \in H, m[u] = m[v] PROVE u = v
    OBVIOUS
  <2>1. PICK x \in R : \E n \in 1..h[x] : u = <<x, n>> /\ m[u] = <<t[x], n>>
    BY <1>1
  <2>2. PICK y \in R : \E n \in 1..h[y] : v = <<y, n>> /\ m[v] = <<t[y], n>>
    BY <1>1
  <2>3. PICK i \in 1..h[x] : u = <<x, i>> /\ m[u] = <<t[x], i>>
    BY <2>1
  <2>4. PICK j \in 1..h[y] : v = <<y, j>> /\ m[v] = <<t[y], j>>
    BY <2>2
  <2> HIDE DEF m, H
  <2>5. t[x] = t[y] /\ i = j
    BY <2>3, <2>4
  <2> QED
    BY <2>3, <2>4, <2>5
<1>5. m \in Bijection(H, K)
  <2>1. m \in [H -> K]
    BY <1>2
  <2> HIDE DEF m, H, K
  <2> QED
    BY <2>1, <1>3, <1>4, DOMAIN m = H, Zenon DEF Bijection, Injection, Surjection, IsInjective
<1>6. IsFiniteSet(H)
  BY SizeIsNat
<1> HIDE DEF m, H, K
<1>7. Cardinality(K) = Cardinality(H)
  BY <1>5, <1>6, FS_Bijection DEF ExistsBijection
<1> QED
  BY <1>7 DEF Size, H, K

\* One number of a sum changes.
LEMMA SizeAtOne ==
  ASSUME NEW S, IsFiniteSet(S), NEW f \in [S -> Nat], NEW g \in [S -> Nat], NEW x \in S,
         \A y \in S \ {x} : f[y] = g[y]
  PROVE  Size(g, S) = Size(f, S) + g[x] - f[x] /\ Size(f, S) \in Nat /\ Size(g, S) \in Nat
<1> DEFINE rest == [y \in S |-> IF y = x THEN 0 ELSE f[y]]
           ofF == [y \in S |-> IF y = x THEN f[x] ELSE 0]
           ofG == [y \in S |-> IF y = x THEN g[x] ELSE 0]
           one == [y \in {x} |-> f[x]]
<1>1. ASSUME NEW n \in Nat, NEW k \in [S -> Nat], k = [y \in S |-> IF y = x THEN n ELSE 0]
      PROVE  Size(k, S) = n
  <2> DEFINE all == [i \in 1..n |-> <<x, i>>]
  <2>1. Units(k, S) = {x} \X (1..n)
    <3>1. ASSUME NEW u \in Units(k, S) PROVE u \in {x} \X (1..n)
      <4>1. PICK y \in S : \E i \in 1..k[y] : u = <<y, i>>
        BY UnitIn
      <4>2. y = x /\ k[y] = n
        BY <4>1, <1>1
      <4> QED
        BY <4>1, <4>2
    <3>2. ASSUME NEW u \in {x} \X (1..n) PROVE u \in Units(k, S)
      <4>1. PICK i \in 1..n : u = <<x, i>>
        OBVIOUS
      <4>2. k[x] = n
        BY <1>1
      <4> QED
        BY <4>1, <4>2, UnitIn
    <3> QED
      BY <3>1, <3>2
  <2>2. IsFiniteSet({x}) /\ Cardinality({x}) = 1
    BY FS_Singleton
  <2>3. IsFiniteSet(1..n) /\ Cardinality(1..n) = n
    <3>1. 1 \in Int /\ n \in Int
      OBVIOUS
    <3>2. IsFiniteSet(1..n) /\ Cardinality(1..n) = IF 1 > n THEN 0 ELSE n - 1 + 1
      BY <3>1, FS_Interval, Zenon
    <3> QED
      BY <3>2
  <2>4. Cardinality({x} \X (1..n)) = Cardinality({x}) * Cardinality(1..n)
    BY <2>2, <2>3, FS_Product
  <2> QED
    BY <2>1, <2>2, <2>3, <2>4 DEF Size
<1>2. /\ rest \in [S -> Nat] /\ ofF \in [S -> Nat] /\ ofG \in [S -> Nat]
      /\ f[x] \in Nat /\ g[x] \in Nat
  OBVIOUS
<1>3. Size(ofF, S) = f[x] /\ Size(ofG, S) = g[x]
  <2> HIDE DEF rest
  <2>1. Size(ofF, S) = f[x]
    BY <1>1, <1>2
  <2>2. Size(ofG, S) = g[x]
    BY <1>1, <1>2
  <2> QED BY <2>1, <2>2
<1>4. (\A y \in S : f[y] = rest[y] + ofF[y]) /\ (\A y \in S : g[y] = rest[y] + ofG[y])
  OBVIOUS
<1> HIDE DEF rest, ofF, ofG
<1>5. Size(f, S) = Size(rest, S) + Size(ofF, S)
  BY <1>2, <1>4, SizePlus
<1>6. Size(g, S) = Size(rest, S) + Size(ofG, S)
  BY <1>2, <1>4, SizePlus
<1>7. Size(rest, S) \in Nat /\ Size(f, S) \in Nat /\ Size(g, S) \in Nat
  BY <1>2, SizeIsNat
<1> QED
  BY <1>2, <1>3, <1>5, <1>6, <1>7

-----------------------------------------------------------------------------
(* What is promised to an indent, and what the counters owe to the lines.   *)

\* A worker is at an indent, has indents to do and has units in hand only inside
\* a job, each of these for other indents, and means to take units of all of them.
Orderly(p) ==
  /\ p.pc \in {"idle", "listed", "assigning", "ready"} => p.todo = {} /\ p.hand = {}
  /\ p.at # 0 <=> p.pc \in {"claimed", "refused", "unwound"}
  /\ p.at \notin p.todo \cup p.hand /\ p.todo \cap p.hand = {}
  /\ \A r \in Indent : r \in p.todo \cup p.hand \/ r = p.at => p.item[r].take > 0

\* What was read of an indent is that it was open; no more is taken than it waited
\* for then; only a take onto the indent's own booking has a row.
Meant(item) ==
  /\ item.take <= item.doc.qty
  /\ item # NoItem => item.doc.status \in OpenStatus
  /\ item.row # 0 => item.take > 0 /\ ~item.fresh

PassOrder == \A w \in Worker : Orderly(pass[w]) /\ \A r \in Indent : Meant(pass[w].item[r])

\* A row somebody means to add units to is the line of that indent, and its stock
\* is where it was seen, unless it was deleted or its booking settled since; a line
\* that was seen consumed is never reserved again.
Aimed(item, r) ==
  item.row # 0 =>
    /\ row[item.row] = NoRow => "deleted" \in gaps
    /\ row[item.row] # NoRow =>
         /\ row[item.row].r = r /\ row[item.row].b = Parent[r]
         /\ item.consumed => row[item.row].stock \in {"consumed", "released"}
         /\ "crossed" \notin gaps =>
              row[item.row].stock = IF item.consumed THEN "consumed" ELSE "reserved"
RowAim == \A w \in Worker : \A r \in Indent : Aimed(pass[w].item[r], r)

\* An indent is cancelled only by what counts as closing it.
OnlyClosed == "closed" \notin gaps => \A r \in Indent : indent[r].status # "Cancelled"

AimInv == PassOrder /\ RowAim /\ OnlyClosed

-----------------------------------------------------------------------------
(* The sums of the properties.                                             *)

\* What each of the pass states P, the row documents R adds to them.
ClaimBy(p, r) == IF r \in p.hand \/ p.at = r THEN p.item[r].take ELSE 0
ClaimOf(P, r) == [w \in Worker |-> ClaimBy(P[w], r)]
HandBy(p, s, c) ==
  [r \in Indent |->
     IF r \in p.hand /\ SkuOf[r] = s /\ p.item[r].consumed = c THEN p.item[r].take ELSE 0]
HandOf(P, s, c) == [wr \in Worker \X Indent |-> HandBy(P[wr[1]], s, c)[wr[2]]]
InwardOf(R, r) == [d \in RowId |-> IF R[d].r = r THEN R[d].inward ELSE 0]
QtyOf(R, state, s) ==
  [d \in RowId |-> IF R[d].stock = state /\ SkuOf[R[d].r] = s THEN R[d].qty ELSE 0]

\* A sum over the part M of S is a sum over S where the others count nothing.
LEMMA SumOverPart ==
  ASSUME NEW S, NEW M \in SUBSET S, NEW f, NEW g,
         \A x \in M : g[x] = f[x], \A x \in S \ M : g[x] = 0
  PROVE  Size(f, M) = Size(g, S)
<1>1. Units(f, M) = Units(g, S)
  <2>1. ASSUME NEW u \in Units(f, M) PROVE u \in Units(g, S)
    <3>1. PICK x \in M : \E n \in 1..f[x] : u = <<x, n>>
      BY UnitIn
    <3> QED
      BY <3>1, UnitIn
  <2>2. ASSUME NEW u \in Units(g, S) PROVE u \in Units(f, M)
    <3>1. PICK x \in S : \E n \in 1..g[x] : u = <<x, n>>
      BY UnitIn
    <3>2. CASE x \in M
      BY <3>1, <3>2, UnitIn
    <3>3. CASE x \notin M
      BY <3>1, <3>3
    <3> QED
      BY <3>2, <3>3
  <2> QED
    BY <2>1, <2>2
<1> QED
  BY <1>1 DEF Size

LEMMA ClaimedIs ==
  ASSUME NEW P, NEW r
  PROVE  Total(LAMBDA w : P[w].item[r].take, {w \in Worker : r \in P[w].hand \/ P[w].at = r})
           = Size(ClaimOf(P, r), Worker)
<1> DEFINE f == [w \in Worker |-> P[w].item[r].take]
           M == {w \in Worker : r \in P[w].hand \/ P[w].at = r}
<1>1. \A w \in M : ClaimOf(P, r)[w] = f[w]
  BY DEF ClaimOf, ClaimBy
<1>2. \A w \in Worker \ M : ClaimOf(P, r)[w] = 0
  BY DEF ClaimOf, ClaimBy
<1>3. Size(f, M) = Total(LAMBDA w : P[w].item[r].take, M)
  <2>1. \A w \in M : f[w] = P[w].item[r].take
    OBVIOUS
  <2> HIDE DEF f, M
  <2>2. {{w} \X (1..f[w]) : w \in M} = {{w} \X (1..P[w].item[r].take) : w \in M}
    BY <2>1
  <2> QED
    BY <2>2 DEF Size, Units, Total
<1>4. M \in SUBSET Worker
  OBVIOUS
<1>5. Size(f, M) = Size(ClaimOf(P, r), Worker)
  <2> HIDE DEF f, M
  <2> QED BY <1>1, <1>2, <1>4, SumOverPart
<1> QED
  BY <1>3, <1>5

LEMMA InHandIs ==
  ASSUME NEW P, NEW s, NEW c
  PROVE  Total(LAMBDA wr : P[wr[1]].item[wr[2]].take,
           {wr \in Worker \X Indent : /\ wr[2] \in P[wr[1]].hand
                                      /\ SkuOf[wr[2]] = s
                                      /\ P[wr[1]].item[wr[2]].consumed = c})
           = Size(HandOf(P, s, c), Worker \X Indent)
<1> DEFINE f == [wr \in Worker \X Indent |-> P[wr[1]].item[wr[2]].take]
           M == {wr \in Worker \X Indent : /\ wr[2] \in P[wr[1]].hand
                                           /\ SkuOf[wr[2]] = s
                                           /\ P[wr[1]].item[wr[2]].consumed = c}
<1>1. \A wr \in M : HandOf(P, s, c)[wr] = f[wr]
  BY DEF HandOf, HandBy
<1>2. \A wr \in (Worker \X Indent) \ M : HandOf(P, s, c)[wr] = 0
  BY DEF HandOf, HandBy
<1>3. Size(f, M) = Total(LAMBDA wr : P[wr[1]].item[wr[2]].take, M)
  <2>1. \A wr \in M : f[wr] = P[wr[1]].item[wr[2]].take
    OBVIOUS
  <2> HIDE DEF f, M
  <2>2. {{wr} \X (1..f[wr]) : wr \in M} = {{wr} \X (1..P[wr[1]].item[wr[2]].take) : wr \in M}
    BY <2>1
  <2> QED
    BY <2>2 DEF Size, Units, Total
<1>4. M \in SUBSET (Worker \X Indent)
  OBVIOUS
<1>5. Size(f, M) = Size(HandOf(P, s, c), Worker \X Indent)
  <2> HIDE DEF f, M
  <2> QED BY <1>1, <1>2, <1>4, SumOverPart
<1> QED
  BY <1>3, <1>5

LEMMA ReceivedIs ==
  ASSUME NEW R, NEW r
  PROVE  Total(LAMBDA d : R[d].inward, {d \in RowId : R[d].r = r}) = Size(InwardOf(R, r), RowId)
<1> DEFINE f == [d \in RowId |-> R[d].inward]
           M == {d \in RowId : R[d].r = r}
<1>1. \A d \in M : InwardOf(R, r)[d] = f[d]
  BY DEF InwardOf
<1>2. \A d \in RowId \ M : InwardOf(R, r)[d] = 0
  BY DEF InwardOf
<1>3. Size(f, M) = Total(LAMBDA d : R[d].inward, M)
  <2>1. \A d \in M : f[d] = R[d].inward
    OBVIOUS
  <2> HIDE DEF f, M
  <2>2. {{d} \X (1..f[d]) : d \in M} = {{d} \X (1..R[d].inward) : d \in M}
    BY <2>1
  <2> QED
    BY <2>2 DEF Size, Units, Total
<1>4. M \in SUBSET RowId
  OBVIOUS
<1>5. Size(f, M) = Size(InwardOf(R, r), RowId)
  <2> HIDE DEF f, M
  <2> QED BY <1>1, <1>2, <1>4, SumOverPart
<1> QED
  BY <1>3, <1>5

LEMMA QuantityIs ==
  ASSUME NEW R, NEW st, NEW s
  PROVE  Total(LAMBDA d : R[d].qty, {d \in {e \in RowId : R[e].stock = st} : SkuOf[R[d].r] = s})
           = Size(QtyOf(R, st, s), RowId)
<1> DEFINE f == [d \in RowId |-> R[d].qty]
           M == {d \in {e \in RowId : R[e].stock = st} : SkuOf[R[d].r] = s}
<1>1. \A d \in M : QtyOf(R, st, s)[d] = f[d]
  BY DEF QtyOf
<1>2. \A d \in RowId \ M : QtyOf(R, st, s)[d] = 0
  BY DEF QtyOf
<1>3. Size(f, M) = Total(LAMBDA d : R[d].qty, M)
  <2>1. \A d \in M : f[d] = R[d].qty
    OBVIOUS
  <2> HIDE DEF f, M
  <2>2. {{d} \X (1..f[d]) : d \in M} = {{d} \X (1..R[d].qty) : d \in M}
    BY <2>1
  <2> QED
    BY <2>2 DEF Size, Units, Total
<1>4. M \in SUBSET RowId
  OBVIOUS
<1>5. Size(f, M) = Size(QtyOf(R, st, s), RowId)
  <2> HIDE DEF f, M
  <2> QED BY <1>1, <1>2, <1>4, SumOverPart
<1> QED
  BY <1>3, <1>5

\* The sums of the state, and of the next one.
LEMMA Sums ==
  /\ \A r : Claimed(r) = Size(ClaimOf(pass, r), Worker)
  /\ \A r : Claimed(r)' = Size(ClaimOf(pass', r), Worker)
  /\ \A s, c : InHand(s, c) = Size(HandOf(pass, s, c), Worker \X Indent)
  /\ \A s, c : InHand(s, c)' = Size(HandOf(pass', s, c), Worker \X Indent)
  /\ \A r : Received(r) = Size(InwardOf(row, r), RowId)
  /\ \A r : Received(r)' = Size(InwardOf(row', r), RowId)
  /\ \A st, s : Quantity(RowsIn(st), s) = Size(QtyOf(row, st, s), RowId)
  /\ \A st, s : Quantity(RowsIn(st), s)' = Size(QtyOf(row', st, s), RowId)
<1>1. \A r : Claimed(r) = Size(ClaimOf(pass, r), Worker)
  BY ClaimedIs DEF Claimed
<1>2. \A r : Claimed(r)' = Size(ClaimOf(pass', r), Worker)
  BY ClaimedIs DEF Claimed, Total
<1>3. \A s, c : InHand(s, c) = Size(HandOf(pass, s, c), Worker \X Indent)
  BY InHandIs DEF InHand
<1>4. \A s, c : InHand(s, c)' = Size(HandOf(pass', s, c), Worker \X Indent)
  BY InHandIs DEF InHand, Total
<1>5. \A r : Received(r) = Size(InwardOf(row, r), RowId)
  BY ReceivedIs DEF Received
<1>6. \A r : Received(r)' = Size(InwardOf(row', r), RowId)
  BY ReceivedIs DEF Received, Total
<1>7. \A st, s : Quantity(RowsIn(st), s) = Size(QtyOf(row, st, s), RowId)
  BY QuantityIs DEF Quantity, RowsIn
<1>8. \A st, s : Quantity(RowsIn(st), s)' = Size(QtyOf(row', st, s), RowId)
  BY QuantityIs DEF Quantity, RowsIn, Total
<1> QED
  BY <1>1, <1>2, <1>3, <1>4, <1>5, <1>6, <1>7, <1>8

-----------------------------------------------------------------------------
(* One worker moves: what that does to the sums.                           *)

Moves(w) == pass' \in [Worker -> PassState] /\ \A v \in Worker \ {w} : pass'[v] = pass[v]

LEMMA ClaimByIsNat ==
  ASSUME NEW p \in PassState, NEW r \in Indent
  PROVE  ClaimBy(p, r) \in Nat
<1>1. p.item[r].take \in Nat
  BY TakeIsNat DEF PassState
<1> QED
  BY <1>1 DEF ClaimBy

LEMMA HandByIsNat ==
  ASSUME NEW p \in PassState, NEW s, NEW c
  PROVE  HandBy(p, s, c) \in [Indent -> Nat]
<1>1. \A r \in Indent : p.item[r].take \in Nat
  BY TakeIsNat DEF PassState
<1> QED
  BY <1>1 DEF HandBy

LEMMA ClaimStep ==
  ASSUME pass \in [Worker -> PassState], NEW w \in Worker, Moves(w), NEW r \in Indent
  PROVE  /\ Claimed(r)' = Claimed(r) + ClaimBy(pass'[w], r) - ClaimBy(pass[w], r)
         /\ Claimed(r) \in Nat /\ Claimed(r)' \in Nat
<1> DEFINE f == ClaimOf(pass, r)
           g == ClaimOf(pass', r)
<1>1. f \in [Worker -> Nat] /\ g \in [Worker -> Nat]
  BY ClaimByIsNat DEF ClaimOf, Moves
<1>2. \A v \in Worker \ {w} : f[v] = g[v]
  BY DEF ClaimOf, Moves
<1>3. f[w] = ClaimBy(pass[w], r) /\ g[w] = ClaimBy(pass'[w], r)
  BY DEF ClaimOf
<1>4. Claimed(r) = Size(f, Worker) /\ Claimed(r)' = Size(g, Worker)
  BY Sums
<1> HIDE DEF f, g
<1> QED
  BY <1>1, <1>2, <1>3, <1>4, SizeAtOne, AllocationAssumption

\* The units in the hand of a worker, of SKU s.
HandSum(p, s, c) == Size(HandBy(p, s, c), Indent)

LEMMA HandSumIsNat ==
  ASSUME NEW p \in PassState, NEW s, NEW c
  PROVE  HandSum(p, s, c) \in Nat
  BY HandByIsNat, SizeIsNat, AllocationAssumption DEF HandSum

\* The units in hand are those of w and those of the others.
RestOf(P, w, s, c) ==
  [wr \in Worker \X Indent |-> IF wr[1] = w THEN 0 ELSE HandBy(P[wr[1]], s, c)[wr[2]]]

LEMMA HandSplit ==
  ASSUME NEW P \in [Worker -> PassState], NEW w \in Worker, NEW s, NEW c
  PROVE  /\ Size(HandOf(P, s, c), Worker \X Indent)
              = Size(RestOf(P, w, s, c), Worker \X Indent) + HandSum(P[w], s, c)
         /\ Size(RestOf(P, w, s, c), Worker \X Indent) \in Nat
<1> DEFINE D == Worker \X Indent
           f == HandOf(P, s, c)
           rest == RestOf(P, w, s, c)
           own == [wr \in D |-> IF wr[1] = w THEN HandBy(P[w], s, c)[wr[2]] ELSE 0]
           t == [r \in Indent |-> <<w, r>>]
           h == HandBy(P[w], s, c)
<1>1. h \in [Indent -> Nat] /\ f \in [D -> Nat] /\ own \in [D -> Nat] /\ rest \in [D -> Nat]
  BY HandByIsNat DEF HandOf, RestOf
<1>2. IsFiniteSet(Indent) /\ IsFiniteSet(D)
  BY AllocationAssumption, FS_Product
<1>3. \A wr \in D : f[wr] = rest[wr] + own[wr]
  <2> SUFFICES ASSUME NEW wr \in D PROVE f[wr] = rest[wr] + own[wr]
    OBVIOUS
  <2>1. f[wr] = HandBy(P[wr[1]], s, c)[wr[2]]
    BY DEF HandOf
  <2>2. f[wr] \in Nat
    BY <1>1
  <2> QED
    BY <2>1, <2>2 DEF RestOf
<1>4. /\ t \in [Indent -> D] /\ \A x, y \in Indent : t[x] = t[y] => x = y
      /\ \A r \in Indent : own[t[r]] = h[r]
      /\ \A d \in D : (\A r \in Indent : t[r] # d) => own[d] = 0
  <2>1. \A r \in Indent : t[r] \in D /\ own[t[r]] = h[r]
    OBVIOUS
  <2>2. ASSUME NEW d \in D, \A r \in Indent : t[r] # d PROVE own[d] = 0
    <3>1. d = <<d[1], d[2]>> /\ d[2] \in Indent
      OBVIOUS
    <3>2. d[1] # w
      BY <3>1, <2>2
    <3> QED
      BY <3>2
  <2>3. \A x, y \in Indent : t[x] = t[y] => x = y
    OBVIOUS
  <2> QED
    BY <2>1, <2>2, <2>3
<1> HIDE DEF f, own, t, h, D, rest
<1>5. Size(f, D) = Size(rest, D) + Size(own, D) /\ Size(rest, D) \in Nat
  BY <1>1, <1>2, <1>3, SizePlus, SizeIsNat
<1>6. Size(own, D) = Size(h, Indent)
  BY <1>1, <1>2, <1>4, SizeMoved
<1> QED
  BY <1>5, <1>6 DEF HandSum, h, f, D, rest

LEMMA HandStep ==
  ASSUME pass \in [Worker -> PassState], NEW w \in Worker, Moves(w), NEW s, NEW c
  PROVE  /\ InHand(s, c)' = InHand(s, c) + HandSum(pass'[w], s, c) - HandSum(pass[w], s, c)
         /\ InHand(s, c) \in Nat /\ InHand(s, c)' \in Nat
         /\ HandSum(pass'[w], s, c) \in Nat /\ HandSum(pass[w], s, c) \in Nat
         /\ HandSum(pass[w], s, c) <= InHand(s, c)
<1> DEFINE D == Worker \X Indent
           rest == Size(RestOf(pass, w, s, c), D)
<1>1. RestOf(pass', w, s, c) = RestOf(pass, w, s, c)
  BY DEF RestOf, Moves
<1>2. pass' \in [Worker -> PassState]
  BY DEF Moves
<1>3. Size(HandOf(pass, s, c), D) = rest + HandSum(pass[w], s, c) /\ rest \in Nat
  BY HandSplit
<1>4. Size(HandOf(pass', s, c), D) = rest + HandSum(pass'[w], s, c)
  <2>1. Size(HandOf(pass', s, c), D) = Size(RestOf(pass', w, s, c), D) + HandSum(pass'[w], s, c)
    BY <1>2, HandSplit
  <2> QED
    BY <2>1, <1>1
<1>5. InHand(s, c) = Size(HandOf(pass, s, c), D) /\ InHand(s, c)' = Size(HandOf(pass', s, c), D)
  BY Sums
<1>6. HandSum(pass'[w], s, c) \in Nat /\ HandSum(pass[w], s, c) \in Nat
  BY <1>2, HandSumIsNat
<1> HIDE DEF rest, D
<1> QED
  BY <1>3, <1>4, <1>5, <1>6

\* A hand that stays as it is, and one that is empty.
LEMMA SameHand ==
  ASSUME NEW p, NEW q, NEW s, NEW c, p.hand = q.hand, \A r \in p.hand : p.item[r] = q.item[r]
  PROVE  HandSum(q, s, c) = HandSum(p, s, c)
<1>1. \A r \in Indent : HandBy(q, s, c)[r] = HandBy(p, s, c)[r]
  BY DEF HandBy
<1> QED
  BY <1>1, SizeSame DEF HandSum

LEMMA NoHand ==
  ASSUME NEW p, NEW s, NEW c, p.hand = {}
  PROVE  HandSum(p, s, c) = 0
<1>1. \A r \in Indent : HandBy(p, s, c)[r] = 0
  BY DEF HandBy
<1> QED
  BY <1>1, SizeNone DEF HandSum

\* A hand that loses r.
LEMMA LessHand ==
  ASSUME NEW p \in PassState, NEW q \in PassState, NEW r \in p.hand, NEW s, NEW c,
         q.hand = p.hand \ {r}, \A x \in q.hand : q.item[x] = p.item[x]
  PROVE  HandSum(p, s, c) = HandSum(q, s, c)
           + (IF SkuOf[r] = s /\ p.item[r].consumed = c THEN p.item[r].take ELSE 0)
<1> DEFINE f == HandBy(p, s, c)
           g == HandBy(q, s, c)
<1>0. r \in Indent /\ p.item[r].take \in Nat
  BY TakeIsNat DEF PassState
<1>1. f \in [Indent -> Nat] /\ g \in [Indent -> Nat]
  BY HandByIsNat
<1>2. \A x \in Indent \ {r} : g[x] = f[x]
  BY DEF HandBy
<1>3. f[r] = (IF SkuOf[r] = s /\ p.item[r].consumed = c THEN p.item[r].take ELSE 0) /\ g[r] = 0
  BY <1>0 DEF HandBy
<1> HIDE DEF f, g
<1>4. IsFiniteSet(Indent)
  BY AllocationAssumption
<1>5. Size(f, Indent) = Size(g, Indent) + f[r] - g[r] /\ Size(g, Indent) \in Nat
  BY <1>0, <1>1, <1>2, <1>4, SizeAtOne
<1> QED
  BY <1>0, <1>3, <1>5 DEF HandSum, f, g

-----------------------------------------------------------------------------
(* What is known of the workers.                                           *)

Well(p) == Orderly(p) /\ \A r \in Indent : Meant(p.item[r])

LEMMA NoItemMeant == Meant(NoItem) /\ NoItem.row = 0 /\ NoItem.take = 0
  BY DEF NoItem, Meant

LEMMA IdleWell == Well(Idle) /\ \A r \in Indent : Idle.item[r] = NoItem
<1>1. \A r \in Indent : r # 0
  BY AllocationAssumption
<1> QED
  BY <1>1, NoItemMeant DEF Idle, Well, Orderly

\* A worker with nothing in hand and nowhere to be.
LEMMA NoClaim ==
  ASSUME NEW p, p.hand = {}, p.at = 0, NEW r \in Indent
  PROVE  ClaimBy(p, r) = 0
  BY AllocationAssumption DEF ClaimBy

LEMMA OnwardsWell ==
  ASSUME NEW p \in PassState, Well(p)
  PROVE  /\ Well(Onwards(p))
         /\ \A r \in Indent : Onwards(p).item[r] \in {p.item[r], NoItem}
         /\ \A r \in Indent : ClaimBy(Onwards(p), r) = ClaimBy(p, r)
         /\ \A s, c : HandSum(Onwards(p), s, c) = HandSum(p, s, c)
<1> DEFINE done == p.pc = "job" /\ p.todo = {} /\ p.hand = {}
           next == [p EXCEPT !.pc = "ready", !.to = NoBooking, !.at = 0]
<1>1. CASE ~done
  BY <1>1 DEF Onwards
<1>2. CASE done
  <2>1. p.at = 0
    BY <1>2 DEF Well, Orderly
  <2>2. \A r \in Indent : ClaimBy(p, r) = 0
    BY <1>2, <2>1, NoClaim
  <2>3. \A s, c : HandSum(p, s, c) = 0
    BY <1>2, NoHand
  <2>4. CASE \E r \in Indent : p.item[r].take > 0
    <3>1. Onwards(p) = next
      BY <1>2, <2>4 DEF Onwards
    <3>2. /\ next.hand = {} /\ next.todo = {} /\ next.at = 0 /\ next.pc = "ready"
          /\ next.item = p.item
      BY <1>2, <2>1 DEF PassState
    <3>3. Well(next)
      BY <3>2, AllocationAssumption DEF Well, Orderly
    <3> HIDE DEF next
    <3>4. \A r \in Indent : ClaimBy(next, r) = 0
      BY <3>2, NoClaim
    <3>5. \A s, c : HandSum(next, s, c) = 0
      BY <3>2, NoHand
    <3> QED
      BY <3>1, <3>2, <3>3, <3>4, <3>5, <2>2, <2>3
  <2>5. CASE ~\E r \in Indent : p.item[r].take > 0
    <3>1. Onwards(p) = Idle
      BY <1>2, <2>5 DEF Onwards
    <3>2. Idle.hand = {} /\ Idle.at = 0
      BY DEF Idle
    <3>3. \A r \in Indent : ClaimBy(Idle, r) = 0
      BY <3>2, NoClaim
    <3>4. \A s, c : HandSum(Idle, s, c) = 0
      BY <3>2, NoHand
    <3> QED
      BY <3>1, <3>3, <3>4, <2>2, <2>3, IdleWell
  <2> QED
    BY <2>4, <2>5
<1> QED
  BY <1>1, <1>2

\* Rows somebody means to write to stay the lines they are.
KeptRow(d) ==
  \/ row'[d] = row[d]
  \/ /\ row[d] # NoRow /\ row'[d] # NoRow
     /\ row'[d].r = row[d].r /\ row'[d].b = row[d].b /\ row'[d].stock = row[d].stock

LEMMA KeptAim ==
  ASSUME NEW item, NEW r, Aimed(item, r), item.row # 0 => KeptRow(item.row), gaps \subseteq gaps'
  PROVE  item.row # 0 =>
           /\ row'[item.row] = NoRow => "deleted" \in gaps'
           /\ row'[item.row] # NoRow =>
                /\ row'[item.row].r = r /\ row'[item.row].b = Parent[r]
                /\ item.consumed => row'[item.row].stock \in {"consumed", "released"}
                /\ "crossed" \notin gaps' =>
                     row'[item.row].stock = IF item.consumed THEN "consumed" ELSE "reserved"
<1> SUFFICES ASSUME item.row # 0
    PROVE /\ row'[item.row] = NoRow => "deleted" \in gaps'
          /\ row'[item.row] # NoRow =>
               /\ row'[item.row].r = r /\ row'[item.row].b = Parent[r]
               /\ item.consumed => row'[item.row].stock \in {"consumed", "released"}
               /\ "crossed" \notin gaps' =>
                    row'[item.row].stock = IF item.consumed THEN "consumed" ELSE "reserved"
  OBVIOUS
<1>1. CASE row'[item.row] = row[item.row]
  BY <1>1 DEF Aimed
<1>2. CASE row'[item.row] # row[item.row]
  BY <1>2 DEF Aimed, KeptRow
<1> QED
  BY <1>1, <1>2

LEMMA TargetedBy ==
  ASSUME NEW w \in Worker, NEW r \in Indent
  PROVE  Targeted(pass[w].item[r].row)
  BY DEF Targeted

\* A step of worker w that decides nothing new.
LEMMA AimStep ==
  ASSUME AimInv, NEW w \in Worker, Moves(w), Well(pass'[w]),
         \A r \in Indent : pass'[w].item[r] = pass[w].item[r] \/ pass'[w].item[r].row = 0,
         \A d : Targeted(d) /\ d # 0 => KeptRow(d), gaps \subseteq gaps'
  PROVE  PassOrder' /\ RowAim'
<1>1. PassOrder'
  <2> SUFFICES ASSUME NEW v \in Worker PROVE Well(pass'[v])
    BY DEF PassOrder, Well, Orderly, Meant
  <2> QED
    BY DEF AimInv, PassOrder, Moves, Well
<1>2. RowAim'
  <2> SUFFICES ASSUME NEW v \in Worker, NEW r \in Indent PROVE Aimed(pass[v].item[r], r)'
    BY DEF RowAim
  <2>1. CASE pass'[v].item[r].row = 0
    BY <2>1 DEF Aimed
  <2>2. CASE pass'[v].item[r].row # 0
    <3>1. pass'[v].item[r] = pass[v].item[r]
      BY <2>2 DEF Moves
    <3>2. Aimed(pass[v].item[r], r)
      BY DEF AimInv, RowAim
    <3>3. KeptRow(pass[v].item[r].row)
      BY <2>2, <3>1, TargetedBy
    <3> DEFINE item == pass[v].item[r]
    <3> HIDE DEF item
    <3>4. item.row # 0 =>
           /\ row'[item.row] = NoRow => "deleted" \in gaps'
           /\ row'[item.row] # NoRow =>
                /\ row'[item.row].r = r /\ row'[item.row].b = Parent[r]
                /\ item.consumed => row'[item.row].stock \in {"consumed", "released"}
                /\ "crossed" \notin gaps' =>
                     row'[item.row].stock = IF item.consumed THEN "consumed" ELSE "reserved"
      BY <3>2, <3>3, KeptAim DEF item
    <3> QED
      BY <3>1, <3>4 DEF Aimed, item
  <2> QED
    BY <2>1, <2>2
<1> QED
  BY <1>1, <1>2

-----------------------------------------------------------------------------
(* What each step of a worker does to its claims and its hand.             *)

SameClaim(w, r) == ClaimBy(pass'[w], r) = ClaimBy(pass[w], r)
SameHands(w) == \A s, c : HandSum(pass'[w], s, c) = HandSum(pass[w], s, c)
Quiet(w) == Moves(w) /\ Well(pass'[w]) /\ (\A r \in Indent : SameClaim(w, r)) /\ SameHands(w)

LEMMA MovesTo ==
  ASSUME IInv, IInv', NEW w \in Worker, NEW q, pass' = [pass EXCEPT ![w] = q]
  PROVE  Moves(w) /\ pass'[w] = q /\ q \in PassState /\ pass[w] \in PassState
         /\ pass \in [Worker -> PassState]
  BY DEF IInv, DocTypes, Moves

LEMMA WorkerWell ==
  ASSUME AimInv, NEW w \in Worker
  PROVE  Well(pass[w])
  BY DEF AimInv, PassOrder, Well

LEMMA EmptyQuiet ==
  ASSUME NEW w \in Worker, Moves(w), Well(pass'[w]), pass[w].hand = {}, pass[w].at = 0,
         pass'[w].hand = {}, pass'[w].at = 0
  PROVE  Quiet(w)
<1>1. \A r \in Indent : SameClaim(w, r)
  BY NoClaim DEF SameClaim
<1>2. SameHands(w)
  BY NoHand DEF SameHands
<1> QED
  BY <1>1, <1>2 DEF Quiet

LEMMA ListsEffect ==
  ASSUME IInv, IInv', AimInv, NEW w \in Worker, Lists(w)
  PROVE  Quiet(w) /\ AimInv'
<1>1. PICK skus \in SUBSET Sku :
      LET listed == {r \in Indent : SkuOf[r] \in skus /\ Open(r)}
      IN  pass' = [pass EXCEPT ![w] =
            [@ EXCEPT !.pc = "listed",
                      !.item = [r \in Indent |->
                         IF r \in listed THEN [NoItem EXCEPT !.doc = indent[r]] ELSE NoItem]]]
  BY DEF Lists
<1> DEFINE items == [r \in Indent |-> IF SkuOf[r] \in skus /\ Open(r)
                                     THEN [NoItem EXCEPT !.doc = indent[r]] ELSE NoItem]
           p == pass[w]
           q == [p EXCEPT !.pc = "listed", !.item = items]
<1>2. pass' = [pass EXCEPT ![w] = q]
  BY <1>1
<1>3. p \in PassState /\ Well(p) /\ p.pc = "idle" /\ \A r \in Indent : indent[r] \in IndentDoc
  BY WorkerWell DEF IInv, DocTypes, Lists
<1>4. q.pc = "listed" /\ q.todo = {} /\ q.hand = {} /\ q.at = 0 /\ q.item = items
      /\ p.hand = {} /\ p.at = 0
  BY <1>3 DEF PassState, Well, Orderly
<1>5. \A r \in Indent : Meant(items[r]) /\ items[r].row = 0
  <2> TAKE r \in Indent
  <2>1. indent[r].qty \in Nat
    BY <1>3 DEF IndentDoc
  <2> QED
    BY <2>1, NoItemMeant DEF NoItem, Meant, Open
<1> HIDE DEF q, items
<1>6. Well(q)
  BY <1>4, <1>5, AllocationAssumption DEF Well, Orderly
<1>7. Moves(w) /\ pass'[w] = q
  BY <1>2, MovesTo
<1>8. Quiet(w)
  BY <1>4, <1>6, <1>7, EmptyQuiet
<1>9. UNCHANGED <<indent, row, gaps>>
  BY DEF Lists
<1>10. PassOrder' /\ RowAim'
  <2>1. \A d : KeptRow(d)
    BY <1>9 DEF KeptRow
  <2>2. \A r \in Indent : pass'[w].item[r].row = 0
    BY <1>4, <1>5, <1>7
  <2> QED
    BY <1>6, <1>7, <1>9, <2>1, <2>2, AimStep
<1> QED
  BY <1>8, <1>9, <1>10 DEF AimInv, OnlyClosed

LEMMA ReadsIndentEffect ==
  ASSUME IInv, IInv', AimInv, NEW w \in Worker, NEW x \in Indent, ReadsIndent(w, x)
  PROVE  Quiet(w) /\ AimInv'
<1> DEFINE p == pass[w]
           q == [p EXCEPT !.pc = "assigning", !.item[x] = [NoItem EXCEPT !.doc = indent[x]]]
<1>2. pass' = [pass EXCEPT ![w] = q]
  BY DEF ReadsIndent
<1>3. p \in PassState /\ Well(p) /\ p.pc = "idle" /\ indent[x] \in IndentDoc /\ Open(x)
  BY WorkerWell DEF IInv, DocTypes, ReadsIndent
<1>4. q.pc = "assigning" /\ q.todo = {} /\ q.hand = {} /\ q.at = 0
      /\ p.hand = {} /\ p.at = 0
  BY <1>3 DEF PassState, Well, Orderly
<1>5. \A r \in Indent : q.item[r] = IF r = x THEN [NoItem EXCEPT !.doc = indent[x]] ELSE p.item[r]
  BY <1>3 DEF PassState
<1>6. Meant([NoItem EXCEPT !.doc = indent[x]]) /\ [NoItem EXCEPT !.doc = indent[x]].row = 0
  <2>1. indent[x].qty \in Nat
    BY <1>3 DEF IndentDoc
  <2> QED
    BY <1>3, <2>1 DEF NoItem, Meant, Open
<1> HIDE DEF q
<1>7. Well(q)
  BY <1>3, <1>4, <1>5, <1>6, AllocationAssumption DEF Well, Orderly
<1>8. Moves(w) /\ pass'[w] = q
  BY <1>2, MovesTo
<1>9. Quiet(w)
  BY <1>4, <1>7, <1>8, EmptyQuiet
<1>10. UNCHANGED <<indent, row, gaps>>
  BY DEF ReadsIndent
<1>11. PassOrder' /\ RowAim'
  <2>1. \A d : KeptRow(d)
    BY <1>10 DEF KeptRow
  <2>2. \A r \in Indent : pass'[w].item[r] = pass[w].item[r] \/ pass'[w].item[r].row = 0
    BY <1>5, <1>6, <1>8
  <2> QED
    BY <1>7, <1>8, <1>10, <2>1, <2>2, AimStep
<1> QED
  BY <1>9, <1>10, <1>11 DEF AimInv, OnlyClosed

\* What is decided for an indent is meant for it, and aimed at its line.
LEMMA DecisionsMeant ==
  ASSUME DocTypes, NEW r \in Indent, NEW old \in Item, Meant(old), NEW n \in 0..MaxQty,
         n <= old.doc.qty, NEW item \in Decisions(r, old.doc, n)
  PROVE  Meant(item) /\ Aimed(item, r)
<1> DEFINE Made(d, consumed) ==
      [doc |-> old.doc, take |-> n, row |-> d, consumed |-> consumed, fresh |-> NeedsFresh(r)]
<1>0. n \in Nat /\ old.doc.qty \in Nat
  BY AllocationAssumption DEF Item, IndentDoc
<1>1. n > 0 => old.doc.status \in OpenStatus
  BY <1>0 DEF Meant, NoItem
<1>2. CASE n = 0
  <2>1. item = NoItem
    BY <1>2 DEF Decisions
  <2> QED
    BY <2>1, NoItemMeant DEF Aimed
<1>3. ASSUME NEW consumed, n > 0 PROVE Meant(Made(0, consumed)) /\ Aimed(Made(0, consumed), r)
  BY <1>0, <1>1, <1>3 DEF Meant, Aimed
<1>4. CASE n > 0 /\ (NeedsFresh(r) \/ LiveRows(Parent[r]) = {})
  <2>1. ~NeedsFresh(r) => LineRows(r) = {}
    BY <1>4 DEF LineRows
  <2>2. Decisions(r, old.doc, n) = {Made(0, FALSE)}
    BY <2>1, <1>4 DEF Decisions
  <2>3. item = Made(0, FALSE)
    BY <2>2
  <2> QED
    BY <2>3, <1>3, <1>4
<1>5. CASE n > 0 /\ ~NeedsFresh(r) /\ LiveRows(Parent[r]) # {} /\ LineRows(r) # {}
  <2>1. PICK d \in LineRows(r) : item = Made(d, row[d].stock = "consumed")
    BY <1>5 DEF Decisions
  <2>2. d \in RowId /\ row[d].b = Parent[r] /\ row[d].r = r /\ row[d].stock \in {"reserved", "consumed"}
    BY DEF LineRows, LiveRows
  <2>3. row[d] # NoRow
    BY <2>2 DEF NoRow
  <2>4. /\ item.row = d /\ item.consumed = (row[d].stock = "consumed") /\ item.take = n
        /\ item.fresh = NeedsFresh(r) /\ item.doc = old.doc
    BY <2>1
  <2>5. Meant(item)
    BY <1>0, <1>1, <1>5, <2>4 DEF Meant
  <2>6. Aimed(item, r)
    BY <2>2, <2>3, <2>4 DEF Aimed
  <2> QED
    BY <2>5, <2>6
<1>6. CASE n > 0 /\ ~NeedsFresh(r) /\ LiveRows(Parent[r]) # {} /\ LineRows(r) = {}
  <2>1. PICK d \in LiveRows(Parent[r]) : item = Made(0, row[d].stock = "consumed")
    BY <1>6 DEF Decisions
  <2> QED
    BY <2>1, <1>3, <1>6
<1> QED
  BY <1>0, <1>2, <1>4, <1>5, <1>6

LEMMA DecidesEffect ==
  ASSUME IInv, IInv', AimInv, NEW w \in Worker, NEW n \in [Indent -> 0..MaxQty], Decides(w, n),
         \A r \in Indent : n[r] > 0 => n[r] <= pass[w].item[r].doc.qty,
         pass[w].pc \in {"listed", "assigning"}, UNCHANGED <<indent, row, gaps>>
  PROVE  Quiet(w) /\ AimInv'
<1> DEFINE p == pass[w]
           read == p.item
<1> PICK item : /\ DOMAIN item = Indent /\ item = [r \in Indent |-> item[r]]
                /\ \A r \in Indent : item[r] \in Decisions(r, read[r].doc, n[r])
                /\ pass' = [pass EXCEPT ![w] =
                     IF \E r \in Indent : n[r] > 0
                     THEN [Idle EXCEPT !.pc = "ready", !.item = item] ELSE Idle]
  BY DEF Decides
<1>1. p \in PassState /\ Well(p) /\ p.hand = {} /\ p.at = 0
  BY WorkerWell DEF IInv, DocTypes, Well, Orderly
<1>2. \A r \in Indent : Meant(item[r]) /\ Aimed(item[r], r)
  <2> TAKE r \in Indent
  <2>1. read[r] \in Item /\ Meant(read[r])
    BY <1>1 DEF PassState, Well
  <2>2. n[r] \in 0..MaxQty /\ n[r] \in Nat /\ read[r].doc.qty \in Nat
    BY <2>1, AllocationAssumption DEF Item, IndentDoc
  <2>3. n[r] <= read[r].doc.qty
    BY <2>2
  <2> QED
    BY <2>1, <2>2, <2>3, DecisionsMeant DEF IInv
<1> DEFINE ready == [Idle EXCEPT !.pc = "ready", !.item = item]
           q == IF \E r \in Indent : n[r] > 0 THEN ready ELSE Idle
<1>a. pass' = [pass EXCEPT ![w] = q]
  OBVIOUS
<1>3. /\ ready.pc = "ready" /\ ready.todo = {} /\ ready.hand = {} /\ ready.at = 0 /\ ready.item = item
  BY DEF Idle
<1> HIDE DEF ready
<1>4. Well(ready)
  BY <1>2, <1>3, AllocationAssumption DEF Well, Orderly
<1>5. Idle.hand = {} /\ Idle.at = 0
  BY DEF Idle
<1>6. Well(q) /\ q.hand = {} /\ q.at = 0
  BY <1>3, <1>4, <1>5, IdleWell
<1>7. Moves(w) /\ pass'[w] = q
  <2> HIDE DEF q
  <2> QED BY <1>a, MovesTo
<1>8. Quiet(w)
  BY <1>1, <1>6, <1>7, EmptyQuiet
<1>9. \A r \in Indent : q.item[r] = NoItem \/ q.item[r] = item[r]
  BY <1>3, IdleWell
<1> HIDE DEF q
<1>10. PassOrder'
  <2> SUFFICES ASSUME NEW v \in Worker PROVE Well(pass'[v])
    BY DEF PassOrder, Well, Orderly, Meant
  <2> QED
    BY <1>6, <1>7 DEF AimInv, PassOrder, Moves, Well
<1>11. RowAim'
  <2> SUFFICES ASSUME NEW v \in Worker, NEW r \in Indent PROVE Aimed(pass[v].item[r], r)'
    BY DEF RowAim
  <2>1. Aimed(pass'[v].item[r], r)
    <3>1. CASE v = w
      BY <1>2, <1>7, <1>9, <3>1, NoItemMeant DEF Aimed
    <3>2. CASE v # w
      BY <3>2, <1>7 DEF Moves, AimInv, RowAim
    <3> QED BY <3>1, <3>2
  <2> QED
    BY <2>1 DEF Aimed
<1> QED
  BY <1>8, <1>10, <1>11 DEF AimInv, OnlyClosed

LEMMA PassDecidesEffect ==
  ASSUME IInv, IInv', AimInv, NEW w \in Worker, PassDecides(w)
  PROVE  Quiet(w) /\ AimInv'
<1>1. PICK n \in [Indent -> 0..MaxQty] : Shortlists(pass[w].item, n) /\ Decides(w, n)
  BY DEF PassDecides
<1>2. \A r \in Indent : n[r] > 0 => n[r] <= pass[w].item[r].doc.qty
  BY <1>1 DEF Shortlists
<1>3. pass[w].pc = "listed" /\ UNCHANGED <<indent, row, gaps>>
  BY DEF PassDecides
<1> QED
  BY <1>1, <1>2, <1>3, DecidesEffect

LEMMA AssignmentDecidesEffect ==
  ASSUME IInv, IInv', AimInv, NEW w \in Worker, AssignmentDecides(w)
  PROVE  Quiet(w) /\ AimInv'
<1>1. PICK n \in [Indent -> 0..MaxQty] :
        /\ \A r \in Indent : n[r] > 0 => n[r] <= pass[w].item[r].doc.qty
        /\ Decides(w, n)
  BY DEF AssignmentDecides
<1>2. pass[w].pc = "assigning" /\ UNCHANGED <<indent, row, gaps>>
  BY DEF AssignmentDecides
<1> QED
  BY <1>1, <1>2, DecidesEffect

LEMMA JobStartsEffect ==
  ASSUME IInv, IInv', AimInv, NEW w \in Worker, JobStarts(w)
  PROVE  Quiet(w) /\ AimInv'
<1> DEFINE p == pass[w]
           wanted == {r \in Indent : p.item[r].take > 0}
           Started(to, items) ==
             pass' = [pass EXCEPT ![w] = [@ EXCEPT !.pc = "job", !.to = to, !.todo = items]]
<1>1. \E to : \E items \in SUBSET wanted : Started(to, items)
  <2>1. CASE \E b \in {Parent[r] : r \in {x \in wanted : ~pass[w].item[x].fresh}} :
               Started(b, {r \in wanted : ~pass[w].item[r].fresh /\ Parent[r] = b})
    <3>1. PICK b : Started(b, {r \in wanted : ~pass[w].item[r].fresh /\ Parent[r] = b})
      <4> HIDE DEF Started
      <4> QED BY <2>1
    <3>2. {r \in wanted : ~pass[w].item[r].fresh /\ Parent[r] = b} \in SUBSET wanted
      OBVIOUS
    <3> HIDE DEF Started, wanted
    <3> QED
      BY <3>1, <3>2
  <2>2. CASE \E c \in {CustomerOf[r] : r \in {x \in wanted : pass[w].item[x].fresh}}, b \in Fresh \ drawn :
               Started(b, {r \in wanted : pass[w].item[r].fresh /\ CustomerOf[r] = c})
    <3> HIDE DEF Started
    <3>1. PICK c \in {CustomerOf[r] : r \in {x \in wanted : pass[w].item[x].fresh}}, b \in Fresh :
            Started(b, {r \in wanted : pass[w].item[r].fresh /\ CustomerOf[r] = c})
      <4> HIDE DEF wanted
      <4> QED BY <2>2
    <3>2. {r \in wanted : pass[w].item[r].fresh /\ CustomerOf[r] = c} \in SUBSET wanted
      OBVIOUS
    <3> HIDE DEF wanted
    <3> QED
      BY <3>1, <3>2
  <2>3. \/ \E b \in {Parent[r] : r \in {x \in wanted : ~pass[w].item[x].fresh}} :
              /\ Started(b, {r \in wanted : ~pass[w].item[r].fresh /\ Parent[r] = b})
              /\ UNCHANGED drawn
        \/ \E c \in {CustomerOf[r] : r \in {x \in wanted : pass[w].item[x].fresh}}, b \in Fresh \ drawn :
              /\ Started(b, {r \in wanted : pass[w].item[r].fresh /\ CustomerOf[r] = c})
              /\ drawn' = drawn \cup {b}
    BY Zenon DEF JobStarts
  <2> HIDE DEF Started, wanted
  <2> QED
    BY <2>1, <2>2, <2>3
<1>a. PICK to : \E items \in SUBSET wanted : Started(to, items)
  <2> HIDE DEF Started, wanted
  <2> QED BY <1>1
<1>2. PICK items \in SUBSET wanted : Started(to, items)
  <2> HIDE DEF Started, wanted
  <2> QED BY <1>a
<1> DEFINE q == [p EXCEPT !.pc = "job", !.to = to, !.todo = items]
<1>3. pass' = [pass EXCEPT ![w] = q]
  BY <1>2
<1>4. p \in PassState /\ Well(p) /\ p.pc = "ready"
  BY WorkerWell, Zenon DEF IInv, DocTypes, JobStarts
<1>4a. p \in PassState /\ Well(p) /\ p.hand = {} /\ p.at = 0
  BY <1>4 DEF Well, Orderly
<1>5. q.pc = "job" /\ q.todo = items /\ q.hand = {} /\ q.at = 0 /\ q.item = p.item
  BY <1>4a DEF PassState
<1> HIDE DEF q
<1>6. Well(q)
  BY <1>2, <1>4a, <1>5, AllocationAssumption DEF Well, Orderly
<1>7. Moves(w) /\ pass'[w] = q
  BY <1>3, MovesTo
<1>8. Quiet(w)
  BY <1>4a, <1>5, <1>6, <1>7, EmptyQuiet
<1>9. UNCHANGED <<indent, row, gaps>>
  BY Zenon DEF JobStarts
<1>10. PassOrder' /\ RowAim'
  <2>1. \A d : KeptRow(d)
    BY <1>9 DEF KeptRow
  <2>2. \A r \in Indent : pass'[w].item[r] = pass[w].item[r]
    BY <1>5, <1>7
  <2> QED
    BY <1>6, <1>7, <1>9, <2>1, <2>2, AimStep
<1> QED
  BY <1>8, <1>9, <1>10 DEF AimInv, OnlyClosed

LEMMA AfterClaimStatus ==
  ASSUME NEW doc \in IndentDoc, NEW item
  PROVE  AfterClaim(doc, item).status \in {"Confirmed", "Partially Confirmed"}
  BY DEF AfterClaim, IndentDoc

\* A claim, and what it claims.
ClaimOne(w, r) ==
  /\ Moves(w) /\ Well(pass'[w]) /\ SameHands(w)
  /\ Claimable(r, pass[w].item[r])
  /\ Meant(pass[w].item[r]) /\ pass[w].item[r].take > 0 /\ pass[w].item[r] \in Item
  /\ indent' = [indent EXCEPT ![r] = AfterClaim(@, pass[w].item[r])]
  /\ gaps' = gaps \cup (IF pass[w].item[r].fresh /\ indent[r].qty # pass[w].item[r].doc.qty
                        THEN {"outdated"} ELSE {})
  /\ ClaimBy(pass[w], r) = 0 /\ ClaimBy(pass'[w], r) = pass[w].item[r].take
  /\ \A x \in Indent \ {r} : SameClaim(w, x)

LEMMA ClaimsEffect ==
  ASSUME IInv, IInv', AimInv, NEW w \in Worker, Claims(w)
  PROVE  /\ AimInv'
         /\ \/ Quiet(w) /\ UNCHANGED <<indent, gaps>>
            \/ \E r \in Indent : ClaimOne(w, r)
<1> DEFINE p == pass[w]
<1>1. PICK r \in p.todo :
        IF Claimable(r, p.item[r])
        THEN /\ indent' = [indent EXCEPT ![r] = AfterClaim(@, p.item[r])]
             /\ pass' = [pass EXCEPT ![w] =
                  [p EXCEPT !.pc = "claimed", !.at = r, !.todo = @ \ {r}]]
             /\ gaps' = gaps \cup (IF p.item[r].fresh /\ indent[r].qty # p.item[r].doc.qty
                                 THEN {"outdated"} ELSE {})
        ELSE /\ pass' = [pass EXCEPT ![w] =
                  Onwards([p EXCEPT !.todo = @ \ {r}, !.item[r] = NoItem])]
             /\ UNCHANGED <<indent, gaps>>
  BY Zenon DEF Claims, Oldest
<1>2. p.pc = "job" /\ UNCHANGED row
  BY Zenon DEF Claims
<1>3. p \in PassState /\ Well(p) /\ r \in Indent /\ r # 0 /\ p.item[r] \in Item
  BY WorkerWell, AllocationAssumption DEF IInv, DocTypes, PassState
<1>4. p.at = 0 /\ r \notin p.hand /\ p.item[r].take > 0 /\ Meant(p.item[r])
  BY <1>2, <1>3 DEF Well, Orderly
<1>0. \A d : KeptRow(d)
  BY <1>2 DEF KeptRow
<1>5. CASE Claimable(r, p.item[r])
  <2> DEFINE q == [p EXCEPT !.pc = "claimed", !.at = r, !.todo = @ \ {r}]
  <2>1. q.pc = "claimed" /\ q.at = r /\ q.todo = p.todo \ {r} /\ q.hand = p.hand /\ q.item = p.item
    BY <1>3 DEF PassState
  <2>2. pass' = [pass EXCEPT ![w] = q]
    BY <1>1, <1>5
  <2> HIDE DEF q
  <2>3. Well(q)
    BY <1>2, <1>3, <1>4, <2>1 DEF Well, Orderly
  <2>4. Moves(w) /\ pass'[w] = q
    BY <2>2, MovesTo
  <2>5. SameHands(w)
    BY <2>1, <2>4, SameHand DEF SameHands
  <2>6. \A x \in Indent \ {r} : SameClaim(w, x)
    BY <1>4, <2>1, <2>4, AllocationAssumption DEF SameClaim, ClaimBy
  <2>7. ClaimBy(p, r) = 0 /\ ClaimBy(q, r) = p.item[r].take
    BY <1>3, <1>4, <2>1 DEF ClaimBy
  <2>8. ClaimOne(w, r)
    BY <1>1, <1>3, <1>4, <1>5, <2>3, <2>4, <2>5, <2>6, <2>7 DEF ClaimOne
  <2>9. PassOrder' /\ RowAim'
    <3>1. \A x \in Indent : pass'[w].item[x] = pass[w].item[x]
      BY <2>1, <2>4
    <3>2. gaps \subseteq gaps'
      BY <1>1, <1>5
    <3> QED
      BY <1>0, <2>3, <2>4, <3>1, <3>2, AimStep
  <2>10. OnlyClosed'
    <3>1. indent'[r].status \in {"Confirmed", "Partially Confirmed"}
      <4>1. indent[r] \in IndentDoc /\ indent'[r] = AfterClaim(indent[r], p.item[r])
        BY <1>1, <1>3, <1>5 DEF IInv, DocTypes
      <4> QED
        BY <4>1, AfterClaimStatus
    <3>2. \A x \in Indent \ {r} : indent'[x] = indent[x]
      BY <1>1, <1>5 DEF IInv, DocTypes
    <3>3. "closed" \in gaps => "closed" \in gaps'
      BY <1>1, <1>5
    <3> QED
      BY <3>1, <3>2, <3>3 DEF AimInv, OnlyClosed
  <2> QED
    BY <1>3, <2>8, <2>9, <2>10 DEF AimInv
<1>6. CASE ~Claimable(r, p.item[r])
  <2> DEFINE q == [p EXCEPT !.todo = @ \ {r}, !.item[r] = NoItem]
  <2>1. q.pc = "job" /\ q.at = 0 /\ q.todo = p.todo \ {r} /\ q.hand = p.hand
        /\ \A x \in Indent : q.item[x] = IF x = r THEN NoItem ELSE p.item[x]
    BY <1>2, <1>3, <1>4 DEF PassState
  <2>2. pass' = [pass EXCEPT ![w] = Onwards(q)] /\ UNCHANGED <<indent, gaps>>
    BY <1>1, <1>6, Zenon
  <2>3. q \in PassState
    BY <1>3, IdleItem DEF PassState
  <2> HIDE DEF q
  <2>4. Well(q)
    BY <1>2, <1>3, <1>4, <2>1, NoItemMeant, AllocationAssumption DEF Well, Orderly
  <2>5. Moves(w) /\ pass'[w] = Onwards(q)
    BY <2>2, MovesTo
  <2>6. \A x \in Indent : ClaimBy(q, x) = ClaimBy(p, x)
    BY <1>4, <2>1, AllocationAssumption DEF ClaimBy
  <2>7. \A s, c : HandSum(q, s, c) = HandSum(p, s, c)
    <3>1. q.hand = p.hand /\ \A x \in p.hand : p.item[x] = q.item[x]
      BY <1>3, <1>4, <2>1 DEF PassState
    <3> QED
      BY <3>1, SameHand
  <2>8. Quiet(w)
    BY <2>3, <2>4, <2>5, <2>6, <2>7, OnwardsWell DEF Quiet, SameClaim, SameHands
  <2>9. PassOrder' /\ RowAim'
    <3>1. \A x \in Indent : pass'[w].item[x] = pass[w].item[x] \/ pass'[w].item[x].row = 0
      BY <2>1, <2>3, <2>4, <2>5, OnwardsWell, NoItemMeant
    <3> QED
      BY <1>0, <2>2, <2>8, <2>5, <3>1, AimStep DEF Quiet
  <2> QED
    BY <2>2, <2>8, <2>9 DEF AimInv, OnlyClosed
<1> QED
  BY <1>5, <1>6

\* The stock for the claimed indent x is taken, or refused.
TakeOne(w, x, s) ==
  /\ Moves(w) /\ Well(pass'[w]) /\ (\A r \in Indent : SameClaim(w, r))
  /\ x \in Indent /\ s = SkuOf[x] /\ pass[w].item[x] \in Item
  /\ Takeable(x, pass[w].item[x])
  /\ stock' = [stock EXCEPT ![s] = Taken(@, pass[w].item[x])]
  /\ \A u, c : HandSum(pass'[w], u, c) = HandSum(pass[w], u, c)
       + (IF s = u /\ pass[w].item[x].consumed = c THEN pass[w].item[x].take ELSE 0)

LEMMA TakesStockEffect ==
  ASSUME IInv, IInv', AimInv, NEW w \in Worker, TakesStock(w)
  PROVE  /\ AimInv'
         /\ \/ Quiet(w) /\ UNCHANGED stock
            \/ TakeOne(w, pass[w].at, SkuOf[pass[w].at])
<1> DEFINE p == pass[w]
           x == p.at
           item == p.item[x]
           s == SkuOf[x]
<1>1. p \in PassState /\ Well(p) /\ p.pc = "claimed"
  BY WorkerWell DEF IInv, DocTypes, TakesStock
<1>2. x # 0 /\ x \in Indent /\ item \in Item /\ x \notin p.hand /\ x \notin p.todo /\ item.take > 0
  BY <1>1 DEF PassState, Well, Orderly
<1>3. UNCHANGED <<indent, row, gaps>>
  BY DEF TakesStock
<1>4. \A d : KeptRow(d)
  BY <1>3 DEF KeptRow
<1>5. CASE Takeable(x, item)
  <2> DEFINE q == [p EXCEPT !.pc = "job", !.at = 0, !.hand = @ \cup {x}]
  <2>1. q.pc = "job" /\ q.at = 0 /\ q.hand = p.hand \cup {x} /\ q.todo = p.todo /\ q.item = p.item
    BY <1>1 DEF PassState
  <2>2. pass' = [pass EXCEPT ![w] = q] /\ stock' = [stock EXCEPT ![s] = Taken(@, item)]
    BY <1>5 DEF TakesStock
  <2> HIDE DEF q
  <2>3. Moves(w) /\ pass'[w] = q /\ q \in PassState
    BY <2>2, MovesTo
  <2>4. Well(q)
    <3>1. 0 \notin Indent /\ p.hand \subseteq Indent /\ p.todo \subseteq Indent
      BY <1>1, AllocationAssumption DEF PassState
    <3>2. p.todo \cap p.hand = {} /\ \A r \in Indent : r \in p.todo \cup p.hand => p.item[r].take > 0
      BY <1>1 DEF Well, Orderly
    <3>3. \A r \in Indent : r \in q.todo \cup q.hand \/ r = q.at => q.item[r].take > 0
      BY <1>2, <2>1, <3>1, <3>2
    <3>4. q.at \notin q.todo \cup q.hand /\ q.todo \cap q.hand = {}
      BY <1>2, <2>1, <3>1, <3>2
    <3>5. \A r \in Indent : Meant(q.item[r])
      BY <1>1, <2>1 DEF Well
    <3> QED
      BY <2>1, <3>3, <3>4, <3>5 DEF Well, Orderly
  <2>5. \A r \in Indent : SameClaim(w, r)
    BY <1>2, <2>1, <2>3, AllocationAssumption DEF SameClaim, ClaimBy
  <2>6. ASSUME NEW u, NEW c
        PROVE  HandSum(q, u, c) = HandSum(p, u, c)
                 + (IF s = u /\ item.consumed = c THEN item.take ELSE 0)
    <3>1. x \in q.hand /\ p.hand = q.hand \ {x} /\ \A r \in p.hand : p.item[r] = q.item[r]
      BY <1>2, <2>1
    <3>2. q.item[x] = item
      BY <2>1
    <3> QED
      BY <1>1, <2>3, <3>1, <3>2, LessHand
  <2>7. TakeOne(w, x, s)
    BY <1>2, <1>5, <2>2, <2>3, <2>4, <2>5, <2>6 DEF TakeOne
  <2>8. PassOrder' /\ RowAim'
    <3>1. \A r \in Indent : pass'[w].item[r] = pass[w].item[r]
      BY <2>1, <2>3
    <3> QED
      BY <1>3, <1>4, <2>3, <2>4, <3>1, AimStep
  <2> QED
    BY <1>3, <2>7, <2>8 DEF AimInv, OnlyClosed
<1>6. CASE ~Takeable(x, item)
  <2> DEFINE q == [p EXCEPT !.pc = "refused"]
  <2>1. q.pc = "refused" /\ q.at = x /\ q.hand = p.hand /\ q.todo = p.todo /\ q.item = p.item
    BY <1>1 DEF PassState
  <2>2. pass' = [pass EXCEPT ![w] = q] /\ UNCHANGED stock
    BY <1>6 DEF TakesStock
  <2> HIDE DEF q
  <2>3. Moves(w) /\ pass'[w] = q /\ q \in PassState
    BY <2>2, MovesTo
  <2>4. Well(q)
    BY <1>1, <1>2, <2>1, AllocationAssumption DEF Well, Orderly
  <2>5. \A r \in Indent : SameClaim(w, r)
    BY <2>1, <2>3 DEF SameClaim, ClaimBy
  <2>6. SameHands(w)
    BY <2>1, <2>3, SameHand DEF SameHands
  <2>8. PassOrder' /\ RowAim'
    <3>1. \A r \in Indent : pass'[w].item[r] = pass[w].item[r]
      BY <2>1, <2>3
    <3> QED
      BY <1>3, <1>4, <2>3, <2>4, <3>1, AimStep
  <2> QED
    BY <1>3, <2>2, <2>3, <2>4, <2>5, <2>6, <2>8 DEF AimInv, OnlyClosed, Quiet
<1> QED
  BY <1>5, <1>6

\* The claim of indent x is undone.
RestoreOne(w, x) ==
  /\ Moves(w) /\ Well(pass'[w]) /\ SameHands(w)
  /\ x \in Indent /\ pass[w].item[x] \in Item /\ Meant(pass[w].item[x]) /\ pass[w].item[x].take > 0
  /\ WholeIfFresh(pass[w].item[x])
  /\ indent' = [indent EXCEPT ![x] = Restored(@, pass[w].item[x])]
  /\ gaps' = gaps \cup (IF Overtaken(x, pass[w].item[x]) THEN {"overwritten"} ELSE {})
  /\ ClaimBy(pass[w], x) = pass[w].item[x].take /\ ClaimBy(pass'[w], x) = 0
  /\ \A r \in Indent \ {x} : SameClaim(w, r)

LEMMA RestoredStatus ==
  ASSUME NEW doc \in IndentDoc, NEW item \in Item, Meant(item), item.take > 0
  PROVE  Restored(doc, item).status \in OpenStatus
<1>1. item # NoItem
  BY DEF NoItem
<1> QED
  BY <1>1 DEF Restored, Meant, IndentDoc

LEMMA RestoresIndentEffect ==
  ASSUME IInv, IInv', AimInv, NEW w \in Worker, RestoresIndent(w)
  PROVE  AimInv' /\ RestoreOne(w, pass[w].at)
<1> DEFINE p == pass[w]
           x == p.at
           item == p.item[x]
           q == [p EXCEPT !.pc = IF p.pc = "unwound" /\ p.hand # {} THEN "unwind" ELSE "job",
                          !.at = 0, !.item[x] = NoItem]
<1>1. p \in PassState /\ Well(p) /\ Shaped(p) /\ p.pc \in {"refused", "unwound"}
  BY WorkerWell, PassTyped DEF IInv, DocTypes, RestoresIndent
<1>2. x # 0 /\ x \in Indent /\ item \in Item /\ x \notin p.hand /\ x \notin p.todo /\ item.take > 0
      /\ Meant(item) /\ WholeIfFresh(item)
  BY <1>1 DEF PassState, Well, Orderly, Shaped
<1>3. /\ UNCHANGED row
      /\ indent' = [indent EXCEPT ![x] = Restored(@, item)]
      /\ gaps' = gaps \cup (IF Overtaken(x, item) THEN {"overwritten"} ELSE {})
      /\ pass' = [pass EXCEPT ![w] = Onwards(q)]
  BY DEF RestoresIndent
<1>4. q.at = 0 /\ q.hand = p.hand /\ q.todo = p.todo /\ q.pc \in {"unwind", "job"}
      /\ \A r \in Indent : q.item[r] = IF r = x THEN NoItem ELSE p.item[r]
  BY <1>1 DEF PassState
<1>5. q \in PassState
  BY <1>1, <1>2, IdleItem DEF PassState
<1> HIDE DEF q
<1>6. Well(q)
  <2>1. 0 \notin Indent /\ p.hand \subseteq Indent /\ p.todo \subseteq Indent
    BY <1>1, AllocationAssumption DEF PassState
  <2>2. p.todo \cap p.hand = {} /\ \A r \in Indent : r \in p.todo \cup p.hand => p.item[r].take > 0
    BY <1>1 DEF Well, Orderly
  <2>3. \A r \in Indent : r \in q.todo \cup q.hand \/ r = q.at => q.item[r].take > 0
    BY <1>2, <1>4, <2>1, <2>2
  <2>4. q.at \notin q.todo \cup q.hand /\ q.todo \cap q.hand = {}
    BY <1>4, <2>1, <2>2
  <2>5. \A r \in Indent : Meant(q.item[r])
    BY <1>1, <1>4, NoItemMeant DEF Well
  <2> QED
    BY <1>4, <2>3, <2>4, <2>5 DEF Well, Orderly
<1>7. Moves(w) /\ pass'[w] = Onwards(q)
  BY <1>3, MovesTo
<1>8. \A r \in Indent \ {x} : ClaimBy(q, r) = ClaimBy(p, r)
  BY <1>4, AllocationAssumption DEF ClaimBy
<1>9. ClaimBy(p, x) = item.take /\ ClaimBy(q, x) = 0
  BY <1>2, <1>4 DEF ClaimBy
<1>10. \A s, c : HandSum(q, s, c) = HandSum(p, s, c)
  <2>1. q.hand = p.hand /\ \A r \in p.hand : p.item[r] = q.item[r]
    BY <1>1, <1>2, <1>4 DEF PassState
  <2> QED
    BY <2>1, SameHand
<1>11. /\ Well(pass'[w]) /\ SameHands(w) /\ ClaimBy(pass'[w], x) = 0
       /\ \A r \in Indent \ {x} : SameClaim(w, r)
       /\ \A r \in Indent : pass'[w].item[r] \in {q.item[r], NoItem}
  BY <1>2, <1>5, <1>6, <1>7, <1>8, <1>9, <1>10, OnwardsWell DEF SameClaim, SameHands
<1>12. RestoreOne(w, x)
  BY <1>2, <1>3, <1>7, <1>9, <1>11 DEF RestoreOne
<1>13. PassOrder' /\ RowAim'
  <2>1. \A r \in Indent : pass'[w].item[r] = pass[w].item[r] \/ pass'[w].item[r].row = 0
    BY <1>4, <1>11, NoItemMeant
  <2>2. gaps \subseteq gaps' /\ \A d : KeptRow(d)
    BY <1>3 DEF KeptRow
  <2> QED
    BY <1>7, <1>11, <2>1, <2>2, AimStep
<1>14. OnlyClosed'
  <2>1. indent[x] \in IndentDoc /\ indent'[x] = Restored(indent[x], item)
    BY <1>2, <1>3 DEF IInv, DocTypes
  <2>2. indent'[x].status \in OpenStatus
    BY <1>2, <2>1, RestoredStatus
  <2>3. \A r \in Indent \ {x} : indent'[r] = indent[r]
    BY <1>3 DEF IInv, DocTypes
  <2>4. "closed" \in gaps => "closed" \in gaps'
    BY <1>3
  <2> QED
    BY <2>2, <2>3, <2>4 DEF AimInv, OnlyClosed, OpenStatus
<1> QED
  BY <1>12, <1>13, <1>14 DEF AimInv

\* The units in hand for x are given back.
GiveBackOne(w, x, s) ==
  /\ Moves(w) /\ Well(pass'[w]) /\ (\A r \in Indent : SameClaim(w, r))
  /\ x \in Indent /\ s = SkuOf[x] /\ pass[w].item[x] \in Item
  /\ stock' = [stock EXCEPT ![s] = GivenBack(@, pass[w].item[x])]
  /\ \A u, c : HandSum(pass[w], u, c) = HandSum(pass'[w], u, c)
       + (IF s = u /\ pass[w].item[x].consumed = c THEN pass[w].item[x].take ELSE 0)

LEMMA UnwindsEffect ==
  ASSUME IInv, IInv', AimInv, NEW w \in Worker, Unwinds(w)
  PROVE  AimInv' /\ \E x \in Indent : GiveBackOne(w, x, SkuOf[x])
<1> DEFINE p == pass[w]
<1>1. PICK x \in p.hand :
        /\ stock' = [stock EXCEPT ![SkuOf[x]] = GivenBack(@, p.item[x])]
        /\ pass' = [pass EXCEPT ![w] = [p EXCEPT !.pc = "unwound", !.at = x, !.hand = @ \ {x}]]
  BY DEF Unwinds, Oldest
<1> DEFINE q == [p EXCEPT !.pc = "unwound", !.at = x, !.hand = @ \ {x}]
<1>2. p \in PassState /\ Well(p) /\ p.pc = "unwind"
  BY WorkerWell DEF IInv, DocTypes, Unwinds
<1>3. x \in Indent /\ x # 0 /\ p.item[x] \in Item /\ p.at = 0 /\ x \notin p.todo /\ p.item[x].take > 0
  BY <1>2, AllocationAssumption DEF PassState, Well, Orderly
<1>4. q.pc = "unwound" /\ q.at = x /\ q.hand = p.hand \ {x} /\ q.todo = p.todo /\ q.item = p.item
  BY <1>2 DEF PassState
<1>5. pass' = [pass EXCEPT ![w] = q]
  BY <1>1
<1> HIDE DEF q
<1>6. Moves(w) /\ pass'[w] = q /\ q \in PassState
  BY <1>5, MovesTo
<1>7. Well(q)
  BY <1>2, <1>3, <1>4, AllocationAssumption DEF Well, Orderly
<1>8. \A r \in Indent : SameClaim(w, r)
  BY <1>3, <1>4, <1>6, AllocationAssumption DEF SameClaim, ClaimBy
<1>9. \A u, c : HandSum(p, u, c) = HandSum(q, u, c)
       + (IF SkuOf[x] = u /\ p.item[x].consumed = c THEN p.item[x].take ELSE 0)
  BY <1>2, <1>4, <1>6, LessHand
<1>10. GiveBackOne(w, x, SkuOf[x])
  BY <1>1, <1>3, <1>6, <1>7, <1>8, <1>9 DEF GiveBackOne
<1>11. UNCHANGED <<indent, row, gaps>>
  BY DEF Unwinds
<1>12. PassOrder' /\ RowAim'
  <2>1. \A r \in Indent : pass'[w].item[r] = pass[w].item[r]
    BY <1>4, <1>6
  <2>2. gaps \subseteq gaps' /\ \A d : KeptRow(d)
    BY <1>11 DEF KeptRow
  <2> QED
    BY <1>6, <1>7, <2>1, <2>2, AimStep
<1> QED
  BY <1>3, <1>10, <1>11, <1>12 DEF AimInv, OnlyClosed

LEMMA PassDiesEffect ==
  ASSUME IInv, IInv', AimInv, NEW w \in Worker, PassDies(w)
  PROVE  /\ AimInv' /\ Moves(w) /\ gaps \subseteq gaps'
         /\ "died" \notin gaps' => Quiet(w)
         /\ \A s, c : HandSum(pass'[w], s, c) = 0
<1>1. pass' = [pass EXCEPT ![w] = Idle] /\ UNCHANGED <<indent, row>> /\ gaps \subseteq gaps'
      /\ ("died" \notin gaps' => pass[w].hand = {} /\ pass[w].at = 0)
  BY DEF PassDies
<1>2. Moves(w) /\ pass'[w] = Idle
  BY <1>1, MovesTo
<1>3. Idle.hand = {} /\ Idle.at = 0 /\ Well(Idle)
  BY IdleWell DEF Idle
<1>4. "died" \notin gaps' => Quiet(w)
  BY <1>1, <1>2, <1>3, EmptyQuiet
<1>5. \A s, c : HandSum(pass'[w], s, c) = 0
  BY <1>2, <1>3, NoHand
<1>6. PassOrder' /\ RowAim'
  <2>1. \A r \in Indent : pass'[w].item[r].row = 0
    BY <1>2, IdleWell, NoItemMeant
  <2>2. \A d : KeptRow(d)
    BY <1>1 DEF KeptRow
  <2> QED
    BY <1>1, <1>2, <1>3, <2>1, <2>2, AimStep
<1>7. OnlyClosed'
  BY <1>1 DEF AimInv, OnlyClosed
<1> QED
  BY <1>1, <1>2, <1>4, <1>5, <1>6, <1>7 DEF AimInv

-----------------------------------------------------------------------------
(* What is written onto the rows.                                          *)

\* A nonempty set of numbers has a least one.
LEMMA LeastOf ==
  ASSUME NEW S \in SUBSET Nat, S # {}
  PROVE  \E n \in S : \A m \in S : n <= m
<1>1. PICK n \in S : \A m \in S : ~(<<m, n>> \in OpToRel(<, Nat))
  BY NatLessThanWellFounded, WFMin
<1>2. \A m \in S : ~(m < n)
  BY <1>1 DEF OpToRel
<1> QED BY <1>2

LEMMA FirstFreeIn ==
  ASSUME FreeTail # {}
  PROVE  FirstFree \in FreeTail
<1>1. FreeTail \in SUBSET Nat
  BY AllocationAssumption DEF FreeTail
<1>2. \E x \in FreeTail : \A y \in FreeTail : x <= y
  BY <1>1, LeastOf
<1> QED
  BY <1>2 DEF FirstFree, Min

Place(R, item, r) == FirstFree + Cardinality({x \in NewRows(R, item) : x < r})

LEMMA PlaceFree ==
  ASSUME NEW R \in SUBSET Indent, NEW item, NEW r \in NewRows(R, item),
         FreeTail # {}, Place(R, item, r) \in RowId
  PROVE  row[Place(R, item, r)] = NoRow /\ ~Targeted(Place(R, item, r))
<1> DEFINE B == {x \in NewRows(R, item) : x < r}
<1>1. IsFiniteSet(B)
  BY AllocationAssumption, FS_Subset, B \in SUBSET Indent DEF NewRows
<1>2. Cardinality(B) \in Nat
  BY <1>1, FS_CardinalityType
<1>3. FirstFree \in FreeTail /\ FirstFree \in Nat
  BY FirstFreeIn, AllocationAssumption DEF FreeTail
<1> HIDE DEF B
<1>4. FirstFree + Cardinality(B) >= FirstFree
  BY <1>2, <1>3
<1>5. Place(R, item, r) >= FirstFree
  BY <1>4 DEF Place, B
<1> QED
  BY <1>3, <1>5 DEF FreeTail

LEMMA PlaceOnce ==
  ASSUME NEW R \in SUBSET Indent, NEW item, NEW r \in NewRows(R, item), NEW s \in NewRows(R, item),
         r < s, FreeTail # {}
  PROVE  Place(R, item, r) # Place(R, item, s)
<1> DEFINE B == {x \in NewRows(R, item) : x < r}
           C == {x \in NewRows(R, item) : x < s}
<1>1. IsFiniteSet(B) /\ IsFiniteSet(C)
  <2>1. B \in SUBSET Indent /\ C \in SUBSET Indent
    BY DEF NewRows
  <2> QED
    BY <2>1, AllocationAssumption, FS_Subset
<1>2. B \cup {r} \in SUBSET C
  <2>1. ASSUME NEW x \in B \cup {r} PROVE x \in C
    <3>1. x \in NewRows(R, item) /\ (x < r \/ x = r)
      OBVIOUS
    <3>2. x \in Nat /\ r \in Nat /\ s \in Nat
      BY <3>1, AllocationAssumption DEF NewRows
    <3>3. x < s
      BY <3>1, <3>2
    <3> QED
      BY <3>1, <3>3
  <2> QED
    BY <2>1
<1>3. r \notin B
  <2>1. r \in Nat
    BY AllocationAssumption DEF NewRows
  <2> QED
    BY <2>1
<1> HIDE DEF B, C
<1>4. Cardinality(B \cup {r}) = Cardinality(B) + 1
  BY <1>1, <1>3, FS_AddElement
<1>5. Cardinality(B \cup {r}) <= Cardinality(C)
  BY <1>1, <1>2, FS_Subset
<1>6. Cardinality(B) \in Nat /\ Cardinality(C) \in Nat
  BY <1>1, FS_CardinalityType
<1>7. FirstFree \in Nat
  BY FirstFreeIn, AllocationAssumption DEF FreeTail
<1>8. FirstFree + Cardinality(B) # FirstFree + Cardinality(C)
  BY <1>4, <1>5, <1>6, <1>7
<1> QED
  BY <1>8 DEF Place, B, C

\* Where the units of r go, and the indents whose units go anywhere.
To(R, item, r) == IF item[r].row = 0 THEN Place(R, item, r) ELSE item[r].row
Landing(R, item) == {r \in R : item[r].row = 0 \/ row[item[r].row] # NoRow}

\* Each has a row of its own, new or its line's, and no other row is touched.
LandsAt(b, R, item) ==
  /\ \A r, x \in Landing(R, item) : To(R, item, r) = To(R, item, x) => r = x
  /\ \A r \in Landing(R, item) :
       /\ To(R, item, r) \in RowId
       /\ item[r].row = 0 =>
            /\ row[To(R, item, r)] = NoRow /\ ~Targeted(To(R, item, r))
            /\ row'[To(R, item, r)] = Inserted(b, r, item[r])
       /\ item[r].row # 0 =>
            /\ To(R, item, r) = item[r].row
            /\ row[To(R, item, r)] # NoRow /\ row[To(R, item, r)].r = r
            /\ row'[To(R, item, r)] = Grown(row[To(R, item, r)], item[r].take)
  /\ \A d \in RowId : (\A r \in Landing(R, item) : To(R, item, r) # d) => row'[d] = row[d]

LEMMA RowsWritten ==
  ASSUME IInv, NEW b, NEW R \in SUBSET Indent, NEW item \in [Indent -> Item],
         WritesRows(b, R, item), \A r \in R : Aimed(item[r], r)
  PROVE  LandsAt(b, R, item)
<1> DEFINE N == NewRows(R, item)
           place(r) == Place(R, item, r)
           becomes == [d \in RowId |->
             IF \E r \in N : place(r) = d
             THEN LET r == CHOOSE x \in N : place(x) = d
                  IN  Inserted(b, r, item[r])
             ELSE IF row[d] # NoRow /\ \E r \in R : item[r].row = d
             THEN LET r == CHOOSE x \in R : item[x].row = d
                  IN  Grown(row[d], item[r].take)
             ELSE row[d]]
<1>1. row' = becomes
  BY DEF WritesRows, Place
<1>2. N # {} => FreeTail # {} /\ \A r \in N : place(r) \in RowId
  BY DEF WritesRows, Place
<1>3. \A r \in N : r \in R /\ r \in Indent /\ item[r].row = 0
  BY DEF NewRows
<1>4. \A r \in N : place(r) \in RowId /\ row[place(r)] = NoRow /\ ~Targeted(place(r))
  BY <1>2, PlaceFree
<1>5. \A r, x \in N : place(r) = place(x) => r = x
  <2> SUFFICES ASSUME NEW r \in N, NEW x \in N, place(r) = place(x) PROVE r = x
    OBVIOUS
  <2>1. r \in Nat /\ x \in Nat
    BY <1>3, AllocationAssumption
  <2>2. ~(r < x) /\ ~(x < r)
    BY <1>2, PlaceOnce
  <2> QED
    BY <2>1, <2>2
<1>6. \A r \in R : item[r].row # 0 =>
        /\ item[r].row \in RowId
        /\ row[item[r].row] # NoRow => row[item[r].row].r = r
  BY DEF Item, Aimed
<1> HIDE DEF place
<1>7. ASSUME NEW d \in RowId, NEW r \in N, place(r) = d
      PROVE  becomes[d] = Inserted(b, r, item[r])
  <2>1. (CHOOSE x \in N : place(x) = d) = r
    BY <1>5, <1>7
  <2> QED
    BY <1>7, <2>1
<1>8. ASSUME NEW d \in RowId, NEW r \in R, item[r].row = d, row[d] # NoRow
      PROVE  becomes[d] = Grown(row[d], item[r].take)
  <2>1. d # 0
    BY AllocationAssumption
  <2>2. \A x \in R : item[x].row = d => x = r
    BY <1>6, <1>8, <2>1
  <2>3. (CHOOSE x \in R : item[x].row = d) = r
    BY <1>8, <2>2
  <2>4. ~\E x \in N : place(x) = d
    BY <1>4, <1>8
  <2> QED
    BY <1>8, <2>3, <2>4
<1>9. ASSUME NEW d \in RowId, ~\E r \in N : place(r) = d,
             ~(row[d] # NoRow /\ \E r \in R : item[r].row = d)
      PROVE  becomes[d] = row[d]
  BY <1>9
<1> HIDE DEF becomes, N
<1> DEFINE L == Landing(R, item)
           to(r) == To(R, item, r)
<1>10. \A r \in L : item[r].row = 0 => r \in N /\ to(r) = place(r)
  BY DEF Landing, To, place, N, NewRows
<1>11. \A r \in L : item[r].row # 0 => r \in R /\ to(r) = item[r].row /\ row[to(r)] # NoRow
  BY DEF Landing, To
<1>12. \A r \in N : r \in L
  BY <1>3 DEF Landing
<1> HIDE DEF L, to
<1>13. \A r, x \in L : to(r) = to(x) => r = x
  <2> SUFFICES ASSUME NEW r \in L, NEW x \in L, to(r) = to(x) PROVE r = x
    OBVIOUS
  <2>1. CASE item[r].row = 0 /\ item[x].row = 0
    BY <1>5, <1>10, <2>1
  <2>2. CASE item[r].row # 0 /\ item[x].row # 0
    BY <1>6, <1>11, <2>2
  <2>3. CASE item[r].row = 0 /\ item[x].row # 0
    BY <1>4, <1>10, <1>11, <2>3
  <2>4. CASE item[r].row # 0 /\ item[x].row = 0
    BY <1>4, <1>10, <1>11, <2>4
  <2> QED
    BY <2>1, <2>2, <2>3, <2>4
<1>14. ASSUME NEW r \in L
       PROVE  /\ to(r) \in RowId
              /\ item[r].row = 0 =>
                   row[to(r)] = NoRow /\ ~Targeted(to(r)) /\ row'[to(r)] = Inserted(b, r, item[r])
              /\ item[r].row # 0 =>
                   /\ to(r) = item[r].row /\ row[to(r)] # NoRow /\ row[to(r)].r = r
                   /\ row'[to(r)] = Grown(row[to(r)], item[r].take)
  <2>1. CASE item[r].row = 0
    BY <1>1, <1>4, <1>7, <1>10, <2>1
  <2>2. CASE item[r].row # 0
    BY <1>1, <1>6, <1>8, <1>11, <2>2
  <2> QED
    BY <2>1, <2>2
<1>15. ASSUME NEW d \in RowId, \A r \in L : to(r) # d
       PROVE  row'[d] = row[d]
  <2>1. ~\E r \in N : place(r) = d
    BY <1>3, <1>10, <1>12, <1>15
  <2>2. ~(row[d] # NoRow /\ \E r \in R : item[r].row = d)
    <3> SUFFICES ASSUME row[d] # NoRow, NEW r \in R, item[r].row = d PROVE FALSE
      OBVIOUS
    <3>1. r \in L /\ item[r].row # 0
      BY AllocationAssumption DEF L, Landing
    <3> QED
      BY <1>11, <1>15, <3>1
  <2> QED
    BY <1>1, <1>9, <2>1, <2>2
<1> QED
  BY <1>13, <1>14, <1>15 DEF LandsAt, L, to

LEMMA GrownFields ==
  ASSUME NEW d \in RowDoc, NEW n \in Int
  PROVE  /\ Grown(d, n).r = d.r /\ Grown(d, n).b = d.b /\ Grown(d, n).stock = d.stock
         /\ Grown(d, n).qty = d.qty + n /\ Grown(d, n).inward = d.inward + n
  BY DEF Grown, RowDoc

\* What a row is after its units were written.
LEMMA LandedRow ==
  ASSUME IInv, NEW b, NEW R \in SUBSET Indent, NEW item \in [Indent -> Item], LandsAt(b, R, item),
         NEW r \in Landing(R, item), NEW d, d = To(R, item, r)
  PROVE  /\ d \in RowId /\ r \in Indent /\ r # 0 /\ item[r].take \in Nat
         /\ row[d].qty \in Nat /\ row[d].inward \in Nat
         /\ row'[d].r = r
         /\ row'[d].qty = row[d].qty + item[r].take
         /\ row'[d].inward = row[d].inward + item[r].take
         /\ row[d].r = r \/ row[d] = NoRow
         /\ item[r].row = 0 =>
              row[d] = NoRow /\ row'[d].stock = IF item[r].consumed THEN "consumed" ELSE "reserved"
         /\ item[r].row # 0 =>
              /\ d = item[r].row /\ row[d] # NoRow
              /\ row'[d].stock = row[d].stock /\ row'[d].b = row[d].b
<1>1. r \in R /\ r \in Indent /\ r # 0 /\ item[r].take \in Nat /\ item[r].take \in Int
  BY TakeIsNat, AllocationAssumption DEF Landing
<1>2. d \in RowId /\ row[d] \in RowDoc
  BY DEF LandsAt, IInv, DocTypes
<1>3. row[d].qty \in Nat /\ row[d].inward \in Nat
  BY <1>2 DEF RowDoc
<1>4. CASE item[r].row = 0
  <2>1. row[d] = NoRow /\ row'[d] = Inserted(b, r, item[r])
    BY <1>4 DEF LandsAt
  <2> QED
    BY <1>1, <1>2, <1>3, <1>4, <2>1 DEF Inserted, NoRow
<1>5. CASE item[r].row # 0
  <2>1. d = item[r].row /\ row[d] # NoRow /\ row[d].r = r /\ row'[d] = Grown(row[d], item[r].take)
    BY <1>5 DEF LandsAt
  <2> QED
    BY <1>1, <1>2, <1>3, <1>5, <2>1, GrownFields
<1> QED
  BY <1>4, <1>5

\* Writing rows keeps the lines others mean to write to.
LEMMA WritingKeeps ==
  ASSUME IInv, NEW b, NEW R \in SUBSET Indent, NEW item \in [Indent -> Item], LandsAt(b, R, item)
  PROVE  \A d : Targeted(d) /\ d # 0 => KeptRow(d)
<1> SUFFICES ASSUME NEW d, Targeted(d), d # 0 PROVE KeptRow(d)
  OBVIOUS
<1>1. d \in RowId
  BY DEF Targeted, IInv, DocTypes, PassState, Item
<1>2. CASE \A r \in Landing(R, item) : To(R, item, r) # d
  BY <1>1, <1>2 DEF LandsAt, KeptRow
<1>3. CASE \E r \in Landing(R, item) : To(R, item, r) = d
  <2>1. PICK r \in Landing(R, item) : To(R, item, r) = d
    BY <1>3
  <2>2. item[r].row # 0
    BY <2>1 DEF LandsAt
  <2>3. r # 0 /\ row'[d].r = r /\ (row[d].r = r \/ row[d] = NoRow) /\ row[d] # NoRow
        /\ row'[d].stock = row[d].stock /\ row'[d].b = row[d].b
    BY <2>1, <2>2, LandedRow
  <2> QED
    BY <2>3 DEF KeptRow, NoRow
<1> QED
  BY <1>2, <1>3

\* What an indent has received, after a write.
LEMMA ReceivedWritten ==
  ASSUME IInv, IInv', NEW b, NEW R \in SUBSET Indent, NEW item \in [Indent -> Item],
         LandsAt(b, R, item), NEW r \in Indent
  PROVE  /\ Received(r)' = Received(r) + (IF r \in Landing(R, item) THEN item[r].take ELSE 0)
         /\ Received(r) \in Nat
<1> DEFINE f == InwardOf(row, r)
           g == InwardOf(row', r)
<1>1. f \in [RowId -> Nat] /\ g \in [RowId -> Nat]
  BY DEF InwardOf, IInv, DocTypes, RowDoc
<1>2. Received(r) = Size(f, RowId) /\ Received(r)' = Size(g, RowId)
  BY Sums
<1>3. IsFiniteSet(RowId)
  BY AllocationAssumption
<1>4. ASSUME NEW d \in RowId, r \notin Landing(R, item) \/ d # To(R, item, r)
      PROVE  f[d] = g[d]
  <2>1. CASE \A x \in Landing(R, item) : To(R, item, x) # d
    BY <2>1 DEF LandsAt, InwardOf
  <2>2. CASE \E x \in Landing(R, item) : To(R, item, x) = d
    <3>1. PICK x \in Landing(R, item) : To(R, item, x) = d
      BY <2>2
    <3>2. x # r /\ row'[d].r = x /\ (row[d].r = x \/ row[d] = NoRow)
      BY <1>4, <3>1, LandedRow
    <3>3. NoRow.r # r
      BY AllocationAssumption DEF NoRow
    <3> QED
      BY <3>2, <3>3 DEF InwardOf
  <2> QED
    BY <2>1, <2>2
<1>5. CASE r \notin Landing(R, item)
  <2>1. Size(f, RowId) = Size(g, RowId) /\ Size(f, RowId) \in Nat
    BY <1>1, <1>3, <1>4, <1>5, SizeSame, SizeIsNat
  <2> QED
    BY <1>2, <1>5, <2>1
<1>6. CASE r \in Landing(R, item)
  <2> DEFINE d == To(R, item, r)
  <2>1. d \in RowId /\ item[r].take \in Nat /\ row[d].inward \in Nat /\ row'[d].r = r
        /\ row'[d].inward = row[d].inward + item[r].take /\ (row[d].r = r \/ row[d] = NoRow)
    BY <1>6, LandedRow
  <2>2. NoRow.r # r /\ NoRow.inward = 0
    BY AllocationAssumption DEF NoRow
  <2>3. g[d] = f[d] + item[r].take
    BY <2>1, <2>2 DEF InwardOf
  <2>4. \A e \in RowId \ {d} : f[e] = g[e]
    BY <1>4
  <2> HIDE DEF d, f, g
  <2>5. Size(g, RowId) = Size(f, RowId) + g[d] - f[d] /\ Size(f, RowId) \in Nat
    BY <1>1, <1>3, <2>1, <2>4, SizeAtOne
  <2>6. f[d] \in Nat
    BY <1>1, <2>1
  <2> QED
    BY <1>2, <1>6, <2>1, <2>3, <2>5, <2>6
<1> QED
  BY <1>5, <1>6

\* What the rows of SKU s in a state have, after a write.
WrittenTo(R, item, state, s) ==
  [r \in Indent |-> IF r \in Landing(R, item) /\ SkuOf[r] = s /\ row'[To(R, item, r)].stock = state
                    THEN item[r].take ELSE 0]

LEMMA QuantityWritten ==
  ASSUME IInv, IInv', NEW b, NEW R \in SUBSET Indent, NEW item \in [Indent -> Item],
         LandsAt(b, R, item), NEW state \in {"reserved", "consumed"}, NEW s
  PROVE  /\ Quantity(RowsIn(state), s)'
              = Quantity(RowsIn(state), s) + Size(WrittenTo(R, item, state, s), Indent)
         /\ WrittenTo(R, item, state, s) \in [Indent -> Nat]
         /\ Quantity(RowsIn(state), s) \in Nat /\ Size(WrittenTo(R, item, state, s), Indent) \in Nat
<1> DEFINE f == QtyOf(row, state, s)
           g == QtyOf(row', state, s)
           h == WrittenTo(R, item, state, s)
           L == Landing(R, item)
           to == [r \in L |-> To(R, item, r)]
           k == [d \in RowId |-> g[d] - f[d]]
           part == [r \in L |-> h[r]]
<1>1. f \in [RowId -> Nat] /\ g \in [RowId -> Nat]
  BY DEF QtyOf, IInv, DocTypes, RowDoc
<1>2. h \in [Indent -> Nat] /\ L \in SUBSET Indent
  BY TakeIsNat DEF WrittenTo, Landing
<1>3. IsFiniteSet(RowId) /\ IsFiniteSet(Indent) /\ IsFiniteSet(L)
  BY <1>2, AllocationAssumption, FS_Subset
<1>4. ASSUME NEW r \in L PROVE g[to[r]] = f[to[r]] + h[r] /\ to[r] \in RowId
  <2> DEFINE d == To(R, item, r)
  <2>1. /\ d \in RowId /\ item[r].take \in Nat /\ row[d].qty \in Nat /\ row'[d].r = r
        /\ row'[d].qty = row[d].qty + item[r].take /\ (row[d].r = r \/ row[d] = NoRow)
        /\ (item[r].row = 0 => row[d] = NoRow) /\ (item[r].row # 0 => row'[d].stock = row[d].stock)
        /\ (item[r].row # 0 => row[d] # NoRow)
    BY LandedRow
  <2>2. NoRow.qty = 0 /\ NoRow.stock = "none"
    BY DEF NoRow
  <2>3. r \in Indent /\ to[r] = d
    BY <1>2
  <2>4. h[r] = IF SkuOf[r] = s /\ row'[d].stock = state THEN item[r].take ELSE 0
    BY <2>3 DEF WrittenTo
  <2> HIDE DEF d, to, L, h
  <2>5. f[d] = (IF row[d].stock = state /\ SkuOf[row[d].r] = s THEN row[d].qty ELSE 0)
        /\ g[d] = (IF row'[d].stock = state /\ SkuOf[row'[d].r] = s THEN row'[d].qty ELSE 0)
    BY <2>1 DEF QtyOf
  <2>6. g[d] = f[d] + h[r]
    BY <2>1, <2>2, <2>4, <2>5
  <2> QED
    BY <2>1, <2>3, <2>6
<1>5. ASSUME NEW d \in RowId, \A r \in L : to[r] # d PROVE g[d] = f[d]
  BY <1>5 DEF LandsAt, QtyOf
<1>6. \A r, x \in L : to[r] = to[x] => r = x
  BY DEF LandsAt
<1>7. \A d \in RowId : g[d] = f[d] + k[d]
  BY <1>1
<1>8. k \in [RowId -> Nat] /\ (\A r \in L : k[to[r]] = h[r])
      /\ \A d \in RowId : (\A r \in L : to[r] # d) => k[d] = 0
  <2>1. \A r \in L : k[to[r]] = h[r]
    BY <1>1, <1>2, <1>4
  <2>2. \A d \in RowId : (\A r \in L : to[r] # d) => k[d] = 0
    BY <1>1, <1>5
  <2>3. ASSUME NEW d \in RowId PROVE k[d] \in Nat
    <3>1. CASE \A r \in L : to[r] # d
      BY <2>2, <3>1
    <3>2. CASE \E r \in L : to[r] = d
      BY <1>2, <2>1, <3>2
    <3> QED
      BY <3>1, <3>2
  <2>4. k \in [RowId -> Nat]
    BY <2>3
  <2> QED
    BY <2>1, <2>2, <2>4
<1>9. to \in [L -> RowId] /\ part \in [L -> Nat] /\ \A r \in L : part[r] = h[r]
  BY <1>2, <1>4
<1>10. \A r \in Indent \ L : h[r] = 0
  BY DEF WrittenTo
<1>11. Quantity(RowsIn(state), s) = Size(f, RowId) /\ Quantity(RowsIn(state), s)' = Size(g, RowId)
  BY Sums
<1> HIDE DEF f, g, h, L, to, k, part
<1>12. Size(g, RowId) = Size(f, RowId) + Size(k, RowId) /\ Size(f, RowId) \in Nat
  BY <1>1, <1>3, <1>7, <1>8, SizePlus, SizeIsNat
<1>13. Size(k, RowId) = Size(part, L)
  BY <1>3, <1>6, <1>8, <1>9, SizeMoved
<1>14. Size(part, L) = Size(h, Indent)
  BY <1>2, <1>9, <1>10, SumOverPart
<1>15. Size(h, Indent) \in Nat
  BY <1>2, <1>3, SizeIsNat
<1> QED
  BY <1>2, <1>11, <1>12, <1>13, <1>14, <1>15 DEF h

\* A row has its units where the pass took them from: only a line it saw consumed
\* can be consumed, or released, by now.
LEMMA StockLanded ==
  ASSUME IInv, NEW b, NEW R \in SUBSET Indent, NEW item \in [Indent -> Item], LandsAt(b, R, item),
         NEW r \in Landing(R, item), Aimed(item[r], r)
  PROVE  /\ row'[To(R, item, r)].stock = "reserved" => item[r].consumed = FALSE
         /\ "crossed" \notin gaps =>
              row'[To(R, item, r)].stock = IF item[r].consumed THEN "consumed" ELSE "reserved"
<1> DEFINE d == To(R, item, r)
           state == row'[d].stock
<1>1. item[r].consumed \in BOOLEAN
  BY DEF Landing, Item
<1>2. /\ item[r].row = 0 => state = IF item[r].consumed THEN "consumed" ELSE "reserved"
      /\ item[r].row # 0 => d = item[r].row /\ row[d] # NoRow /\ state = row[d].stock
  <2>2. /\ item[r].row = 0 => row'[d].stock = IF item[r].consumed THEN "consumed" ELSE "reserved"
        /\ item[r].row # 0 => d = item[r].row /\ row[d] # NoRow /\ row'[d].stock = row[d].stock
    <3> HIDE DEF d
    <3> QED BY LandedRow DEF d
  <2> QED
    BY <2>2
<1> HIDE DEF d, state
<1>3. CASE item[r].row = 0
  BY <1>1, <1>2, <1>3 DEF d, state
<1>4. CASE item[r].row # 0
  <2>1. /\ item[r].consumed => row[item[r].row].stock \in {"consumed", "released"}
        /\ "crossed" \notin gaps =>
              row[item[r].row].stock = IF item[r].consumed THEN "consumed" ELSE "reserved"
    BY <1>2, <1>4 DEF Aimed
  <2>2. d = item[r].row /\ state = row[item[r].row].stock
    BY <1>2, <1>4
  <2>3. /\ state = "reserved" => item[r].consumed = FALSE
        /\ "crossed" \notin gaps => state = IF item[r].consumed THEN "consumed" ELSE "reserved"
    BY <1>1, <2>1, <2>2
  <2> QED
    BY <2>3, Zenon DEF d, state
<1> QED
  BY <1>3, <1>4, Zenon DEF d, state

\* So no more is written onto reserved rows than was reserved by the pass, and all
\* of it lands where no line was deleted and no booking settled under it.
LEMMA HandsLand ==
  ASSUME IInv, NEW p \in PassState, NEW b, LandsAt(b, p.hand, p.item),
         \A r \in p.hand : Aimed(p.item[r], r), NEW s, NEW r \in Indent
  PROVE  /\ WrittenTo(p.hand, p.item, "reserved", s)[r] <= HandBy(p, s, FALSE)[r]
         /\ gaps \cap {"deleted", "crossed"} = {} =>
              /\ WrittenTo(p.hand, p.item, "reserved", s)[r] = HandBy(p, s, FALSE)[r]
              /\ WrittenTo(p.hand, p.item, "consumed", s)[r] = HandBy(p, s, TRUE)[r]
<1> DEFINE n == p.item[r].take
           L == r \in Landing(p.hand, p.item) /\ SkuOf[r] = s
           H == r \in p.hand /\ SkuOf[r] = s
           C == p.item[r].consumed
           t == row'[To(p.hand, p.item, r)].stock
<1>1. p.hand \in SUBSET Indent /\ p.item \in [Indent -> Item] /\ n \in Nat /\ C \in BOOLEAN
  BY TakeIsNat DEF PassState, Item
<1>2. \A st : WrittenTo(p.hand, p.item, st, s)[r] = IF L /\ t = st THEN n ELSE 0
  BY DEF WrittenTo
<1>3. \A c : HandBy(p, s, c)[r] = IF H /\ C = c THEN n ELSE 0
  BY DEF HandBy
<1>4. L => H
  BY DEF Landing
<1>5. L => /\ t = "reserved" => C = FALSE
           /\ "crossed" \notin gaps => t = IF C THEN "consumed" ELSE "reserved"
  <2> SUFFICES ASSUME L
               PROVE  /\ t = "reserved" => C = FALSE
                      /\ "crossed" \notin gaps => t = IF C THEN "consumed" ELSE "reserved"
    OBVIOUS
  <2>1. r \in Landing(p.hand, p.item) /\ r \in p.hand
    BY DEF Landing
  <2>2. Aimed(p.item[r], r)
    BY <2>1
  <2> HIDE DEF t
  <2> QED
    BY <1>1, <2>1, <2>2, StockLanded, Zenon DEF t
<1>6. H /\ "deleted" \notin gaps => L
  BY DEF Landing, Aimed
<1> HIDE DEF n, L, H, C, t
<1> DEFINE f == WrittenTo(p.hand, p.item, "reserved", s)[r]
           g == HandBy(p, s, FALSE)[r]
<1>7. f <= g
  <2>1. f = IF L /\ t = "reserved" THEN n ELSE 0
    BY <1>2
  <2>2. g = IF H /\ C = FALSE THEN n ELSE 0
    BY <1>3
  <2>3. (L /\ t = "reserved") => (H /\ C = FALSE)
    BY <1>4, <1>5
  <2>4. n \in Nat
    BY <1>1
  <2> HIDE DEF f, g
  <2> QED
    BY <2>1, <2>2, <2>3, <2>4
<1>8. ASSUME gaps \cap {"deleted", "crossed"} = {}
      PROVE  /\ WrittenTo(p.hand, p.item, "reserved", s)[r] = HandBy(p, s, FALSE)[r]
             /\ WrittenTo(p.hand, p.item, "consumed", s)[r] = HandBy(p, s, TRUE)[r]
  <2>1. (L <=> H) /\ (L => t = IF C THEN "consumed" ELSE "reserved")
    BY <1>4, <1>5, <1>6, <1>8
  <2>2. (L /\ t = "reserved" <=> H /\ C = FALSE) /\ (L /\ t = "consumed" <=> H /\ C = TRUE)
    BY <1>1, <2>1
  <2> QED
    BY <1>2, <1>3, <2>2
<1> QED
  BY <1>7, <1>8

\* The rows of a job are written: hands become rows.
WriteAll(w) ==
  /\ Moves(w) /\ Well(pass'[w]) /\ UNCHANGED gaps
  /\ \A s, c : HandSum(pass'[w], s, c) = 0
  /\ \A r \in Indent : ClaimBy(pass'[w], r) = 0
  /\ \A s \in Sku : Quantity(RowsIn("reserved"), s)'
                      <= Quantity(RowsIn("reserved"), s) + HandSum(pass[w], s, FALSE)
  /\ gaps \cap {"deleted", "crossed"} = {} =>
       \A s \in Sku :
         /\ Quantity(RowsIn("reserved"), s)'
              = Quantity(RowsIn("reserved"), s) + HandSum(pass[w], s, FALSE)
         /\ Quantity(RowsIn("consumed"), s)'
              = Quantity(RowsIn("consumed"), s) + HandSum(pass[w], s, TRUE)
  /\ "deleted" \notin gaps => \A r \in Indent : Received(r)' = Received(r) + ClaimBy(pass[w], r)

LEMMA JobWritesEffect ==
  ASSUME IInv, IInv', AimInv, NEW w \in Worker, JobWrites(w)
  PROVE  AimInv' /\ WriteAll(w)
<1> DEFINE p == pass[w]
           item == p.item
           R == p.hand
           items == [r \in Indent |-> IF r \in p.hand THEN NoItem ELSE p.item[r]]
           q == [p EXCEPT !.hand = {}, !.item = items]
<1>1. p \in PassState /\ Well(p) /\ p.pc = "job" /\ p.todo = {} /\ p.at = 0
  BY WorkerWell DEF IInv, DocTypes, JobWrites, Well, Orderly
<1>2. R \in SUBSET Indent /\ item \in [Indent -> Item] /\ \A r \in R : r \in Indent
  BY <1>1 DEF PassState
<1>3. UNCHANGED <<indent, gaps>> /\ WritesRows(p.to, R, item) /\ pass' = [pass EXCEPT ![w] = Onwards(q)]
  BY DEF JobWrites
<1>4. q.pc = "job" /\ q.todo = {} /\ q.hand = {} /\ q.at = 0
      /\ \A r \in Indent : q.item[r] \in {p.item[r], NoItem}
  BY <1>1 DEF PassState
<1>5. q \in PassState
  BY <1>1, IdleItem DEF PassState
<1> HIDE DEF q
<1>6. Well(q)
  BY <1>1, <1>4, NoItemMeant, AllocationAssumption DEF Well, Orderly
<1>7. Moves(w) /\ pass'[w] = Onwards(q)
  BY <1>3, MovesTo
<1>8. /\ Well(pass'[w]) /\ \A r \in Indent : ClaimBy(pass'[w], r) = 0
      /\ \A s, c : HandSum(pass'[w], s, c) = 0
      /\ \A r \in Indent : pass'[w].item[r] \in {q.item[r], NoItem}
  BY <1>4, <1>5, <1>6, <1>7, OnwardsWell, NoClaim, NoHand
<1>9. \A r \in R : Aimed(item[r], r)
  BY <1>2 DEF AimInv, RowAim
<1>10. LandsAt(p.to, R, item)
  BY <1>2, <1>3, <1>9, RowsWritten
<1>11. PassOrder' /\ RowAim'
  <2>1. \A r \in Indent : pass'[w].item[r] = pass[w].item[r] \/ pass'[w].item[r].row = 0
    BY <1>4, <1>8, NoItemMeant
  <2>2. gaps \subseteq gaps' /\ \A d : Targeted(d) /\ d # 0 => KeptRow(d)
    BY <1>2, <1>3, <1>10, WritingKeeps
  <2> QED
    BY <1>7, <1>8, <2>1, <2>2, AimStep
<1>12. \A r \in Indent : ClaimBy(p, r) = IF r \in R THEN item[r].take ELSE 0
  BY <1>1, AllocationAssumption DEF ClaimBy
<1>13. "deleted" \notin gaps => \A r \in Indent : Received(r)' = Received(r) + ClaimBy(p, r)
  <2> SUFFICES ASSUME "deleted" \notin gaps, NEW r \in Indent
               PROVE Received(r)' = Received(r) + ClaimBy(p, r)
    OBVIOUS
  <2>1. r \in R => r \in Landing(R, item)
    BY <1>9 DEF Landing, Aimed
  <2>2. r \in Landing(R, item) => r \in R
    BY DEF Landing
  <2> QED
    BY <1>2, <1>10, <1>12, <2>1, <2>2, ReceivedWritten
<1>14. \A s : \A r \in Indent : WrittenTo(R, item, "reserved", s)[r] <= HandBy(p, s, FALSE)[r]
  BY <1>1, <1>9, <1>10, HandsLand
<1>15. \A s \in Sku : Quantity(RowsIn("reserved"), s)'
                        <= Quantity(RowsIn("reserved"), s) + HandSum(p, s, FALSE)
  <2> TAKE s \in Sku
  <2> DEFINE f == WrittenTo(R, item, "reserved", s)
             g == HandBy(p, s, FALSE)
  <2>1. /\ Quantity(RowsIn("reserved"), s)' = Quantity(RowsIn("reserved"), s) + Size(f, Indent)
        /\ f \in [Indent -> Nat] /\ Quantity(RowsIn("reserved"), s) \in Nat /\ Size(f, Indent) \in Nat
    BY <1>2, <1>10, QuantityWritten
  <2>2. g \in [Indent -> Nat] /\ HandSum(p, s, FALSE) = Size(g, Indent) /\ Size(g, Indent) \in Nat
    BY <1>1, HandByIsNat, HandSumIsNat DEF HandSum
  <2>3. \A r \in Indent : f[r] <= g[r]
    BY <1>14
  <2>4. IsFiniteSet(Indent)
    BY AllocationAssumption
  <2>5. Size(f, Indent) <= Size(g, Indent)
    <3> HIDE DEF f, g
    <3> QED BY <2>1, <2>2, <2>3, <2>4, SizeLess
  <2> DEFINE n == Quantity(RowsIn("reserved"), s)
             m == Size(f, Indent)
             h == HandSum(p, s, FALSE)
  <2>6. n \in Nat /\ m \in Nat /\ h \in Nat /\ m <= h /\ Quantity(RowsIn("reserved"), s)' = n + m
    BY <2>1, <2>2, <2>5
  <2> HIDE DEF n, m, h
  <2>7. n + m <= n + h
    BY <2>6
  <2> QED
    BY <2>6, <2>7, Zenon DEF n, h
<1>16. ASSUME gaps \cap {"deleted", "crossed"} = {}, NEW s \in Sku
       PROVE  /\ Quantity(RowsIn("reserved"), s)' = Quantity(RowsIn("reserved"), s) + HandSum(p, s, FALSE)
              /\ Quantity(RowsIn("consumed"), s)' = Quantity(RowsIn("consumed"), s) + HandSum(p, s, TRUE)
  <2> DEFINE f == WrittenTo(R, item, "reserved", s)
             g == HandBy(p, s, FALSE)
             h == WrittenTo(R, item, "consumed", s)
             k == HandBy(p, s, TRUE)
  <2>1. \A r \in Indent : f[r] = g[r] /\ h[r] = k[r]
    BY <1>1, <1>9, <1>10, <1>16, HandsLand
  <2>2. Size(f, Indent) = Size(g, Indent) /\ Size(h, Indent) = Size(k, Indent)
    <3> HIDE DEF f, g, h, k
    <3> QED BY <2>1, SizeSame
  <2>3. /\ Quantity(RowsIn("reserved"), s)' = Quantity(RowsIn("reserved"), s) + Size(f, Indent)
        /\ Quantity(RowsIn("consumed"), s)' = Quantity(RowsIn("consumed"), s) + Size(h, Indent)
    BY <1>2, <1>10, QuantityWritten
  <2>4. HandSum(p, s, FALSE) = Size(g, Indent) /\ HandSum(p, s, TRUE) = Size(k, Indent)
    BY DEF HandSum
  <2> QED
    BY <2>2, <2>3, <2>4, Zenon
<1>17. gaps \cap {"deleted", "crossed"} = {} =>
         \A s \in Sku :
           /\ Quantity(RowsIn("reserved"), s)' = Quantity(RowsIn("reserved"), s) + HandSum(p, s, FALSE)
           /\ Quantity(RowsIn("consumed"), s)' = Quantity(RowsIn("consumed"), s) + HandSum(p, s, TRUE)
  BY <1>16, Zenon
<1>18. WriteAll(w)
  BY <1>3, <1>7, <1>8, <1>13, <1>15, <1>17 DEF WriteAll
<1> QED
  BY <1>3, <1>11, <1>18 DEF AimInv, OnlyClosed

LEMMA WriteFailsEffect ==
  ASSUME IInv, IInv', AimInv, NEW w \in Worker, WriteFails(w)
  PROVE  /\ AimInv' /\ Quiet(w) /\ gaps \subseteq gaps'
         /\ "torn" \notin gaps' => UNCHANGED <<row, gaps>>
<1> DEFINE p == pass[w]
           q == [p EXCEPT !.pc = "unwind"]
<1>1. p \in PassState /\ Well(p) /\ p.pc = "job" /\ p.todo = {} /\ p.at = 0
  BY WorkerWell DEF IInv, DocTypes, WriteFails, Well, Orderly
<1>2. pass' = [pass EXCEPT ![w] = q] /\ UNCHANGED indent
  BY DEF WriteFails
<1>3. q.pc = "unwind" /\ q.todo = {} /\ q.hand = p.hand /\ q.at = 0 /\ q.item = p.item
  BY <1>1 DEF PassState
<1> HIDE DEF q
<1>4. Well(q)
  BY <1>1, <1>3, AllocationAssumption DEF Well, Orderly
<1>5. Moves(w) /\ pass'[w] = q
  BY <1>2, MovesTo
<1>6. (\A r \in Indent : SameClaim(w, r)) /\ SameHands(w)
  BY <1>1, <1>3, <1>5, SameHand DEF SameClaim, ClaimBy, SameHands
<1>7. Quiet(w)
  BY <1>4, <1>5, <1>6 DEF Quiet
<1>8. /\ gaps \subseteq gaps' /\ ("torn" \notin gaps' => UNCHANGED <<row, gaps>>)
      /\ \A d : Targeted(d) /\ d # 0 => KeptRow(d)
  <2>1. CASE UNCHANGED <<row, gaps>>
    BY <2>1 DEF KeptRow
  <2>2. CASE /\ gaps' = gaps \cup {"torn"}
             /\ \E last \in p.hand : WritesRows(p.to, {r \in p.hand : r <= last}, p.item)
    <3>1. PICK last \in p.hand : WritesRows(p.to, {r \in p.hand : r <= last}, p.item)
      BY <2>2
    <3> DEFINE R == {r \in p.hand : r <= last}
    <3>2. R \in SUBSET Indent /\ p.item \in [Indent -> Item]
      BY <1>1 DEF PassState
    <3>3. \A r \in R : Aimed(p.item[r], r)
      BY <3>2 DEF AimInv, RowAim
    <3>4. LandsAt(p.to, R, p.item)
      BY <3>1, <3>2, <3>3, RowsWritten
    <3>5. \A d : Targeted(d) /\ d # 0 => KeptRow(d)
      BY <3>2, <3>4, WritingKeeps
    <3> QED
      BY <2>2, <3>5
  <2> QED
    BY <2>1, <2>2 DEF WriteFails
<1>9. PassOrder' /\ RowAim'
  <2>1. \A r \in Indent : pass'[w].item[r] = pass[w].item[r]
    BY <1>3, <1>5
  <2> QED
    BY <1>4, <1>5, <1>8, <2>1, AimStep
<1>10. OnlyClosed'
  BY <1>2, <1>8 DEF AimInv, OnlyClosed
<1> QED
  BY <1>7, <1>8, <1>9, <1>10 DEF AimInv

-----------------------------------------------------------------------------
(* The other steps leave the passes alone.                                 *)

LEMMA SamePass ==
  ASSUME pass' = pass
  PROVE  (\A r : Claimed(r)' = Claimed(r)) /\ (\A s, c : InHand(s, c)' = InHand(s, c))
<1>1. \A r : ClaimOf(pass', r) = ClaimOf(pass, r)
  OBVIOUS
<1>2. \A s, c : HandOf(pass', s, c) = HandOf(pass, s, c)
  OBVIOUS
<1> QED
  BY <1>1, <1>2, Sums

LEMMA SameInward ==
  ASSUME \A d \in RowId : row'[d].r = row[d].r /\ row'[d].inward = row[d].inward
  PROVE  \A r : Received(r)' = Received(r)
<1> SUFFICES ASSUME NEW r PROVE Received(r)' = Received(r)
  OBVIOUS
<1>1. \A d \in RowId : InwardOf(row', r)[d] = InwardOf(row, r)[d]
  BY DEF InwardOf
<1>2. Size(InwardOf(row', r), RowId) = Size(InwardOf(row, r), RowId)
  BY <1>1, SizeSame
<1> QED
  BY <1>2, Sums

LEMMA SameRows ==
  ASSUME row' = row
  PROVE  (\A r : Received(r)' = Received(r))
         /\ \A st, s : Quantity(RowsIn(st), s)' = Quantity(RowsIn(st), s)
<1>1. \A r : Received(r)' = Received(r)
  BY SameInward
<1>2. \A st, s : QtyOf(row', st, s) = QtyOf(row, st, s)
  OBVIOUS
<1> QED
  BY <1>1, <1>2, Sums

LEMMA SumsAreNat ==
  ASSUME IInv
  PROVE  /\ \A r \in Indent : Received(r) \in Nat /\ Claimed(r) \in Nat
         /\ \A st, s : Quantity(RowsIn(st), s) \in Nat
         /\ \A s, c : InHand(s, c) \in Nat
<1>1. \A r \in Indent : InwardOf(row, r) \in [RowId -> Nat]
  BY DEF InwardOf, IInv, DocTypes, RowDoc
<1>2. \A st, s : QtyOf(row, st, s) \in [RowId -> Nat]
  BY DEF QtyOf, IInv, DocTypes, RowDoc
<1>3. \A r \in Indent : ClaimOf(pass, r) \in [Worker -> Nat]
  BY ClaimByIsNat DEF ClaimOf, IInv, DocTypes
<1>4. \A s, c : HandOf(pass, s, c) \in [Worker \X Indent -> Nat]
  BY HandByIsNat DEF HandOf, IInv, DocTypes
<1>5. IsFiniteSet(RowId) /\ IsFiniteSet(Worker) /\ IsFiniteSet(Worker \X Indent)
  BY AllocationAssumption, FS_Product
<1>6. \A r \in Indent : Received(r) \in Nat /\ Claimed(r) \in Nat
  BY <1>1, <1>3, <1>5, Sums, SizeIsNat
<1>7. \A st, s : Quantity(RowsIn(st), s) \in Nat
  BY <1>2, <1>5, Sums, SizeIsNat
<1>8. \A s, c : InHand(s, c) \in Nat
  BY <1>4, <1>5, Sums, SizeIsNat
<1> QED
  BY <1>6, <1>7, <1>8

\* The units of SKU s on the rows L, as a sum over all rows.
QtyIn(R, L, s) == [d \in RowId |-> IF d \in L /\ SkuOf[R[d].r] = s THEN R[d].qty ELSE 0]

LEMMA QuantityOn ==
  ASSUME NEW L \in SUBSET RowId, NEW s
  PROVE  Quantity(L, s) = Size(QtyIn(row, L, s), RowId)
<1> DEFINE f == [d \in RowId |-> row[d].qty]
           M == {d \in L : SkuOf[row[d].r] = s}
<1>1. \A d \in M : QtyIn(row, L, s)[d] = f[d]
  BY DEF QtyIn
<1>2. \A d \in RowId \ M : QtyIn(row, L, s)[d] = 0
  BY DEF QtyIn
<1>3. Size(f, M) = Total(LAMBDA d : row[d].qty, M)
  <2>1. \A d \in M : f[d] = row[d].qty
    OBVIOUS
  <2> HIDE DEF f, M
  <2>2. {{d} \X (1..f[d]) : d \in M} = {{d} \X (1..row[d].qty) : d \in M}
    BY <2>1
  <2> QED
    BY <2>2 DEF Size, Units, Total
<1>4. M \in SUBSET RowId
  OBVIOUS
<1>5. Size(f, M) = Size(QtyIn(row, L, s), RowId)
  <2> HIDE DEF f, M
  <2> QED BY <1>1, <1>2, <1>4, SumOverPart
<1> QED
  BY <1>3, <1>5 DEF Quantity

\* Rows in one state that all go to another.
Settles(L, to) ==
  row' = [d \in RowId |-> IF d \in L THEN [row[d] EXCEPT !.stock = to] ELSE row[d]]

LEMMA SettledFields ==
  ASSUME IInv, NEW L \in SUBSET RowId, NEW to \in {"consumed", "released"}, Settles(L, to),
         NEW d \in RowId
  PROVE  /\ row'[d].r = row[d].r /\ row'[d].b = row[d].b
         /\ row'[d].qty = row[d].qty /\ row'[d].inward = row[d].inward
         /\ row'[d].stock = IF d \in L THEN to ELSE row[d].stock
         /\ d \notin L => row'[d] = row[d]
         /\ d \in L => row'[d] # NoRow
<1>1. row[d] \in RowDoc
  BY DEF IInv, DocTypes
<1>2. row'[d] = IF d \in L THEN [row[d] EXCEPT !.stock = to] ELSE row[d]
  BY DEF Settles
<1>3. row'[d].stock = IF d \in L THEN to ELSE row[d].stock
  BY <1>1, <1>2 DEF RowDoc
<1>4. d \in L => row'[d] # NoRow
  BY <1>3 DEF NoRow
<1> QED
  BY <1>1, <1>2, <1>3, <1>4 DEF RowDoc

LEMMA RowsLeave ==
  ASSUME IInv, IInv', NEW L \in SUBSET RowId, NEW to \in {"consumed", "released"}, Settles(L, to),
         NEW st \in {"reserved", "consumed"}, st # to,
         NEW M \in SUBSET L, \A d \in L : d \in M <=> row[d].stock = st, NEW s
  PROVE  /\ Quantity(RowsIn(st), s) = Quantity(RowsIn(st), s)' + Quantity(M, s)
         /\ Quantity(RowsIn(st), s)' \in Nat /\ Quantity(M, s) \in Nat
<1> DEFINE f == QtyOf(row, st, s)
           g == QtyOf(row', st, s)
           h == QtyIn(row, M, s)
<1>1. f \in [RowId -> Nat] /\ g \in [RowId -> Nat] /\ h \in [RowId -> Nat]
  BY DEF QtyOf, QtyIn, IInv, DocTypes, RowDoc
<1>2. ASSUME NEW d \in RowId PROVE f[d] = g[d] + h[d]
  <2>1. row[d].qty \in Nat /\ row'[d].qty = row[d].qty /\ row'[d].r = row[d].r
        /\ row'[d].stock = IF d \in L THEN to ELSE row[d].stock
    BY SettledFields DEF IInv, DocTypes, RowDoc
  <2>2. f[d] = (IF row[d].stock = st /\ SkuOf[row[d].r] = s THEN row[d].qty ELSE 0)
    BY DEF QtyOf
  <2>3. g[d] = (IF row'[d].stock = st /\ SkuOf[row'[d].r] = s THEN row'[d].qty ELSE 0)
    BY DEF QtyOf
  <2>4. h[d] = (IF d \in M /\ SkuOf[row[d].r] = s THEN row[d].qty ELSE 0)
    BY DEF QtyIn
  <2> HIDE DEF f, g, h
  <2> QED
    BY <2>1, <2>2, <2>3, <2>4
<1>3. Quantity(RowsIn(st), s) = Size(f, RowId) /\ Quantity(RowsIn(st), s)' = Size(g, RowId)
  BY Sums
<1>4. Quantity(M, s) = Size(h, RowId)
  BY QuantityOn
<1>5. IsFiniteSet(RowId)
  BY AllocationAssumption
<1> HIDE DEF f, g, h
<1> QED
  BY <1>1, <1>2, <1>3, <1>4, <1>5, SizePlus, SizeIsNat

LEMMA RowsJoin ==
  ASSUME IInv, IInv', NEW L \in SUBSET RowId, Settles(L, "consumed"),
         \A d \in L : row[d].stock = "reserved", NEW s
  PROVE  Quantity(RowsIn("consumed"), s)' = Quantity(RowsIn("consumed"), s) + Quantity(L, s)
<1> DEFINE f == QtyOf(row, "consumed", s)
           g == QtyOf(row', "consumed", s)
           h == QtyIn(row, L, s)
<1>1. f \in [RowId -> Nat] /\ g \in [RowId -> Nat] /\ h \in [RowId -> Nat]
  BY DEF QtyOf, QtyIn, IInv, DocTypes, RowDoc
<1>2. ASSUME NEW d \in RowId PROVE g[d] = f[d] + h[d]
  <2>1. row[d].qty \in Nat /\ row'[d].qty = row[d].qty /\ row'[d].r = row[d].r
        /\ row'[d].stock = IF d \in L THEN "consumed" ELSE row[d].stock
    BY SettledFields DEF IInv, DocTypes, RowDoc
  <2>2. f[d] = (IF row[d].stock = "consumed" /\ SkuOf[row[d].r] = s THEN row[d].qty ELSE 0)
    BY DEF QtyOf
  <2>3. g[d] = (IF row'[d].stock = "consumed" /\ SkuOf[row'[d].r] = s THEN row'[d].qty ELSE 0)
    BY DEF QtyOf
  <2>4. h[d] = (IF d \in L /\ SkuOf[row[d].r] = s THEN row[d].qty ELSE 0)
    BY DEF QtyIn
  <2> HIDE DEF f, g, h
  <2> QED
    BY <2>1, <2>2, <2>3, <2>4
<1>3. Quantity(RowsIn("consumed"), s) = Size(f, RowId)
      /\ Quantity(RowsIn("consumed"), s)' = Size(g, RowId)
  BY Sums
<1>4. Quantity(L, s) = Size(h, RowId)
  BY QuantityOn
<1>5. IsFiniteSet(RowId)
  BY AllocationAssumption
<1> HIDE DEF f, g, h
<1> QED
  BY <1>1, <1>2, <1>3, <1>4, <1>5, SizePlus, SizeIsNat

\* Rows keep what the passes that look for them count on, one by one.
LEMMA AimKept ==
  ASSUME AimInv, pass' = pass,
         \A w \in Worker : \A r \in Indent :
           LET item == pass[w].item[r]
           IN  item.row # 0 =>
                 /\ row'[item.row] = NoRow => "deleted" \in gaps'
                 /\ row'[item.row] # NoRow =>
                      /\ row'[item.row].r = r /\ row'[item.row].b = Parent[r]
                      /\ item.consumed => row'[item.row].stock \in {"consumed", "released"}
                      /\ "crossed" \notin gaps' =>
                           row'[item.row].stock = IF item.consumed THEN "consumed" ELSE "reserved"
  PROVE  PassOrder' /\ RowAim'
<1>1. PassOrder'
  BY DEF AimInv, PassOrder
<1>2. RowAim'
  BY DEF RowAim, Aimed
<1> QED
  BY <1>1, <1>2

LEMMA AimSteady ==
  ASSUME AimInv, pass' = pass, gaps \subseteq gaps', \A d : Targeted(d) /\ d # 0 => KeptRow(d)
  PROVE  PassOrder' /\ RowAim'
<1>1. ASSUME NEW w \in Worker, NEW r \in Indent
      PROVE  LET item == pass[w].item[r]
             IN  item.row # 0 =>
                   /\ row'[item.row] = NoRow => "deleted" \in gaps'
                   /\ row'[item.row] # NoRow =>
                        /\ row'[item.row].r = r /\ row'[item.row].b = Parent[r]
                        /\ item.consumed => row'[item.row].stock \in {"consumed", "released"}
                        /\ "crossed" \notin gaps' =>
                             row'[item.row].stock = IF item.consumed THEN "consumed" ELSE "reserved"
  <2>1. Aimed(pass[w].item[r], r)
    BY DEF AimInv, RowAim
  <2>2. pass[w].item[r].row # 0 => KeptRow(pass[w].item[r].row)
    BY TargetedBy
  <2> QED
    BY <2>1, <2>2, KeptAim
<1> QED
  BY <1>1, AimKept

\* A settlement that leaves the rows L of booking b crosses every pass that saw one.
LEMMA SettledAim ==
  ASSUME IInv, AimInv, NEW b, NEW L \in SUBSET RowId, NEW to \in {"consumed", "released"},
         Settles(L, to), \A d \in L : row[d].b = b /\ row[d].stock \in {"reserved", "consumed"},
         to = "consumed" => \A d \in L : row[d].stock = "reserved",
         pass' = pass, gaps \cup Crossed(b) \subseteq gaps'
  PROVE  PassOrder' /\ RowAim'
<1>1. ASSUME NEW w \in Worker, NEW r \in Indent
      PROVE  LET item == pass[w].item[r]
             IN  item.row # 0 =>
                   /\ row'[item.row] = NoRow => "deleted" \in gaps'
                   /\ row'[item.row] # NoRow =>
                        /\ row'[item.row].r = r /\ row'[item.row].b = Parent[r]
                        /\ item.consumed => row'[item.row].stock \in {"consumed", "released"}
                        /\ "crossed" \notin gaps' =>
                             row'[item.row].stock = IF item.consumed THEN "consumed" ELSE "reserved"
  <2> DEFINE item == pass[w].item[r]
             d == item.row
  <2>1. Aimed(item, r)
    BY DEF AimInv, RowAim
  <2>2. CASE d = 0
    BY <2>2
  <2>3. CASE d # 0 /\ d \notin L
    <3>1. d \in RowId
      BY <2>3 DEF IInv, DocTypes, PassState, Item
    <3>2. KeptRow(d)
      BY <2>3, <3>1, SettledFields DEF KeptRow
    <3>3. gaps \subseteq gaps'
      OBVIOUS
    <3> QED
      BY <2>1, <3>2, <3>3, KeptAim
  <2>4. CASE d # 0 /\ d \in L
    <3>1. row'[d].r = row[d].r /\ row'[d].b = row[d].b /\ row'[d].stock = to /\ row'[d] # NoRow
      BY <2>4, SettledFields
    <3>2. row[d] # NoRow /\ row[d].b = b /\ row[d].stock \in {"reserved", "consumed"}
      BY <2>4 DEF NoRow
    <3>3. row[d].r = r /\ row[d].b = Parent[r]
          /\ (item.consumed => row[d].stock \in {"consumed", "released"})
      BY <2>1, <2>4, <3>2 DEF Aimed
    <3>4. item.take > 0 /\ ~item.fresh
      BY <2>4 DEF AimInv, PassOrder, Meant
    <3>5. "crossed" \in gaps'
      BY <3>2, <3>3, <3>4 DEF Crossed, Awaited
    <3>6. item.consumed => to = "released"
      BY <2>4, <3>2, <3>3
    <3> HIDE DEF item, d
    <3>7. /\ row'[d] # NoRow /\ row'[d].r = r /\ row'[d].b = Parent[r] /\ "crossed" \in gaps'
          /\ item.consumed => row'[d].stock \in {"consumed", "released"}
      BY <3>1, <3>3, <3>5, <3>6
    <3> QED
      BY <3>7 DEF item, d
  <2> QED
    BY <2>2, <2>3, <2>4
<1> QED
  BY <1>1, AimKept

\* A PO is raised: the reserved units are issued.
PoSums(L) ==
  /\ \A r : Received(r)' = Received(r)
  /\ \A s \in Sku :
       /\ stock'[s] = Consume(stock[s], Quantity(L, s)) /\ Quantity(L, s) \in Nat
       /\ Quantity(RowsIn("reserved"), s) = Quantity(RowsIn("reserved"), s)' + Quantity(L, s)
       /\ Quantity(RowsIn("reserved"), s)' \in Nat
       /\ Quantity(RowsIn("consumed"), s)' = Quantity(RowsIn("consumed"), s) + Quantity(L, s)

LEMMA PoConsumesEffect ==
  ASSUME IInv, IInv', AimInv, NEW b \in Booking \cup Fresh, PoConsumes(b)
  PROVE  /\ AimInv' /\ pass' = pass /\ gaps \subseteq gaps' /\ UNCHANGED <<indent, elsewhere, arrived>>
         /\ PoSums({d \in RowsIn("reserved") : row[d].b = b})
<1> DEFINE L == {d \in RowsIn("reserved") : row[d].b = b}
<1>1. L \in SUBSET RowId /\ \A d \in L : row[d].stock = "reserved" /\ row[d].b = b
  BY DEF RowsIn
<1>2. /\ Settles(L, "consumed") /\ stock' = [s \in Sku |-> Consume(stock[s], Quantity(L, s))]
      /\ gaps' = gaps \cup Crossed(b) /\ UNCHANGED <<indent, elsewhere, arrived, pass>>
  BY DEF PoConsumes, Settles
<1> HIDE DEF L
<1>3. PassOrder' /\ RowAim'
  BY <1>1, <1>2, SettledAim
<1>4. OnlyClosed'
  BY <1>2 DEF AimInv, OnlyClosed
<1>5. \A r : Received(r)' = Received(r)
  BY <1>1, <1>2, SettledFields, SameInward
<1>6. ASSUME NEW s \in Sku
      PROVE  /\ stock'[s] = Consume(stock[s], Quantity(L, s)) /\ Quantity(L, s) \in Nat
             /\ Quantity(RowsIn("reserved"), s) = Quantity(RowsIn("reserved"), s)' + Quantity(L, s)
             /\ Quantity(RowsIn("reserved"), s)' \in Nat
             /\ Quantity(RowsIn("consumed"), s)' = Quantity(RowsIn("consumed"), s) + Quantity(L, s)
  <2>1. Quantity(RowsIn("consumed"), s)' = Quantity(RowsIn("consumed"), s) + Quantity(L, s)
    BY <1>1, <1>2, RowsJoin
  <2>2. /\ Quantity(RowsIn("reserved"), s) = Quantity(RowsIn("reserved"), s)' + Quantity(L, s)
        /\ Quantity(RowsIn("reserved"), s)' \in Nat /\ Quantity(L, s) \in Nat
    <3>1. L \in SUBSET L /\ \A d \in L : d \in L <=> row[d].stock = "reserved"
      BY <1>1
    <3>2. /\ "consumed" \in {"consumed", "released"} /\ "reserved" \in {"reserved", "consumed"}
          /\ "reserved" # "consumed"
      OBVIOUS
    <3> QED
      BY <1>1, <1>2, <3>1, <3>2, RowsLeave
  <2>3. stock'[s] = Consume(stock[s], Quantity(L, s))
    BY <1>2
  <2> QED
    BY <2>1, <2>2, <2>3
<1>7. PoSums(L)
  BY <1>5, <1>6 DEF PoSums
<1> QED
  BY <1>2, <1>3, <1>4, <1>7 DEF AimInv, L

\* A booking is cancelled: reserved and issued units go back to the shelf.
CancelSums(H, S) ==
  /\ \A r : Received(r)' = Received(r)
  /\ \A s \in Sku :
       /\ stock'[s] = TakeBack(Release(stock[s], Quantity(H, s)), Quantity(S, s))
       /\ Quantity(H, s) \in Nat /\ Quantity(S, s) \in Nat
       /\ Quantity(RowsIn("reserved"), s) = Quantity(RowsIn("reserved"), s)' + Quantity(H, s)
       /\ Quantity(RowsIn("consumed"), s) = Quantity(RowsIn("consumed"), s)' + Quantity(S, s)
       /\ Quantity(RowsIn("reserved"), s)' \in Nat /\ Quantity(RowsIn("consumed"), s)' \in Nat

\* Some indents are closed, which is noted; the others stay.
Closes ==
  /\ gaps \subseteq gaps'
  /\ \A r \in Indent :
       \/ indent'[r] = indent[r]
       \/ "closed" \in gaps' /\ indent'[r].status = "Cancelled" /\ Open(r)

LEMMA BookingCancelledEffect ==
  ASSUME IInv, IInv', AimInv, NEW b \in Booking \cup Fresh, BookingCancelled(b)
  PROVE  /\ AimInv' /\ pass' = pass /\ Closes /\ UNCHANGED <<elsewhere, arrived>>
         /\ CancelSums({d \in RowsIn("reserved") : row[d].b = b}, {d \in RowsIn("consumed") : row[d].b = b})
<1> DEFINE H == {d \in RowsIn("reserved") : row[d].b = b}
           S == {d \in RowsIn("consumed") : row[d].b = b}
           L == H \cup S
           C == {r \in Indent : Parent[r] = b /\ Open(r)}
<1>1. /\ L \in SUBSET RowId /\ H \in SUBSET L /\ S \in SUBSET L
      /\ \A d \in L : row[d].stock \in {"reserved", "consumed"} /\ row[d].b = b
      /\ \A d \in L : d \in H <=> row[d].stock = "reserved"
      /\ \A d \in L : d \in S <=> row[d].stock = "consumed"
  BY DEF RowsIn
<1>2. /\ Settles(L, "released")
      /\ stock' = [s \in Sku |-> TakeBack(Release(stock[s], Quantity(H, s)), Quantity(S, s))]
      /\ indent' = [r \in Indent |-> IF r \in C THEN [indent[r] EXCEPT !.status = "Cancelled"] ELSE indent[r]]
      /\ gaps' = gaps \cup Crossed(b) \cup (IF C # {} THEN {"closed"} ELSE {})
      /\ UNCHANGED <<elsewhere, arrived, pass>>
  BY DEF BookingCancelled, Settles
<1> HIDE DEF L, H, S
<1>3. PassOrder' /\ RowAim'
  <2>1. gaps \cup Crossed(b) \subseteq gaps'
    BY <1>2
  <2> QED
    BY <1>1, <1>2, <2>1, SettledAim
<1>4. Closes
  <2>1. ASSUME NEW r \in C
        PROVE  "closed" \in gaps' /\ indent'[r].status = "Cancelled" /\ Open(r)
    BY <1>2 DEF IInv, DocTypes, IndentDoc
  <2>2. \A r \in Indent \ C : indent'[r] = indent[r]
    BY <1>2
  <2> QED
    BY <1>2, <2>1, <2>2 DEF Closes
<1>5. OnlyClosed'
  BY <1>4 DEF AimInv, OnlyClosed, Closes
<1>6. \A r : Received(r)' = Received(r)
  BY <1>1, <1>2, SettledFields, SameInward
<1>7. ASSUME NEW s \in Sku
      PROVE  /\ stock'[s] = TakeBack(Release(stock[s], Quantity(H, s)), Quantity(S, s))
             /\ Quantity(H, s) \in Nat /\ Quantity(S, s) \in Nat
             /\ Quantity(RowsIn("reserved"), s) = Quantity(RowsIn("reserved"), s)' + Quantity(H, s)
             /\ Quantity(RowsIn("consumed"), s) = Quantity(RowsIn("consumed"), s)' + Quantity(S, s)
             /\ Quantity(RowsIn("reserved"), s)' \in Nat /\ Quantity(RowsIn("consumed"), s)' \in Nat
  <2>1. /\ Quantity(RowsIn("reserved"), s) = Quantity(RowsIn("reserved"), s)' + Quantity(H, s)
        /\ Quantity(RowsIn("reserved"), s)' \in Nat /\ Quantity(H, s) \in Nat
    BY <1>1, <1>2, RowsLeave
  <2>2. /\ Quantity(RowsIn("consumed"), s) = Quantity(RowsIn("consumed"), s)' + Quantity(S, s)
        /\ Quantity(RowsIn("consumed"), s)' \in Nat /\ Quantity(S, s) \in Nat
    BY <1>1, <1>2, RowsLeave
  <2>3. stock'[s] = TakeBack(Release(stock[s], Quantity(H, s)), Quantity(S, s))
    BY <1>2
  <2> QED
    BY <2>1, <2>2, <2>3
<1>8. CancelSums(H, S)
  BY <1>6, <1>7 DEF CancelSums
<1> QED
  BY <1>2, <1>3, <1>4, <1>5, <1>8 DEF AimInv, H, S

LEMMA DeskCancelsIndentEffect ==
  ASSUME IInv, IInv', AimInv, NEW r \in Indent, DeskCancelsIndent(r)
  PROVE  AimInv' /\ pass' = pass /\ Closes /\ UNCHANGED <<stock, row, elsewhere, arrived>>
<1>1. indent' = [indent EXCEPT ![r].status = "Cancelled"] /\ gaps' = gaps \cup {"closed"} /\ Open(r)
      /\ UNCHANGED <<stock, row, elsewhere, arrived, pass>>
  BY DEF DeskCancelsIndent
<1>2. Closes
  BY <1>1 DEF Closes, IInv, DocTypes, IndentDoc
<1>3. \A d : Targeted(d) /\ d # 0 => KeptRow(d)
  BY <1>1 DEF KeptRow
<1>4. PassOrder' /\ RowAim'
  BY <1>1, <1>3, AimSteady
<1> QED
  BY <1>1, <1>2, <1>4 DEF AimInv, OnlyClosed

\* A live row d gives up q of its inward units, or is deleted with them.
GivesUp(d, q) ==
  /\ \/ row' = [row EXCEPT ![d] = Grown(row[d], -q)]
     \/ row' = [row EXCEPT ![d] = NoRow] /\ q = row[d].qty /\ q = row[d].inward
  /\ q \in Nat /\ row[d].r \in Indent /\ row[d].stock \in {"reserved", "consumed"}

LEMMA RowGivesUp ==
  ASSUME IInv, IInv', NEW d \in RowId, NEW q, GivesUp(d, q)
  PROVE  /\ \A r \in Indent : Received(r)' = Received(r) - (IF row[d].r = r THEN q ELSE 0)
         /\ \A s : \A st \in {"reserved", "consumed"} :
              /\ Quantity(RowsIn(st), s)'
                   = Quantity(RowsIn(st), s) - (IF row[d].stock = st /\ SkuOf[row[d].r] = s THEN q ELSE 0)
              /\ Quantity(RowsIn(st), s)' \in Nat /\ Quantity(RowsIn(st), s) \in Nat
<1>1. row[d] \in RowDoc /\ row' \in [RowId -> RowDoc] /\ row \in [RowId -> RowDoc]
  BY DEF IInv, DocTypes
<1>2. q \in Nat /\ row[d].qty \in Nat /\ row[d].inward \in Nat /\ IsFiniteSet(RowId)
      /\ row[d].r \in Indent /\ row[d].stock \in {"reserved", "consumed"}
  BY <1>1, AllocationAssumption DEF GivesUp, RowDoc
<1>3. \A e \in RowId \ {d} : row'[e] = row[e]
  BY <1>1 DEF GivesUp
<1>4. \/ /\ row'[d].r = row[d].r /\ row'[d].stock = row[d].stock
         /\ row'[d].qty = row[d].qty - q /\ row'[d].inward = row[d].inward - q
      \/ row'[d].stock = "none" /\ row'[d].r = 0 /\ q = row[d].qty /\ q = row[d].inward
  <2>1. CASE row' = [row EXCEPT ![d] = Grown(row[d], -q)]
    <3>1. row'[d] = Grown(row[d], -q) /\ -q \in Int
      BY <1>1, <1>2, <2>1
    <3> QED
      BY <1>1, <1>2, <3>1, GrownFields
  <2>2. CASE row' = [row EXCEPT ![d] = NoRow] /\ q = row[d].qty /\ q = row[d].inward
    <3>1. row'[d] = NoRow
      BY <1>1, <2>2
    <3> QED
      BY <2>2, <3>1 DEF NoRow
  <2> QED
    BY <2>1, <2>2 DEF GivesUp
<1>5. ASSUME NEW r \in Indent
      PROVE  Received(r)' = Received(r) - (IF row[d].r = r THEN q ELSE 0)
  <2> DEFINE f == InwardOf(row, r)
             g == InwardOf(row', r)
  <2>1. f \in [RowId -> Nat] /\ g \in [RowId -> Nat]
    BY <1>1 DEF InwardOf, RowDoc
  <2>2. \A e \in RowId \ {d} : f[e] = g[e]
    BY <1>3 DEF InwardOf
  <2>3. f[d] = (IF row[d].r = r THEN row[d].inward ELSE 0)
        /\ g[d] = (IF row'[d].r = r THEN row'[d].inward ELSE 0)
    BY DEF InwardOf
  <2>4. Received(r) = Size(f, RowId) /\ Received(r)' = Size(g, RowId)
    BY Sums
  <2> HIDE DEF f, g
  <2>5. Size(g, RowId) = Size(f, RowId) + g[d] - f[d] /\ Size(f, RowId) \in Nat
    BY <1>2, <2>1, <2>2, SizeAtOne
  <2>6. g[d] - f[d] = - (IF row[d].r = r THEN q ELSE 0)
    <3>1. r # 0
      BY AllocationAssumption
    <3> QED
      BY <1>2, <1>4, <2>3, <3>1
  <2>7. g[d] \in Nat /\ f[d] \in Nat
    BY <2>1
  <2> QED
    BY <1>2, <2>4, <2>5, <2>6, <2>7
<1>6. ASSUME NEW s, NEW st \in {"reserved", "consumed"}
      PROVE  /\ Quantity(RowsIn(st), s)'
                  = Quantity(RowsIn(st), s) - (IF row[d].stock = st /\ SkuOf[row[d].r] = s THEN q ELSE 0)
             /\ Quantity(RowsIn(st), s)' \in Nat /\ Quantity(RowsIn(st), s) \in Nat
  <2> DEFINE f == QtyOf(row, st, s)
             g == QtyOf(row', st, s)
  <2>1. f \in [RowId -> Nat] /\ g \in [RowId -> Nat]
    BY <1>1 DEF QtyOf, RowDoc
  <2>2. \A e \in RowId \ {d} : f[e] = g[e]
    BY <1>3 DEF QtyOf
  <2>3. f[d] = (IF row[d].stock = st /\ SkuOf[row[d].r] = s THEN row[d].qty ELSE 0)
        /\ g[d] = (IF row'[d].stock = st /\ SkuOf[row'[d].r] = s THEN row'[d].qty ELSE 0)
    BY DEF QtyOf
  <2>4. Quantity(RowsIn(st), s) = Size(f, RowId) /\ Quantity(RowsIn(st), s)' = Size(g, RowId)
    BY Sums
  <2> HIDE DEF f, g
  <2>5. Size(g, RowId) = Size(f, RowId) + g[d] - f[d] /\ Size(f, RowId) \in Nat /\ Size(g, RowId) \in Nat
    BY <1>2, <2>1, <2>2, SizeAtOne
  <2>6. g[d] - f[d] = - (IF row[d].stock = st /\ SkuOf[row[d].r] = s THEN q ELSE 0)
    BY <1>2, <1>4, <2>3
  <2>7. g[d] \in Nat /\ f[d] \in Nat
    BY <2>1
  <2> QED
    BY <1>2, <2>4, <2>5, <2>6, <2>7
<1> QED
  BY <1>5, <1>6

\* What the indent of such a row waits for afterwards.
LEMMA ReopenedOwes ==
  ASSUME IInv, NEW r \in Indent, NEW q \in Nat, NEW n, indent' = [indent EXCEPT ![r] = Reopened(r, q, n)]
  PROVE  /\ \A x \in Indent : Owed(x)' = Owed(x) + (IF x = r THEN q ELSE 0)
         /\ indent'[r].status \in OpenStatus /\ \A x \in Indent \ {r} : indent'[x] = indent[x]
<1>1. indent \in [Indent -> IndentDoc] /\ indent[r].qty \in Nat
  BY DEF IInv, DocTypes, IndentDoc
<1>2. indent'[r] = Reopened(r, q, n) /\ \A x \in Indent \ {r} : indent'[x] = indent[x]
  BY <1>1
<1>3. /\ indent'[r].status \in OpenStatus
      /\ indent'[r].qty = (IF Open(r) THEN indent[r].qty ELSE 0) + q
  <2>1. CASE Open(r)
    BY <1>1, <1>2, <2>1 DEF Reopened, Open, IndentDoc
  <2>2. CASE ~Open(r)
    <3>1. PICK st \in OpenStatus : Reopened(r, q, n) = [status |-> st, qty |-> q]
      BY <2>2 DEF Reopened, OpenStatus
    <3>2. indent'[r].status = st /\ indent'[r].qty = q
      BY <1>2, <3>1
    <3> QED
      BY <2>2, <3>2
  <2> QED
    BY <2>1, <2>2
<1>4. ASSUME NEW x \in Indent PROVE Owed(x)' = Owed(x) + (IF x = r THEN q ELSE 0)
  <2>1. CASE x = r
    <3>1. Owed(x)' = indent'[r].qty
      BY <1>3, <2>1 DEF Owed, Open
    <3> QED
      BY <1>3, <2>1, <3>1 DEF Owed
  <2>2. CASE x # r
    <3>1. Owed(x)' = Owed(x)
      BY <1>2, <2>2 DEF Owed, Open
    <3>2. Owed(x) \in Nat
      BY <1>1 DEF Owed, IndentDoc
    <3> QED
      BY <2>2, <3>1, <3>2
  <2> QED
    BY <2>1, <2>2
<1> QED
  BY <1>2, <1>3, <1>4

AllocCancel(d, q) ==
  /\ GivesUp(d, q) /\ pass' = pass /\ UNCHANGED <<elsewhere, arrived, gaps>>
  /\ SkuOf[row[d].r] \in Sku
  /\ stock' = [stock EXCEPT ![SkuOf[row[d].r]] =
                 IF row[d].stock = "consumed" THEN TakeBack(@, q) ELSE Release(@, q)]
  /\ \/ \A x \in Indent : Owed(x)' = Owed(x) + (IF x = row[d].r THEN q ELSE 0)
     \/ "closed" \in gaps /\ \A x \in Indent : Owed(x)' = Owed(x)

LEMMA AllocationCancelledEffect ==
  ASSUME IInv, IInv', AimInv, NEW d \in RowId, NEW q \in 1..MaxQty, AllocationCancelled(d, q)
  PROVE  AimInv' /\ AllocCancel(d, q)
<1> DEFINE r == row[d].r
<1>1. q \in Nat /\ r \in Indent /\ SkuOf[r] \in Sku /\ row[d].stock \in {"reserved", "consumed"}
  BY GivesUpSound, AllocationAssumption DEF AllocationCancelled, HoldsInward
<1>2. row[d] \in RowDoc /\ row' = [row EXCEPT ![d] = Grown(row[d], -q)] /\ row \in [RowId -> RowDoc]
  BY DEF AllocationCancelled, IInv, DocTypes
<1>3. GivesUp(d, q)
  BY <1>1, <1>2, Zenon DEF GivesUp
<1>4. KeptRow(d) /\ \A e \in RowId \ {d} : row'[e] = row[e]
  <2>1. row'[d] = Grown(row[d], -q) /\ -q \in Int
    BY <1>1, <1>2
  <2>2. row'[d].r = row[d].r /\ row'[d].b = row[d].b /\ row'[d].stock = row[d].stock
    BY <1>2, <2>1, GrownFields
  <2>3. row[d] # NoRow /\ row'[d] # NoRow
    BY <1>1, <2>2 DEF NoRow
  <2> QED
    BY <1>2, <2>2, <2>3 DEF KeptRow
<1>5. pass' = pass /\ UNCHANGED <<elsewhere, arrived, gaps>>
  BY DEF AllocationCancelled
<1>6. PassOrder' /\ RowAim'
  <2>1. \A e : Targeted(e) /\ e # 0 => e \in RowId
    BY DEF Targeted, IInv, DocTypes, PassState, Item
  <2>2. \A e : Targeted(e) /\ e # 0 => KeptRow(e)
    BY <1>4, <2>1 DEF KeptRow
  <2> QED
    BY <1>5, <2>2, AimSteady
<1>7. /\ stock' = [stock EXCEPT ![SkuOf[r]] = IF row[d].stock = "consumed" THEN TakeBack(@, q) ELSE Release(@, q)]
      /\ indent' = IF indent[r].status = "Cancelled" THEN indent
                   ELSE [indent EXCEPT ![r] = Reopened(r, q, row[d].qty)]
  BY DEF AllocationCancelled
<1>8. /\ OnlyClosed'
      /\ \/ \A x \in Indent : Owed(x)' = Owed(x) + (IF x = r THEN q ELSE 0)
         \/ "closed" \in gaps /\ \A x \in Indent : Owed(x)' = Owed(x)
  <2>1. CASE indent[r].status = "Cancelled"
    <3>1. indent' = indent /\ "closed" \in gaps
      BY <1>1, <1>7, <2>1 DEF AimInv, OnlyClosed
    <3> QED
      BY <1>5, <3>1 DEF AimInv, OnlyClosed, Owed, Open
  <2>2. CASE indent[r].status # "Cancelled"
    <3>1. indent' = [indent EXCEPT ![r] = Reopened(r, q, row[d].qty)]
      BY <1>7, <2>2
    <3>2. /\ \A x \in Indent : Owed(x)' = Owed(x) + (IF x = r THEN q ELSE 0)
          /\ indent'[r].status \in OpenStatus /\ \A x \in Indent \ {r} : indent'[x] = indent[x]
      <4> HIDE DEF r
      <4> QED BY <1>1, <3>1, ReopenedOwes
    <3>3. OnlyClosed'
      BY <1>5, <3>2 DEF AimInv, OnlyClosed, OpenStatus
    <3> QED
      BY <3>2, <3>3
  <2> QED
    BY <2>1, <2>2
<1> QED
  BY <1>1, <1>3, <1>5, <1>6, <1>7, <1>8 DEF AimInv, AllocCancel

AllocMove(d, q) ==
  /\ GivesUp(d, q) /\ pass' = pass /\ UNCHANGED <<elsewhere, arrived>> /\ gaps \subseteq gaps'
  /\ SkuOf[row[d].r] \in Sku /\ row[d].stock = "reserved"
  /\ stock' = [stock EXCEPT ![SkuOf[row[d].r]] = Release(@, q)]
  /\ \A x \in Indent : Owed(x)' = Owed(x) + (IF x = row[d].r THEN q ELSE 0)

LEMMA AllocationMovedEffect ==
  ASSUME IInv, IInv', AimInv, NEW d \in RowId, NEW q \in 1..MaxQty, AllocationMoved(d, q)
  PROVE  AimInv' /\ AllocMove(d, q)
<1> DEFINE r == row[d].r
<1>1. q \in Nat /\ r \in Indent /\ SkuOf[r] \in Sku /\ row[d].stock \in {"reserved", "consumed"}
  BY GivesUpSound, AllocationAssumption DEF AllocationMoved, HoldsInward
<1>2. row[d].stock = "reserved"
  <2>1. d \in LiveRows(row[d].b)
    BY <1>1 DEF LiveRows
  <2> QED
    BY <2>1 DEF AllocationMoved
<1>3. PICK gone \in BOOLEAN :
        /\ gone => q = row[d].qty /\ q = row[d].inward
        /\ row' = [row EXCEPT ![d] = IF gone THEN NoRow ELSE Grown(row[d], -q)]
        /\ gaps' = gaps \cup (IF gone /\ Targeted(d) THEN {"deleted"} ELSE {})
  BY DEF AllocationMoved
<1>4. row[d] \in RowDoc /\ row \in [RowId -> RowDoc]
  BY DEF IInv, DocTypes
<1>5. GivesUp(d, q)
  <2>1. CASE gone
    BY <1>1, <1>3, <2>1, Zenon DEF GivesUp
  <2>2. CASE ~gone
    BY <1>1, <1>3, <2>2, Zenon DEF GivesUp
  <2> QED
    BY <2>1, <2>2
<1>6. pass' = pass /\ UNCHANGED <<elsewhere, arrived>> /\ gaps \subseteq gaps'
  BY <1>3 DEF AllocationMoved
<1>7. \A e \in RowId \ {d} : row'[e] = row[e]
  BY <1>3, <1>4
<1>8. \/ KeptRow(d)
      \/ ("deleted" \in gaps' \/ ~Targeted(d)) /\ row'[d] = NoRow
  <2>1. CASE gone
    BY <1>3, <1>4, <2>1
  <2>2. CASE ~gone
    <3>1. row'[d] = Grown(row[d], -q) /\ -q \in Int
      BY <1>1, <1>3, <1>4, <2>2
    <3>2. row'[d].r = row[d].r /\ row'[d].b = row[d].b /\ row'[d].stock = row[d].stock
      BY <1>4, <3>1, GrownFields
    <3>3. row[d] # NoRow /\ row'[d] # NoRow
      BY <1>1, <3>2 DEF NoRow
    <3> QED
      BY <3>2, <3>3, Zenon DEF KeptRow
  <2> QED
    BY <2>1, <2>2
<1>9. PassOrder' /\ RowAim'
  <2>1. \A e : Targeted(e) /\ e # 0 => e \in RowId
    BY DEF Targeted, IInv, DocTypes, PassState, Item
  <2>2. ASSUME NEW e, Targeted(e), e # 0 PROVE KeptRow(e) \/ ("deleted" \in gaps' /\ row'[e] = NoRow)
    <3>1. CASE e = d
      BY <1>8, <2>2, <3>1, Zenon
    <3>2. CASE e # d
      BY <1>7, <2>1, <2>2, <3>2, Zenon DEF KeptRow
    <3> QED
      BY <3>1, <3>2
  <2>3. ASSUME NEW w \in Worker, NEW x \in Indent
        PROVE  LET item == pass[w].item[x]
               IN  item.row # 0 =>
                     /\ row'[item.row] = NoRow => "deleted" \in gaps'
                     /\ row'[item.row] # NoRow =>
                          /\ row'[item.row].r = x /\ row'[item.row].b = Parent[x]
                          /\ item.consumed => row'[item.row].stock \in {"consumed", "released"}
                          /\ "crossed" \notin gaps' =>
                               row'[item.row].stock = IF item.consumed THEN "consumed" ELSE "reserved"
    <3>1. Aimed(pass[w].item[x], x)
      BY DEF AimInv, RowAim
    <3>2. Targeted(pass[w].item[x].row)
      BY TargetedBy
    <3>3. CASE pass[w].item[x].row # 0 => KeptRow(pass[w].item[x].row)
      BY <1>6, <3>1, <3>3, KeptAim
    <3>4. CASE "deleted" \in gaps' /\ row'[pass[w].item[x].row] = NoRow
      BY <3>4
    <3> QED
      BY <2>2, <3>2, <3>3, <3>4
  <2> QED
    BY <1>6, <2>3, AimKept
<1>10. /\ stock' = [stock EXCEPT ![SkuOf[r]] = Release(@, q)]
       /\ indent' = [indent EXCEPT ![r] = Reopened(r, q, row[d].qty)]
  BY DEF AllocationMoved
<1>11. /\ \A x \in Indent : Owed(x)' = Owed(x) + (IF x = r THEN q ELSE 0)
       /\ indent'[r].status \in OpenStatus /\ \A x \in Indent \ {r} : indent'[x] = indent[x]
  <2> HIDE DEF r
  <2> QED BY <1>1, <1>10, ReopenedOwes
<1>12. OnlyClosed'
  BY <1>6, <1>11 DEF AimInv, OnlyClosed, OpenStatus
<1> QED
  BY <1>1, <1>2, <1>5, <1>6, <1>9, <1>10, <1>11, <1>12 DEF AimInv, AllocMove

LEMMA StockStepAims ==
  ASSUME AimInv, StockStep
  PROVE  AimInv' /\ pass' = pass /\ UNCHANGED <<indent, row, gaps>>
<1>1. UNCHANGED <<indent, row, pass, gaps>>
  BY DEF StockStep, OtherBooks, OtherReleases, Arrives
<1>2. \A d : Targeted(d) /\ d # 0 => KeptRow(d)
  BY <1>1 DEF KeptRow
<1> QED
  BY <1>1, <1>2, AimSteady DEF AimInv, OnlyClosed

-----------------------------------------------------------------------------
(* What is promised to an indent, step by step.                            *)

Promised(r) == Owed(r) + Received(r) + Claimed(r)
Unanswered == {"deleted", "outdated", "overwritten", "torn", "died"}

\* A step keeps the promise to every indent, or lowers it where indents were closed.
PromiseKept ==
  gaps' \cap Unanswered = {} =>
    \A r \in Indent : \/ Promised(r)' = Promised(r)
                      \/ "closed" \in gaps' /\ Promised(r)' <= Promised(r)

LEMMA PromisedIsNat ==
  ASSUME IInv
  PROVE  \A r \in Indent : Owed(r) \in Nat /\ Received(r) \in Nat /\ Claimed(r) \in Nat /\ Promised(r) \in Nat
<1> SUFFICES ASSUME NEW r \in Indent
             PROVE  Owed(r) \in Nat /\ Received(r) \in Nat /\ Claimed(r) \in Nat /\ Promised(r) \in Nat
  OBVIOUS
<1>1. Owed(r) \in Nat
  BY DEF Owed, IInv, DocTypes, IndentDoc
<1>2. Received(r) \in Nat /\ Claimed(r) \in Nat
  BY SumsAreNat
<1> QED
  BY <1>1, <1>2 DEF Promised

LEMMA OwedStep ==
  ASSUME IInv, IInv', OwedOnce, gaps \subseteq gaps', PromiseKept
  PROVE  OwedOnce'
<1> SUFFICES ASSUME gaps' \cap Unanswered = {}, NEW r \in Indent
             PROVE  Promised(r)' <= Asked[r] /\ ("closed" \notin gaps' => Promised(r)' = Asked[r])
  BY DEF OwedOnce, Promised, Unanswered
<1>1. Promised(r) <= Asked[r] /\ ("closed" \notin gaps => Promised(r) = Asked[r])
  BY DEF OwedOnce, Promised, Unanswered
<1>2. Promised(r) \in Nat /\ Promised(r)' \in Nat /\ Asked[r] \in Nat
  <2>1. Promised(r) \in Nat
    BY PromisedIsNat
  <2>2. Promised(r)' \in Nat
    <3>1. Owed(r)' \in Nat
      BY DEF Owed, Open, IInv, DocTypes, IndentDoc
    <3>2. InwardOf(row', r) \in [RowId -> Nat] /\ ClaimOf(pass', r) \in [Worker -> Nat]
      BY ClaimByIsNat DEF InwardOf, ClaimOf, IInv, DocTypes, RowDoc
    <3>3. Received(r)' \in Nat /\ Claimed(r)' \in Nat
      BY <3>2, Sums, SizeIsNat, AllocationAssumption
    <3> QED
      BY <3>1, <3>3 DEF Promised
  <2>3. Asked[r] \in Nat
    BY AllocationAssumption
  <2> QED
    BY <2>1, <2>2, <2>3
<1>3. \/ Promised(r)' = Promised(r)
      \/ "closed" \in gaps' /\ Promised(r)' <= Promised(r)
  BY DEF PromiseKept
<1> QED
  BY <1>1, <1>2, <1>3

LEMMA SameOwed ==
  ASSUME NEW r \in Indent, indent'[r] = indent[r]
  PROVE  Owed(r)' = Owed(r)
  BY DEF Owed, Open

\* The steps of a pass that leave indents, rows and claims as they are.
LEMMA QuietPromise ==
  ASSUME IInv, NEW w \in Worker, Moves(w), \A r \in Indent : SameClaim(w, r), UNCHANGED <<indent, row>>
  PROVE  PromiseKept
<1>1. pass \in [Worker -> PassState]
  BY DEF IInv, DocTypes
<1>2. ASSUME NEW r \in Indent PROVE Promised(r)' = Promised(r)
  <2>1. Owed(r)' = Owed(r)
    BY SameOwed
  <2>2. Received(r)' = Received(r)
    BY SameRows
  <2>3. Claimed(r)' = Claimed(r)
    <3>1. /\ Claimed(r)' = Claimed(r) + ClaimBy(pass'[w], r) - ClaimBy(pass[w], r)
          /\ Claimed(r) \in Nat /\ ClaimBy(pass'[w], r) = ClaimBy(pass[w], r)
      BY <1>1, ClaimStep DEF SameClaim
    <3>2. ClaimBy(pass[w], r) \in Nat
      BY <1>1, ClaimByIsNat
    <3> QED
      BY <3>1, <3>2
  <2> QED
    BY <2>1, <2>2, <2>3 DEF Promised
<1> QED
  BY <1>2 DEF PromiseKept

\* One worker's step moves n units between what indent x is owed and its claim.
LEMMA ClaimMoves ==
  ASSUME IInv, NEW w \in Worker, Moves(w), NEW x \in Indent, row' = row,
         \A r \in Indent \ {x} : SameClaim(w, r) /\ indent'[r] = indent[r],
         gaps' \cap Unanswered = {} =>
           Owed(x)' + ClaimBy(pass'[w], x) = Owed(x) + ClaimBy(pass[w], x),
         Owed(x)' \in Nat
  PROVE  PromiseKept
<1> SUFFICES ASSUME gaps' \cap Unanswered = {}, NEW r \in Indent PROVE Promised(r)' = Promised(r)
  BY DEF PromiseKept
<1>1. pass \in [Worker -> PassState] /\ pass' \in [Worker -> PassState]
  BY DEF IInv, DocTypes, Moves
<1>2. Received(r)' = Received(r) /\ Received(r) \in Nat /\ Owed(r) \in Nat
  BY SameRows, PromisedIsNat
<1>3. /\ Claimed(r)' = Claimed(r) + ClaimBy(pass'[w], r) - ClaimBy(pass[w], r)
      /\ Claimed(r) \in Nat /\ ClaimBy(pass'[w], r) \in Nat /\ ClaimBy(pass[w], r) \in Nat
  BY <1>1, ClaimStep, ClaimByIsNat
<1>4. Owed(r)' + ClaimBy(pass'[w], r) = Owed(r) + ClaimBy(pass[w], r) /\ Owed(r)' \in Nat
  <2>1. CASE r = x
    BY <2>1
  <2>2. CASE r # x
    <3>1. Owed(r)' = Owed(r) /\ ClaimBy(pass'[w], r) = ClaimBy(pass[w], r)
      BY <2>2, SameOwed DEF SameClaim
    <3> QED
      BY <1>2, <3>1
  <2> QED
    BY <2>1, <2>2
<1> QED
  BY <1>2, <1>3, <1>4 DEF Promised

LEMMA ClaimPromise ==
  ASSUME IInv, IInv', NEW w \in Worker, NEW x \in Indent, ClaimOne(w, x), row' = row
  PROVE  PromiseKept /\ gaps \subseteq gaps'
<1> DEFINE item == pass[w].item[x]
           doc == indent[x]
<1>1. /\ doc \in IndentDoc /\ item.doc \in IndentDoc /\ item.take \in Nat
      /\ item.take > 0 /\ item.take <= item.doc.qty
  BY TakeIsNat DEF IInv, DocTypes, ClaimOne, Meant, Item
<1>2. /\ Open(x) /\ indent'[x] = AfterClaim(doc, item)
      /\ \A r \in Indent \ {x} : indent'[r] = indent[r]
  BY DEF ClaimOne, Claimable, IInv, DocTypes
<1>3. "outdated" \notin gaps' => doc.qty = item.doc.qty
  BY DEF ClaimOne, Claimable
<1>4. ClaimBy(pass[w], x) = 0 /\ ClaimBy(pass'[w], x) = item.take
  BY DEF ClaimOne
<1>5. Owed(x) = doc.qty /\ doc.qty \in Nat
  BY <1>1, <1>2 DEF Owed, IndentDoc
<1>6. Owed(x)' = (IF item.take >= item.doc.qty THEN 0 ELSE doc.qty - item.take)
  <2>1. Owed(x)' = IF indent'[x].status \in OpenStatus THEN indent'[x].qty ELSE 0
    BY DEF Owed, Open
  <2> HIDE DEF item, doc
  <2>2. CASE item.take >= item.doc.qty
    <3>1. indent'[x].status = "Confirmed"
      BY <1>1, <1>2, <2>2 DEF AfterClaim, IndentDoc
    <3> QED
      BY <2>1, <2>2, <3>1 DEF OpenStatus
  <2>3. CASE ~(item.take >= item.doc.qty)
    <3> DEFINE left == doc.qty - item.take
    <3>0. indent'[x] = [status |-> "Partially Confirmed", qty |-> left]
      BY <1>2, <2>3, Zenon DEF AfterClaim
    <3> HIDE DEF left
    <3>1. indent'[x].status = "Partially Confirmed" /\ indent'[x].qty = left
      <4>1. [status |-> "Partially Confirmed", qty |-> left].status = "Partially Confirmed"
        OBVIOUS
      <4>2. [status |-> "Partially Confirmed", qty |-> left].qty = left
        OBVIOUS
      <4> QED
        BY <3>0, <4>1, <4>2, Zenon
    <3>2. Owed(x)' = left
      BY <2>1, <3>1 DEF OpenStatus
    <3> QED
      BY <2>3, <3>2, Zenon DEF left
  <2> QED
    BY <2>2, <2>3
<1>7. Moves(w) /\ \A r \in Indent \ {x} : SameClaim(w, r)
  BY DEF ClaimOne
<1>8. gaps \subseteq gaps'
  BY DEF ClaimOne
<1>9. "outdated" \in Unanswered
  BY DEF Unanswered
<1> HIDE DEF item, doc
<1>10. Owed(x)' \in Nat
  BY DEF Owed, Open, IInv, DocTypes, IndentDoc
<1>11. gaps' \cap Unanswered = {} =>
         Owed(x)' + ClaimBy(pass'[w], x) = Owed(x) + ClaimBy(pass[w], x)
  <2> SUFFICES ASSUME "outdated" \notin gaps' PROVE Owed(x)' + item.take = Owed(x) + 0
    BY <1>4, <1>9
  <2>1. item.doc.qty \in Nat /\ doc.qty = item.doc.qty
    BY <1>3, <1>5
  <2> QED
    BY <1>1, <1>5, <1>6, <2>1
<1>12. PromiseKept
  BY <1>2, <1>7, <1>10, <1>11, ClaimMoves
<1> QED
  BY <1>8, <1>12

LEMMA RestorePromise ==
  ASSUME IInv, IInv', NEW w \in Worker, NEW x, RestoreOne(w, x), row' = row
  PROVE  PromiseKept /\ gaps \subseteq gaps'
<1> DEFINE item == pass[w].item[x]
           doc == indent[x]
<1>0. x \in Indent
  BY DEF RestoreOne
<1>1. /\ doc \in IndentDoc /\ item \in Item /\ item.doc \in IndentDoc /\ item.take \in Nat
      /\ item.take > 0 /\ item.take <= item.doc.qty /\ item.doc.status \in OpenStatus /\ item.doc.qty \in Nat
  <2>1. item \in Item /\ Meant(item) /\ item.take > 0 /\ doc \in IndentDoc
    BY <1>0 DEF RestoreOne, IInv, DocTypes
  <2>2. item # NoItem
    BY <2>1 DEF NoItem
  <2> QED
    BY <2>1, <2>2, TakeIsNat DEF Meant, Item, IndentDoc
<1>2. /\ indent'[x] = Restored(doc, item) /\ \A r \in Indent \ {x} : indent'[r] = indent[r]
      /\ (item.fresh => item.take = item.doc.qty)
  BY <1>0, <1>1 DEF RestoreOne, WholeIfFresh, IInv, DocTypes
<1>3. "overwritten" \notin gaps' => doc = AfterClaim(item.doc, item)
  BY DEF RestoreOne, Overtaken
<1>4. ClaimBy(pass'[w], x) = 0 /\ ClaimBy(pass[w], x) = item.take
  BY DEF RestoreOne
<1>5. /\ Owed(x) = IF doc.status \in OpenStatus THEN doc.qty ELSE 0
      /\ Owed(x)' = IF indent'[x].status \in OpenStatus THEN indent'[x].qty ELSE 0
  BY DEF Owed, Open
<1>6. Moves(w) /\ \A r \in Indent \ {x} : SameClaim(w, r)
  BY DEF RestoreOne
<1>7. gaps \subseteq gaps'
  BY DEF RestoreOne
<1>8. "overwritten" \in Unanswered
  BY DEF Unanswered
<1>9. Owed(x)' \in Nat
  BY <1>0, <1>5 DEF IInv, DocTypes, IndentDoc
<1> HIDE DEF item, doc
<1>10. gaps' \cap Unanswered = {} =>
         Owed(x)' + ClaimBy(pass'[w], x) = Owed(x) + ClaimBy(pass[w], x)
  <2> SUFFICES ASSUME "overwritten" \notin gaps' PROVE Owed(x)' + 0 = Owed(x) + item.take
    BY <1>4, <1>8
  <2>1. Owed(x) = item.doc.qty - item.take
    <3>1. CASE item.take >= item.doc.qty
      <4>0. doc = [item.doc EXCEPT !.status = "Confirmed"]
        BY <1>3, <3>1, Zenon DEF AfterClaim
      <4>1. doc.status = "Confirmed"
        BY <1>1, <4>0 DEF IndentDoc
      <4>2. Owed(x) = 0
        BY <1>5, <4>1 DEF OpenStatus
      <4>3. item.take = item.doc.qty
        BY <1>1, <3>1
      <4> QED
        BY <1>1, <4>2, <4>3
    <3>2. CASE ~(item.take >= item.doc.qty)
      <4>0. doc = [status |-> "Partially Confirmed", qty |-> item.doc.qty - item.take]
        BY <1>3, <3>2, Zenon DEF AfterClaim
      <4>1. doc.status = "Partially Confirmed" /\ doc.qty = item.doc.qty - item.take
        BY <4>0
      <4> QED
        BY <1>1, <1>5, <4>1 DEF OpenStatus
    <3> QED
      BY <3>1, <3>2
  <2>2. Owed(x)' = item.doc.qty
    <3>1. CASE item.fresh
      <4>1. item.take >= item.doc.qty
        BY <1>1, <1>2, <3>1
      <4>2. doc.qty = item.doc.qty
        BY <1>1, <1>3, <4>1 DEF AfterClaim, IndentDoc
      <4>3. indent'[x].status = item.doc.status /\ indent'[x].qty = doc.qty
        BY <1>1, <1>2, <3>1 DEF Restored, IndentDoc
      <4> QED
        BY <1>1, <1>5, <4>2, <4>3
    <3>2. CASE ~item.fresh
      <4>1. indent'[x] = item.doc
        BY <1>2, <3>2 DEF Restored
      <4> QED
        BY <1>1, <1>5, <4>1
    <3> QED
      BY <3>1, <3>2
  <2> QED
    BY <1>1, <2>1, <2>2
<1>11. PromiseKept
  BY <1>0, <1>2, <1>6, <1>9, <1>10, ClaimMoves
<1> QED
  BY <1>7, <1>11

LEMMA WritePromise ==
  ASSUME IInv, NEW w \in Worker, WriteAll(w), indent' = indent
  PROVE  PromiseKept
<1> SUFFICES ASSUME gaps' \cap Unanswered = {}, NEW r \in Indent PROVE Promised(r)' = Promised(r)
  BY DEF PromiseKept
<1>1. pass \in [Worker -> PassState] /\ Moves(w)
  BY DEF IInv, DocTypes, WriteAll
<1>2. "deleted" \notin gaps
  BY DEF WriteAll, Unanswered
<1>3. Received(r)' = Received(r) + ClaimBy(pass[w], r) /\ ClaimBy(pass'[w], r) = 0
  BY <1>2 DEF WriteAll
<1>4. /\ Claimed(r)' = Claimed(r) + ClaimBy(pass'[w], r) - ClaimBy(pass[w], r)
      /\ ClaimBy(pass[w], r) \in Nat
  BY <1>1, ClaimStep, ClaimByIsNat
<1>5. Owed(r)' = Owed(r) /\ Owed(r) \in Nat /\ Received(r) \in Nat /\ Claimed(r) \in Nat
  BY SameOwed, PromisedIsNat
<1> QED
  BY <1>3, <1>4, <1>5 DEF Promised

\* Indents are closed: nothing more is owed for them.
LEMMA ClosedPromise ==
  ASSUME IInv, Closes, pass' = pass, \A r : Received(r)' = Received(r)
  PROVE  PromiseKept
<1> SUFFICES ASSUME NEW r \in Indent
             PROVE  \/ Promised(r)' = Promised(r)
                    \/ "closed" \in gaps' /\ Promised(r)' <= Promised(r)
  BY DEF PromiseKept
<1>1. Owed(r) \in Nat /\ Received(r) \in Nat /\ Claimed(r) \in Nat
  BY PromisedIsNat
<1>2. Received(r)' = Received(r) /\ Claimed(r)' = Claimed(r)
  BY SamePass
<1>3. CASE indent'[r] = indent[r]
  BY <1>2, <1>3, SameOwed DEF Promised
<1>4. CASE "closed" \in gaps' /\ indent'[r].status = "Cancelled"
  <2>1. Owed(r)' = 0
    BY <1>4 DEF Owed, Open, OpenStatus
  <2> QED
    BY <1>1, <1>2, <1>4, <2>1 DEF Promised
<1> QED
  BY <1>3, <1>4 DEF Closes

\* A row gives up what its indent is owed again.
LEMMA GivenUpPromise ==
  ASSUME IInv, IInv', NEW d \in RowId, NEW q, GivesUp(d, q), pass' = pass,
         \/ \A x \in Indent : Owed(x)' = Owed(x) + (IF x = row[d].r THEN q ELSE 0)
         \/ "closed" \in gaps' /\ \A x \in Indent : Owed(x)' = Owed(x)
  PROVE  PromiseKept
<1> SUFFICES ASSUME NEW r \in Indent
             PROVE  \/ Promised(r)' = Promised(r)
                    \/ "closed" \in gaps' /\ Promised(r)' <= Promised(r)
  BY DEF PromiseKept
<1>1. Owed(r) \in Nat /\ Received(r) \in Nat /\ Claimed(r) \in Nat
  BY PromisedIsNat
<1>2. /\ Received(r)' = Received(r) - (IF row[d].r = r THEN q ELSE 0) /\ Claimed(r)' = Claimed(r)
      /\ q \in Nat
  BY RowGivesUp, SamePass DEF GivesUp
<1>3. CASE \A x \in Indent : Owed(x)' = Owed(x) + (IF x = row[d].r THEN q ELSE 0)
  BY <1>1, <1>2, <1>3 DEF Promised
<1>4. CASE "closed" \in gaps' /\ \A x \in Indent : Owed(x)' = Owed(x)
  BY <1>1, <1>2, <1>4 DEF Promised
<1> QED
  BY <1>3, <1>4

\* Every step of a pass: the aim is kept, and so is the promise.
LEMMA PassPromise ==
  ASSUME IInv, IInv', AimInv, NEW w \in Worker, PassStep(w)
  PROVE  AimInv' /\ gaps \subseteq gaps' /\ PromiseKept
<1>1. CASE Lists(w) \/ PassDecides(w) \/ (\E r \in Indent : ReadsIndent(w, r)) \/ AssignmentDecides(w)
           \/ JobStarts(w)
  <2>1. Quiet(w) /\ AimInv'
    BY <1>1, ListsEffect, PassDecidesEffect, ReadsIndentEffect, AssignmentDecidesEffect, JobStartsEffect
  <2>2. UNCHANGED <<indent, row, gaps>>
    BY <1>1 DEF Lists, PassDecides, ReadsIndent, AssignmentDecides, JobStarts
  <2> QED
    BY <2>1, <2>2, QuietPromise DEF Quiet
<1>2. CASE Claims(w)
  <2>1. row' = row
    BY <1>2 DEF Claims
  <2>2. CASE Quiet(w) /\ UNCHANGED <<indent, gaps>>
    BY <1>2, <2>1, <2>2, ClaimsEffect, QuietPromise DEF Quiet
  <2>3. CASE \E r \in Indent : ClaimOne(w, r)
    BY <1>2, <2>1, <2>3, ClaimsEffect, ClaimPromise
  <2> QED
    BY <1>2, <2>2, <2>3, ClaimsEffect
<1>3. CASE TakesStock(w)
  <2>1. UNCHANGED <<indent, row, gaps>>
    BY <1>3 DEF TakesStock
  <2>2. AimInv' /\ Moves(w) /\ \A r \in Indent : SameClaim(w, r)
    BY <1>3, TakesStockEffect DEF Quiet, TakeOne
  <2> QED
    BY <2>1, <2>2, QuietPromise
<1>4. CASE RestoresIndent(w)
  <2>1. row' = row
    BY <1>4 DEF RestoresIndent
  <2> QED
    BY <1>4, <2>1, RestoresIndentEffect, RestorePromise
<1>5. CASE JobWrites(w)
  <2>1. indent' = indent
    BY <1>5 DEF JobWrites
  <2>2. AimInv' /\ WriteAll(w)
    BY <1>5, JobWritesEffect
  <2> QED
    BY <2>1, <2>2, WritePromise DEF WriteAll
<1>6. CASE WriteFails(w)
  <2>1. indent' = indent
    BY <1>6 DEF WriteFails
  <2>2. /\ AimInv' /\ Quiet(w) /\ gaps \subseteq gaps'
        /\ "torn" \notin gaps' => UNCHANGED <<row, gaps>>
    BY <1>6, WriteFailsEffect
  <2>3. CASE "torn" \in gaps'
    BY <2>2, <2>3 DEF PromiseKept, Unanswered
  <2>4. CASE "torn" \notin gaps'
    BY <2>1, <2>2, <2>4, QuietPromise DEF Quiet
  <2> QED
    BY <2>2, <2>3, <2>4
<1>7. CASE Unwinds(w)
  <2>1. UNCHANGED <<indent, row, gaps>>
    BY <1>7 DEF Unwinds
  <2>2. AimInv' /\ Moves(w) /\ \A r \in Indent : SameClaim(w, r)
    BY <1>7, UnwindsEffect DEF GiveBackOne
  <2> QED
    BY <2>1, <2>2, QuietPromise
<1>8. CASE PassDies(w)
  <2>1. UNCHANGED <<indent, row>>
    BY <1>8 DEF PassDies
  <2>2. AimInv' /\ gaps \subseteq gaps' /\ ("died" \notin gaps' => Quiet(w))
    BY <1>8, PassDiesEffect
  <2>3. CASE "died" \in gaps'
    BY <2>2, <2>3 DEF PromiseKept, Unanswered
  <2>4. CASE "died" \notin gaps'
    BY <2>1, <2>2, <2>4, QuietPromise DEF Quiet
  <2> QED
    BY <2>2, <2>3, <2>4
<1> QED
  BY <1>1, <1>2, <1>3, <1>4, <1>5, <1>6, <1>7, <1>8 DEF PassStep

\* And every step of the bookings, the desk and the shelf.
LEMMA OtherPromise ==
  ASSUME IInv, IInv', AimInv, BookingStep \/ StockStep
  PROVE  AimInv' /\ gaps \subseteq gaps' /\ PromiseKept
<1>1. ASSUME NEW b \in Booking \cup Fresh, PoConsumes(b)
      PROVE  AimInv' /\ gaps \subseteq gaps' /\ PromiseKept
  <2>1. AimInv' /\ pass' = pass /\ gaps \subseteq gaps' /\ indent' = indent /\ \A r : Received(r)' = Received(r)
    BY <1>1, PoConsumesEffect DEF PoSums
  <2>2. Closes
    BY <2>1 DEF Closes
  <2> QED
    BY <2>1, <2>2, ClosedPromise
<1>2. ASSUME NEW b \in Booking \cup Fresh, BookingCancelled(b)
      PROVE  AimInv' /\ gaps \subseteq gaps' /\ PromiseKept
  <2>1. AimInv' /\ pass' = pass /\ Closes /\ \A r : Received(r)' = Received(r)
    BY <1>2, BookingCancelledEffect DEF CancelSums
  <2> QED
    BY <2>1, ClosedPromise DEF Closes
<1>3. ASSUME NEW r \in Indent, DeskCancelsIndent(r)
      PROVE  AimInv' /\ gaps \subseteq gaps' /\ PromiseKept
  <2>1. AimInv' /\ pass' = pass /\ Closes /\ row' = row
    BY <1>3, DeskCancelsIndentEffect
  <2>2. \A x : Received(x)' = Received(x)
    BY <2>1, SameRows
  <2> QED
    BY <2>1, <2>2, ClosedPromise DEF Closes
<1>4. ASSUME NEW d \in RowId, NEW q \in 1..MaxQty, AllocationCancelled(d, q)
      PROVE  AimInv' /\ gaps \subseteq gaps' /\ PromiseKept
  <2>1. AimInv' /\ AllocCancel(d, q)
    BY <1>4, AllocationCancelledEffect
  <2>2. gaps' = gaps /\ pass' = pass /\ GivesUp(d, q)
    BY <2>1 DEF AllocCancel
  <2>3. \/ \A x \in Indent : Owed(x)' = Owed(x) + (IF x = row[d].r THEN q ELSE 0)
        \/ "closed" \in gaps' /\ \A x \in Indent : Owed(x)' = Owed(x)
    BY <2>1, <2>2 DEF AllocCancel
  <2> QED
    BY <2>1, <2>2, <2>3, GivenUpPromise
<1>5. ASSUME NEW d \in RowId, NEW q \in 1..MaxQty, AllocationMoved(d, q)
      PROVE  AimInv' /\ gaps \subseteq gaps' /\ PromiseKept
  <2>1. AimInv' /\ AllocMove(d, q)
    BY <1>5, AllocationMovedEffect
  <2>2. gaps \subseteq gaps' /\ pass' = pass /\ GivesUp(d, q)
        /\ \A x \in Indent : Owed(x)' = Owed(x) + (IF x = row[d].r THEN q ELSE 0)
    BY <2>1 DEF AllocMove
  <2> QED
    BY <2>1, <2>2, GivenUpPromise
<1>6. CASE StockStep
  <2>1. AimInv' /\ pass' = pass /\ UNCHANGED <<indent, row, gaps>>
    BY <1>6, StockStepAims
  <2>2. Closes /\ \A r : Received(r)' = Received(r)
    BY <2>1, SameRows DEF Closes
  <2> QED
    BY <2>1, <2>2, ClosedPromise
<1> QED
  BY <1>1, <1>2, <1>3, <1>4, <1>5, <1>6 DEF BookingStep

LEMMA StandingStill ==
  ASSUME IInv, AimInv, UNCHANGED vars
  PROVE  AimInv' /\ gaps \subseteq gaps' /\ PromiseKept
<1>1. UNCHANGED <<stock, indent, row, pass, gaps>>
  BY DEF vars
<1>2. \A d : Targeted(d) /\ d # 0 => KeptRow(d)
  BY <1>1 DEF KeptRow
<1>3. AimInv'
  BY <1>1, <1>2, AimSteady DEF AimInv, OnlyClosed
<1>4. Closes /\ \A r : Received(r)' = Received(r)
  BY <1>1, SameRows DEF Closes
<1> QED
  BY <1>1, <1>3, <1>4, ClosedPromise

LEMMA PromiseHolds ==
  ASSUME IInv, IInv', AimInv, OwedOnce, [Next]_vars
  PROVE  AimInv' /\ OwedOnce'
<1>1. AimInv' /\ gaps \subseteq gaps' /\ PromiseKept
  BY PassPromise, OtherPromise, StandingStill DEF Next
<1> QED
  BY <1>1, OwedStep

-----------------------------------------------------------------------------
\* At the start nothing is in hand, and nothing has come in on any row.
LEMMA FirstRows ==
  ASSUME Init
  PROVE  \A d \in RowId : row[d].inward = 0 /\ row[d].stock # "consumed"
<1> SUFFICES ASSUME NEW d \in RowId PROVE row[d].inward = 0 /\ row[d].stock # "consumed"
  OBVIOUS
<1> DEFINE taken == \E r \in Supplied : Cardinality({x \in Supplied : x <= r}) = d
           r == CHOOSE x \in Supplied : Cardinality({y \in Supplied : y <= x}) = d
           line == [b |-> Parent[r], r |-> r, qty |-> Confirmed[r], inward |-> 0, stock |-> "reserved"]
<1>1. row[d] = IF taken THEN line ELSE NoRow
  BY DEF Init
<1> HIDE DEF taken
<1>2. line.inward = 0 /\ line.stock = "reserved"
  OBVIOUS
<1>3. NoRow.inward = 0 /\ NoRow.stock = "none"
  BY DEF NoRow
<1> HIDE DEF line
<1>4. CASE taken
  BY <1>1, <1>2, <1>4
<1>5. CASE ~taken
  BY <1>1, <1>3, <1>5
<1> QED
  BY <1>4, <1>5

LEMMA FirstHands ==
  ASSUME Init
  PROVE  (\A r \in Indent : Claimed(r) = 0) /\ (\A s, c : InHand(s, c) = 0)
<1>1. \A w \in Worker : pass[w] = Idle
  BY DEF Init
<1>2. Idle.hand = {} /\ Idle.at = 0
  BY DEF Idle
<1>3. \A r \in Indent : \A w \in Worker : ClaimOf(pass, r)[w] = 0
  BY <1>1, <1>2, AllocationAssumption DEF ClaimOf, ClaimBy
<1>4. \A s, c : \A wr \in Worker \X Indent : HandOf(pass, s, c)[wr] = 0
  BY <1>1, <1>2 DEF HandOf, HandBy
<1>5. \A r \in Indent : Claimed(r) = 0
  BY <1>3, Sums, SizeNone
<1>6. \A s, c : InHand(s, c) = 0
  BY <1>4, Sums, SizeNone
<1> QED
  BY <1>5, <1>6

LEMMA FirstAim ==
  ASSUME Init
  PROVE  AimInv /\ OwedOnce
<1>1. \A w \in Worker : pass[w] = Idle
  BY DEF Init
<1>2. Well(Idle) /\ \A r \in Indent : Idle.item[r] = NoItem
  BY IdleWell
<1>3. PassOrder /\ RowAim
  BY <1>1, <1>2, NoItemMeant DEF PassOrder, RowAim, Aimed, Well
<1>4. \A r \in Indent : indent[r].status \in OpenStatus /\ indent[r].qty = Asked[r]
  BY DEF Init, OpenStatus
<1>5. OnlyClosed
  BY <1>4 DEF OnlyClosed, OpenStatus
<1>6. \A r \in Indent : Received(r) = 0
  <2>1. ASSUME NEW r \in Indent PROVE \A d \in RowId : InwardOf(row, r)[d] = 0
    BY FirstRows DEF InwardOf
  <2> QED
    BY <2>1, Sums, SizeNone
<1>7. \A r \in Indent : Owed(r) + Received(r) + Claimed(r) = Asked[r]
  <2> SUFFICES ASSUME NEW r \in Indent PROVE Owed(r) + Received(r) + Claimed(r) = Asked[r]
    OBVIOUS
  <2>1. Owed(r) = Asked[r] /\ Asked[r] \in Nat
    BY <1>4, AllocationAssumption DEF Owed, Open
  <2>2. Received(r) = 0 /\ Claimed(r) = 0
    BY <1>6, FirstHands
  <2> QED
    BY <2>1, <2>2
<1>8. OwedOnce
  <2>1. \A r \in Indent : Asked[r] \in Nat
    BY AllocationAssumption
  <2> QED
    BY <1>7, <2>1 DEF OwedOnce
<1> QED
  BY <1>3, <1>5, <1>8 DEF AimInv

\* The units of an indent are promised once: what it still waits for, what lines got
\* from it and what passes hold for it are together what it asked for.
THEOREM AlwaysOwedOnce == Spec => []OwedOnce
<1>1. Init => IInv /\ AimInv /\ OwedOnce
  BY InitHolds, FirstAim
<1>2. IInv /\ AimInv /\ OwedOnce /\ [Next]_vars => (IInv /\ AimInv /\ OwedOnce)'
  BY StepHolds, PromiseHolds
<1> QED
  BY <1>1, <1>2, PTL DEF Spec

-----------------------------------------------------------------------------
(* The counters, step by step.                                             *)

\* The units of SKU s in hand that are booked, and those that are issued.
BookedHand(s) == InHand(s, FALSE)
IssuedHand(s) == InHand(s, TRUE)

\* The same in the hand of one worker.
BookedOf(p, s) == HandSum(p, s, FALSE)
IssuedOf(p, s) == HandSum(p, s, TRUE)

\* What the counters of SKU s cover, and where its units are.
Covered(s) ==
  /\ Balanced(stock[s])
  /\ stock[s].booked >= Quantity(RowsIn("reserved"), s) + BookedHand(s) + elsewhere[s]
Followed(s) ==
  /\ stock[s].booked = Quantity(RowsIn("reserved"), s) + BookedHand(s) + elsewhere[s]
  /\ stock[s].avail + stock[s].booked + Quantity(RowsIn("consumed"), s) + IssuedHand(s)
       = Opening(s) + arrived[s]
Crossing == {"crossed", "deleted", "torn", "died"}

\* A step keeps both, short of the events that break them.
CoverKept == "torn" \notin gaps' => \A s \in Sku : Covered(s) => Covered(s)'
FollowKept == gaps' \cap Crossing = {} => \A s \in Sku : Followed(s) => Followed(s)'

LEMMA Counts ==
  ASSUME IInv, NEW s \in Sku
  PROVE  /\ stock[s] \in [avail : Nat, booked : Int, total : Int]
         /\ stock[s].avail \in Int /\ stock[s].booked \in Int /\ stock[s].total \in Int
         /\ Quantity(RowsIn("reserved"), s) \in Nat /\ Quantity(RowsIn("consumed"), s) \in Nat
         /\ BookedHand(s) \in Nat /\ IssuedHand(s) \in Nat
         /\ elsewhere[s] \in Nat /\ arrived[s] \in Nat /\ Opening(s) \in Int
<1>1. stock[s] \in [avail : Nat, booked : Int, total : Int]
  BY DEF IInv, ShelfInv
<1>2. elsewhere[s] \in Nat /\ arrived[s] \in Nat
  BY AllocationAssumption DEF IInv, DocTypes
<1>3. Opening(s) \in Int
  <2>1. Total(LAMBDA r : Confirmed[r], {r \in Supplied : SkuOf[r] = s}) \in Nat
    BY SupplyIsNat
  <2>2. Stock[s] \in Nat
    BY AllocationAssumption
  <2> DEFINE n == Total(LAMBDA r : Confirmed[r], {r \in Supplied : SkuOf[r] = s})
  <2>3. Opening(s) = Stock[s] + n /\ n \in Nat
    BY <2>1 DEF Opening
  <2> HIDE DEF n
  <2> QED
    BY <2>2, <2>3
<1>4. BookedHand(s) \in Nat /\ IssuedHand(s) \in Nat
  BY SumsAreNat, Zenon DEF BookedHand, IssuedHand
<1>5. Quantity(RowsIn("reserved"), s) \in Nat /\ Quantity(RowsIn("consumed"), s) \in Nat
  BY SumsAreNat
<1> QED
  BY <1>1, <1>2, <1>3, <1>4, <1>5

\* The counters are what the helpers make of them.
LEMMA ReleasedCounters ==
  ASSUME NEW p \in [avail : Nat, booked : Int, total : Int], NEW n \in Nat, p.booked >= n
  PROVE  /\ Release(p, n).avail = p.avail + n /\ Release(p, n).booked = p.booked - n
         /\ Release(p, n).total = p.total /\ Release(p, n) \in [avail : Nat, booked : Int, total : Int]
<1>1. BookedPart(p, n) = n
  BY DEF BookedPart, LesserOf, GreaterOf
<1> QED
  BY <1>1 DEF Release

LEMMA ConsumedCounters ==
  ASSUME NEW p \in [avail : Nat, booked : Int, total : Int], NEW n \in Nat, p.booked >= n
  PROVE  /\ Consume(p, n).avail = p.avail /\ Consume(p, n).booked = p.booked - n
         /\ Consume(p, n).total = p.total - n
<1>1. BookedPart(p, n) = n
  BY DEF BookedPart, LesserOf, GreaterOf
<1> QED
  BY <1>1 DEF Consume

LEMMA TakenBackCounters ==
  ASSUME NEW p \in [avail : Nat, booked : Int, total : Int], NEW n \in Nat
  PROVE  /\ TakeBack(p, n).avail = p.avail + n /\ TakeBack(p, n).booked = p.booked
         /\ TakeBack(p, n).total = p.total + n
  BY DEF TakeBack

LEMMA ReservedCounters ==
  ASSUME NEW p \in [avail : Nat, booked : Int, total : Int], NEW n \in Nat
  PROVE  /\ Reserve(p, n).avail = p.avail - n /\ Reserve(p, n).booked = p.booked + n
         /\ Reserve(p, n).total = p.total
  BY DEF Reserve

LEMMA IssuedCounters ==
  ASSUME NEW p \in [avail : Nat, booked : Int, total : Int], NEW n \in Nat
  PROVE  /\ IssueMore(p, n).avail = p.avail - n /\ IssueMore(p, n).booked = p.booked
         /\ IssueMore(p, n).total = p.total - n
  BY DEF IssueMore

\* All these are numbers after a step, too.
LEMMA CountsNext ==
  ASSUME IInv', NEW s \in Sku
  PROVE  /\ stock'[s].avail \in Int /\ stock'[s].booked \in Int /\ stock'[s].total \in Int
         /\ Quantity(RowsIn("reserved"), s)' \in Nat /\ Quantity(RowsIn("consumed"), s)' \in Nat
         /\ BookedHand(s)' \in Nat /\ IssuedHand(s)' \in Nat
         /\ elsewhere'[s] \in Nat /\ arrived'[s] \in Nat
<1>1. IsFiniteSet(RowId) /\ IsFiniteSet(Worker) /\ IsFiniteSet(Worker \X Indent)
  BY AllocationAssumption, FS_Product
<1>2. \A st : QtyOf(row', st, s) \in [RowId -> Nat]
  BY DEF QtyOf, IInv, DocTypes, RowDoc
<1>3. \A c : HandOf(pass', s, c) \in [Worker \X Indent -> Nat]
  BY HandByIsNat DEF HandOf, IInv, DocTypes
<1>4. \A st : Quantity(RowsIn(st), s)' \in Nat
  BY <1>1, <1>2, Sums, SizeIsNat
<1>5. \A c : InHand(s, c)' \in Nat
  BY <1>1, <1>3, Sums, SizeIsNat
<1>6. BookedHand(s)' \in Nat /\ IssuedHand(s)' \in Nat
  BY <1>5, Zenon DEF BookedHand, IssuedHand
<1>7. elsewhere'[s] \in Nat /\ arrived'[s] \in Nat
  BY AllocationAssumption DEF IInv, DocTypes
<1>8. stock'[s].avail \in Int /\ stock'[s].booked \in Int /\ stock'[s].total \in Int
  BY DEF IInv, ShelfInv
<1> QED
  BY <1>4, <1>6, <1>7, <1>8

\* What the counters are out of balance, the booked units beyond those needed, and
\* the units there are less those that came in.
Off(s) == stock[s].avail + stock[s].booked - stock[s].total
Spare(s) == stock[s].booked - Quantity(RowsIn("reserved"), s) - BookedHand(s) - elsewhere[s]
Whole(s) ==
  stock[s].avail + stock[s].booked + Quantity(RowsIn("consumed"), s) + IssuedHand(s) - arrived[s]

LEMMA Shift ==
  ASSUME IInv, IInv', NEW s \in Sku
  PROVE  /\ Off(s)' = Off(s) /\ Spare(s)' >= Spare(s) /\ Covered(s) => Covered(s)'
         /\ Spare(s)' = Spare(s) /\ Whole(s)' = Whole(s) /\ Followed(s) => Followed(s)'
<1>1. Opening(s)' = Opening(s)
  BY DEF Opening, Total
<1>2. /\ Covered(s) <=> Off(s) = 0 /\ Spare(s) >= 0
      /\ Followed(s) <=> Spare(s) = 0 /\ Whole(s) = Opening(s)
      /\ Off(s) \in Int /\ Spare(s) \in Int /\ Whole(s) \in Int
  <2>1. /\ stock[s].avail \in Int /\ stock[s].booked \in Int /\ stock[s].total \in Int
        /\ Quantity(RowsIn("reserved"), s) \in Nat /\ Quantity(RowsIn("consumed"), s) \in Nat
        /\ BookedHand(s) \in Nat /\ IssuedHand(s) \in Nat
        /\ elsewhere[s] \in Nat /\ arrived[s] \in Nat /\ Opening(s) \in Int
    BY Counts
  <2> QED
    BY <2>1 DEF Covered, Followed, Balanced, Off, Spare, Whole
<1>3. /\ Covered(s)' <=> Off(s)' = 0 /\ Spare(s)' >= 0
      /\ Followed(s)' <=> Spare(s)' = 0 /\ Whole(s)' = Opening(s)
      /\ Off(s)' \in Int /\ Spare(s)' \in Int /\ Whole(s)' \in Int
  BY <1>1, Counts, CountsNext DEF Covered, Followed, Balanced, Off, Spare, Whole
<1> QED
  BY <1>2, <1>3

\* The same where the step moves nothing of s.
LEMMA Untouched ==
  ASSUME NEW s \in Sku, stock'[s] = stock[s],
         Quantity(RowsIn("reserved"), s)' = Quantity(RowsIn("reserved"), s),
         Quantity(RowsIn("consumed"), s)' = Quantity(RowsIn("consumed"), s),
         BookedHand(s)' = BookedHand(s), IssuedHand(s)' = IssuedHand(s),
         elsewhere'[s] = elsewhere[s], arrived'[s] = arrived[s]
  PROVE  (Covered(s) => Covered(s)') /\ (Followed(s) => Followed(s)')
<1>1. Opening(s)' = Opening(s)
  BY DEF Opening, Total
<1> QED
  BY <1>1 DEF Covered, Followed, Balanced

\* What one worker's step does to the units in hand.
LEMMA HandsMove ==
  ASSUME IInv, NEW w \in Worker, Moves(w), NEW s
  PROVE  /\ BookedHand(s)' = BookedHand(s) + BookedOf(pass'[w], s) - BookedOf(pass[w], s)
         /\ IssuedHand(s)' = IssuedHand(s) + IssuedOf(pass'[w], s) - IssuedOf(pass[w], s)
         /\ BookedOf(pass'[w], s) \in Nat /\ BookedOf(pass[w], s) \in Nat
         /\ IssuedOf(pass'[w], s) \in Nat /\ IssuedOf(pass[w], s) \in Nat
         /\ BookedHand(s) \in Nat /\ IssuedHand(s) \in Nat
         /\ BookedOf(pass[w], s) <= BookedHand(s) /\ IssuedOf(pass[w], s) <= IssuedHand(s)
<1>1. pass \in [Worker -> PassState]
  BY DEF IInv, DocTypes
<1> QED
  BY <1>1, HandStep, Zenon DEF BookedHand, IssuedHand, BookedOf, IssuedOf

LEMMA QuietStock ==
  ASSUME IInv, NEW w \in Worker, Moves(w), SameHands(w), UNCHANGED <<stock, row, elsewhere, arrived>>
  PROVE  CoverKept /\ FollowKept
<1>1. ASSUME NEW s \in Sku PROVE (Covered(s) => Covered(s)') /\ (Followed(s) => Followed(s)')
  <2>1. /\ BookedOf(pass'[w], s) = BookedOf(pass[w], s)
        /\ IssuedOf(pass'[w], s) = IssuedOf(pass[w], s)
    BY Zenon DEF SameHands, BookedOf, IssuedOf
  <2>2. BookedHand(s)' = BookedHand(s) /\ IssuedHand(s)' = IssuedHand(s)
    BY <2>1, HandsMove
  <2> QED
    BY <2>2, SameRows, Untouched
<1> QED
  BY <1>1 DEF CoverKept, FollowKept

\* A pass takes units: what it takes it has in hand.
LEMMA TakeStock ==
  ASSUME IInv, IInv', NEW w \in Worker, NEW x, NEW u, TakeOne(w, x, u), UNCHANGED <<row, elsewhere, arrived>>
  PROVE  CoverKept /\ FollowKept
<1> DEFINE item == pass[w].item[x]
           n == item.take
<1>1. x \in Indent /\ u = SkuOf[x] /\ u \in Sku /\ n \in Nat /\ item.consumed \in BOOLEAN
  BY AllocationAssumption, TakeIsNat DEF TakeOne, Item
<1>2. stock' = [stock EXCEPT ![u] = Taken(@, item)] /\ Moves(w)
  BY DEF TakeOne
<1>3. \A s, c : HandSum(pass'[w], s, c) = HandSum(pass[w], s, c)
         + (IF u = s /\ item.consumed = c THEN n ELSE 0)
  BY DEF TakeOne
<1>4. \A s \in Sku \ {u} : stock'[s] = stock[s]
  BY <1>2 DEF IInv, ShelfInv
<1>5. /\ item.consumed => stock'[u] = IssueMore(stock[u], n)
      /\ ~item.consumed => stock'[u] = Reserve(stock[u], n)
  BY <1>1, <1>2 DEF IInv, ShelfInv, Taken
<1> HIDE DEF item, n
<1>6. ASSUME NEW s \in Sku
      PROVE  (Covered(s) => Covered(s)') /\ (Followed(s) => Followed(s)')
  <2> DEFINE k0 == IF u = s /\ item.consumed = FALSE THEN n ELSE 0
             k1 == IF u = s /\ item.consumed = TRUE THEN n ELSE 0
  <2>1. /\ Quantity(RowsIn("reserved"), s)' = Quantity(RowsIn("reserved"), s)
        /\ Quantity(RowsIn("consumed"), s)' = Quantity(RowsIn("consumed"), s)
        /\ elsewhere'[s] = elsewhere[s] /\ arrived'[s] = arrived[s]
    BY SameRows
  <2>2. /\ BookedOf(pass'[w], s) = BookedOf(pass[w], s) + k0
        /\ IssuedOf(pass'[w], s) = IssuedOf(pass[w], s) + k1
    BY <1>3, Zenon DEF BookedOf, IssuedOf
  <2>3. /\ u # s => k0 = 0 /\ k1 = 0
        /\ u = s /\ item.consumed => k0 = 0 /\ k1 = n
        /\ u = s /\ ~item.consumed => k0 = n /\ k1 = 0
    BY <1>1
  <2> HIDE DEF k0, k1
  <2>4. k0 \in Nat /\ k1 \in Nat
    BY <1>1, <2>3
  <2>5. BookedHand(s)' = BookedHand(s) + k0 /\ IssuedHand(s)' = IssuedHand(s) + k1
    BY <1>2, <2>2, <2>4, HandsMove
  <2>6. CASE u # s
    <3>1. stock'[s] = stock[s]
      BY <1>4, <2>6
    <3>2. BookedHand(s)' = BookedHand(s) /\ IssuedHand(s)' = IssuedHand(s)
      BY <2>3, <2>5, <2>6, Counts
    <3> QED
      BY <2>1, <3>1, <3>2, Untouched
  <2>7. CASE u = s
    <3>1. /\ stock'[s].avail = stock[s].avail - k0 - k1 /\ stock'[s].booked = stock[s].booked + k0
          /\ stock'[s].total = stock[s].total - k1
      <4>1. stock[s] \in [avail : Nat, booked : Int, total : Int]
        BY Counts
      <4>2. CASE item.consumed
        BY <1>1, <1>5, <2>3, <2>7, <4>1, <4>2, IssuedCounters
      <4>3. CASE ~item.consumed
        BY <1>1, <1>5, <2>3, <2>7, <4>1, <4>3, ReservedCounters
      <4> QED
        BY <4>2, <4>3
    <3>2. Off(s)' = Off(s) /\ Spare(s)' = Spare(s) /\ Whole(s)' = Whole(s) /\ Spare(s) \in Int
      BY <2>1, <2>4, <2>5, <3>1, Counts DEF Off, Spare, Whole
    <3> QED
      BY <3>2, Shift
  <2> QED
    BY <2>6, <2>7
<1> QED
  BY <1>6 DEF CoverKept, FollowKept

\* A pass gives units back: it had them booked, or had issued them.
LEMMA GiveBackStock ==
  ASSUME IInv, IInv', NEW w \in Worker, NEW x, NEW u, GiveBackOne(w, x, u), UNCHANGED <<row, elsewhere, arrived>>
  PROVE  CoverKept /\ FollowKept
<1> DEFINE item == pass[w].item[x]
           n == item.take
<1>1. x \in Indent /\ u = SkuOf[x] /\ u \in Sku /\ n \in Nat /\ item.consumed \in BOOLEAN
  BY AllocationAssumption, TakeIsNat DEF GiveBackOne, Item
<1>2. stock' = [stock EXCEPT ![u] = GivenBack(@, item)] /\ Moves(w)
  BY DEF GiveBackOne
<1>3. \A s, c : HandSum(pass[w], s, c) = HandSum(pass'[w], s, c)
         + (IF u = s /\ item.consumed = c THEN n ELSE 0)
  BY DEF GiveBackOne
<1>4. \A s \in Sku \ {u} : stock'[s] = stock[s]
  BY <1>2 DEF IInv, ShelfInv
<1>5. /\ item.consumed => stock'[u] = TakeBack(stock[u], n)
      /\ ~item.consumed => stock'[u] = Release(stock[u], n)
  BY <1>1, <1>2 DEF IInv, ShelfInv, GivenBack
<1> HIDE DEF item, n
<1>6. ASSUME NEW s \in Sku
      PROVE  (Covered(s) => Covered(s)') /\ (Followed(s) => Followed(s)')
  <2> DEFINE k0 == IF u = s /\ item.consumed = FALSE THEN n ELSE 0
             k1 == IF u = s /\ item.consumed = TRUE THEN n ELSE 0
  <2>1. /\ Quantity(RowsIn("reserved"), s)' = Quantity(RowsIn("reserved"), s)
        /\ Quantity(RowsIn("consumed"), s)' = Quantity(RowsIn("consumed"), s)
        /\ elsewhere'[s] = elsewhere[s] /\ arrived'[s] = arrived[s]
    BY SameRows
  <2>2. /\ BookedOf(pass[w], s) = BookedOf(pass'[w], s) + k0
        /\ IssuedOf(pass[w], s) = IssuedOf(pass'[w], s) + k1
    BY <1>3, Zenon DEF BookedOf, IssuedOf
  <2>3. /\ u # s => k0 = 0 /\ k1 = 0
        /\ u = s /\ item.consumed => k0 = 0 /\ k1 = n
        /\ u = s /\ ~item.consumed => k0 = n /\ k1 = 0
    BY <1>1
  <2> HIDE DEF k0, k1
  <2>4. k0 \in Nat /\ k1 \in Nat
    BY <1>1, <2>3
  <2> DEFINE m0 == -k0
             m1 == -k1
  <2>5. BookedHand(s)' = BookedHand(s) + m0 /\ IssuedHand(s)' = IssuedHand(s) + m1 /\ k0 <= BookedHand(s)
    BY <1>2, <2>2, <2>4, HandsMove
  <2>6. CASE u # s
    <3>1. stock'[s] = stock[s]
      BY <1>4, <2>6
    <3>2. BookedHand(s)' = BookedHand(s) /\ IssuedHand(s)' = IssuedHand(s)
      BY <2>3, <2>5, <2>6, Counts
    <3> QED
      BY <2>1, <3>1, <3>2, Untouched
  <2>7. CASE u = s
    <3>1. Covered(s) \/ Followed(s) => stock[s].booked >= k0
      BY <2>4, <2>5, Counts DEF Covered, Followed
    <3>2. ASSUME stock[s].booked >= k0
          PROVE  /\ stock'[s].avail = stock[s].avail + k0 + k1 /\ stock'[s].booked = stock[s].booked - k0
                 /\ stock'[s].total = stock[s].total + k1
      <4>1. stock[s] \in [avail : Nat, booked : Int, total : Int]
        BY Counts
      <4>2. CASE item.consumed
        BY <1>1, <1>5, <2>3, <2>7, <4>1, <4>2, TakenBackCounters
      <4>3. CASE ~item.consumed
        BY <1>1, <1>5, <2>3, <2>7, <3>2, <4>1, <4>3, ReleasedCounters
      <4> QED
        BY <4>2, <4>3
    <3>3. ASSUME stock[s].booked >= k0
          PROVE  Off(s)' = Off(s) /\ Spare(s)' = Spare(s) /\ Whole(s)' = Whole(s) /\ Spare(s) \in Int
      BY <2>1, <2>4, <2>5, <3>2, <3>3, Counts DEF Off, Spare, Whole
    <3> QED
      BY <3>1, <3>3, Shift
  <2> QED
    BY <2>6, <2>7
<1> QED
  BY <1>6 DEF CoverKept, FollowKept

\* The rows of a job are written: no more becomes reserved than the hand had booked.
LEMMA WriteStock ==
  ASSUME IInv, IInv', NEW w \in Worker, WriteAll(w), UNCHANGED <<stock, elsewhere, arrived>>
  PROVE  CoverKept /\ FollowKept
<1>1. Moves(w) /\ gaps' = gaps
  BY DEF WriteAll
<1>2. ASSUME NEW s \in Sku
      PROVE  /\ Covered(s) => Covered(s)'
             /\ gaps \cap {"deleted", "crossed"} = {} /\ Followed(s) => Followed(s)'
  <2>1. BookedOf(pass'[w], s) = 0 /\ IssuedOf(pass'[w], s) = 0
    BY Zenon DEF WriteAll, BookedOf, IssuedOf
  <2>2. Quantity(RowsIn("reserved"), s)' <= Quantity(RowsIn("reserved"), s) + BookedOf(pass[w], s)
    BY Zenon DEF WriteAll, BookedOf
  <2>3. gaps \cap {"deleted", "crossed"} = {} =>
          /\ Quantity(RowsIn("reserved"), s)' = Quantity(RowsIn("reserved"), s) + BookedOf(pass[w], s)
          /\ Quantity(RowsIn("consumed"), s)' = Quantity(RowsIn("consumed"), s) + IssuedOf(pass[w], s)
    BY Zenon DEF WriteAll, BookedOf, IssuedOf
  <2>4. /\ BookedHand(s)' = BookedHand(s) + BookedOf(pass'[w], s) - BookedOf(pass[w], s)
        /\ IssuedHand(s)' = IssuedHand(s) + IssuedOf(pass'[w], s) - IssuedOf(pass[w], s)
        /\ BookedOf(pass[w], s) \in Nat /\ IssuedOf(pass[w], s) \in Nat
    BY <1>1, HandsMove
  <2>5. /\ BookedHand(s)' = BookedHand(s) - BookedOf(pass[w], s)
        /\ IssuedHand(s)' = IssuedHand(s) - IssuedOf(pass[w], s)
    BY <2>1, <2>4, Counts
  <2>6. stock'[s] = stock[s] /\ elsewhere'[s] = elsewhere[s] /\ arrived'[s] = arrived[s]
    OBVIOUS
  <2>7. Off(s)' = Off(s) /\ Spare(s)' >= Spare(s)
    BY <2>2, <2>4, <2>5, <2>6, Counts, CountsNext DEF Off, Spare
  <2>8. ASSUME gaps \cap {"deleted", "crossed"} = {}
        PROVE  Spare(s)' = Spare(s) /\ Whole(s)' = Whole(s)
    BY <2>3, <2>4, <2>5, <2>6, <2>8, Counts, CountsNext DEF Spare, Whole
  <2> QED
    BY <2>7, <2>8, Shift
<1> QED
  BY <1>1, <1>2 DEF CoverKept, FollowKept, Crossing

\* A worker dies: what it had booked stays booked.
LEMMA DeathStock ==
  ASSUME IInv, IInv', NEW w \in Worker, Moves(w), "died" \notin gaps' => SameHands(w),
         \A s, c : HandSum(pass'[w], s, c) = 0, UNCHANGED <<stock, row, elsewhere, arrived>>
  PROVE  CoverKept /\ FollowKept
<1>1. CASE "died" \notin gaps'
  BY <1>1, QuietStock
<1>2. CASE "died" \in gaps'
  <2>1. FollowKept
    BY <1>2 DEF FollowKept, Crossing
  <2>2. ASSUME NEW s \in Sku PROVE Covered(s) => Covered(s)'
    <3>1. BookedOf(pass'[w], s) = 0
      BY Zenon DEF BookedOf
    <3>2. /\ BookedHand(s)' = BookedHand(s) + BookedOf(pass'[w], s) - BookedOf(pass[w], s)
          /\ BookedOf(pass[w], s) \in Nat
      BY HandsMove
    <3>3. /\ stock'[s] = stock[s] /\ elsewhere'[s] = elsewhere[s]
          /\ Quantity(RowsIn("reserved"), s)' = Quantity(RowsIn("reserved"), s)
      BY SameRows
    <3>4. Off(s)' = Off(s) /\ Spare(s)' >= Spare(s)
      BY <3>1, <3>2, <3>3, Counts, CountsNext DEF Off, Spare
    <3> QED
      BY <3>4, Shift
  <2> QED
    BY <2>1, <2>2 DEF CoverKept
<1> QED
  BY <1>1, <1>2

\* The passes' hands where no pass moves.
LEMMA SameHandsAll ==
  ASSUME pass' = pass
  PROVE  \A s : BookedHand(s)' = BookedHand(s) /\ IssuedHand(s)' = IssuedHand(s)
  BY SamePass, Zenon DEF BookedHand, IssuedHand

\* A PO issues what reserved rows had booked.
LEMMA PoStock ==
  ASSUME IInv, IInv', NEW L, PoSums(L), pass' = pass, UNCHANGED <<elsewhere, arrived>>
  PROVE  CoverKept /\ FollowKept
<1>1. ASSUME NEW s \in Sku
      PROVE  (Covered(s) => Covered(s)') /\ (Followed(s) => Followed(s)')
  <2> DEFINE q == Quantity(L, s)
  <2>1. /\ stock'[s] = Consume(stock[s], q) /\ q \in Nat
        /\ Quantity(RowsIn("reserved"), s) = Quantity(RowsIn("reserved"), s)' + q
        /\ Quantity(RowsIn("reserved"), s)' \in Nat
        /\ Quantity(RowsIn("consumed"), s)' = Quantity(RowsIn("consumed"), s) + q
    BY DEF PoSums
  <2> HIDE DEF q
  <2>2. BookedHand(s)' = BookedHand(s) /\ IssuedHand(s)' = IssuedHand(s)
    BY SameHandsAll
  <2>3. Covered(s) \/ Followed(s) => stock[s].booked >= q
    BY <2>1, Counts DEF Covered, Followed
  <2>4. ASSUME stock[s].booked >= q
        PROVE  Off(s)' = Off(s) /\ Spare(s)' = Spare(s) /\ Whole(s)' = Whole(s) /\ Spare(s) \in Int
    <3>1. /\ stock'[s].avail = stock[s].avail /\ stock'[s].booked = stock[s].booked - q
          /\ stock'[s].total = stock[s].total - q
      BY <2>1, <2>4, Counts, ConsumedCounters
    <3> QED
      BY <2>1, <2>2, <3>1, Counts DEF Off, Spare, Whole
  <2> QED
    BY <2>3, <2>4, Shift
<1> QED
  BY <1>1 DEF CoverKept, FollowKept

\* A cancelled booking's units go back to the shelf.
LEMMA CancelStock ==
  ASSUME IInv, IInv', NEW H, NEW S, CancelSums(H, S), pass' = pass, UNCHANGED <<elsewhere, arrived>>
  PROVE  CoverKept /\ FollowKept
<1>1. ASSUME NEW s \in Sku
      PROVE  (Covered(s) => Covered(s)') /\ (Followed(s) => Followed(s)')
  <2> DEFINE h == Quantity(H, s)
             k == Quantity(S, s)
  <2>1. /\ stock'[s] = TakeBack(Release(stock[s], h), k) /\ h \in Nat /\ k \in Nat
        /\ Quantity(RowsIn("reserved"), s) = Quantity(RowsIn("reserved"), s)' + h
        /\ Quantity(RowsIn("consumed"), s) = Quantity(RowsIn("consumed"), s)' + k
        /\ Quantity(RowsIn("reserved"), s)' \in Nat /\ Quantity(RowsIn("consumed"), s)' \in Nat
    BY DEF CancelSums
  <2> HIDE DEF h, k
  <2>2. BookedHand(s)' = BookedHand(s) /\ IssuedHand(s)' = IssuedHand(s)
    BY SameHandsAll
  <2>3. Covered(s) \/ Followed(s) => stock[s].booked >= h
    BY <2>1, Counts DEF Covered, Followed
  <2>4. ASSUME stock[s].booked >= h
        PROVE  Off(s)' = Off(s) /\ Spare(s)' = Spare(s) /\ Whole(s)' = Whole(s) /\ Spare(s) \in Int
    <3>1. /\ Release(stock[s], h).avail = stock[s].avail + h
          /\ Release(stock[s], h).booked = stock[s].booked - h
          /\ Release(stock[s], h).total = stock[s].total
          /\ Release(stock[s], h) \in [avail : Nat, booked : Int, total : Int]
      BY <2>1, <2>4, Counts, ReleasedCounters
    <3>2. /\ stock'[s].avail = Release(stock[s], h).avail + k
          /\ stock'[s].booked = Release(stock[s], h).booked
          /\ stock'[s].total = Release(stock[s], h).total + k
      BY <2>1, <3>1, TakenBackCounters
    <3>3. /\ stock'[s].avail = stock[s].avail + h + k /\ stock'[s].booked = stock[s].booked - h
          /\ stock'[s].total = stock[s].total + k
      BY <3>1, <3>2
    <3> QED
      BY <2>1, <2>2, <3>3, Counts DEF Off, Spare, Whole
  <2> QED
    BY <2>3, <2>4, Shift
<1> QED
  BY <1>1 DEF CoverKept, FollowKept

\* A row of SKU u gives up q units, to the shelf.
LEMMA GivenUpStock ==
  ASSUME IInv, IInv', NEW d \in RowId, NEW q, GivesUp(d, q), pass' = pass,
         UNCHANGED <<elsewhere, arrived>>, NEW u \in Sku, u = SkuOf[row[d].r],
         stock' = [stock EXCEPT ![u] =
                     IF row[d].stock = "consumed" THEN TakeBack(@, q) ELSE Release(@, q)]
  PROVE  CoverKept /\ FollowKept
<1>1. q \in Nat /\ row[d].stock \in {"reserved", "consumed"}
  BY DEF GivesUp
<1>2. \A s \in Sku \ {u} : stock'[s] = stock[s]
  BY DEF IInv, ShelfInv
<1>3. /\ row[d].stock = "consumed" => stock'[u] = TakeBack(stock[u], q)
      /\ row[d].stock # "consumed" => stock'[u] = Release(stock[u], q)
  BY DEF IInv, ShelfInv
<1>4. ASSUME NEW s \in Sku
      PROVE  (Covered(s) => Covered(s)') /\ (Followed(s) => Followed(s)')
  <2> DEFINE k0 == IF row[d].stock = "reserved" /\ SkuOf[row[d].r] = s THEN q ELSE 0
             k1 == IF row[d].stock = "consumed" /\ SkuOf[row[d].r] = s THEN q ELSE 0
  <2>1. /\ Quantity(RowsIn("reserved"), s)' = Quantity(RowsIn("reserved"), s) - k0
        /\ Quantity(RowsIn("consumed"), s)' = Quantity(RowsIn("consumed"), s) - k1
        /\ Quantity(RowsIn("reserved"), s)' \in Nat
    BY RowGivesUp
  <2>2. /\ u # s => k0 = 0 /\ k1 = 0
        /\ u = s /\ row[d].stock = "consumed" => k0 = 0 /\ k1 = q
        /\ u = s /\ row[d].stock # "consumed" => k0 = q /\ k1 = 0
    BY <1>1
  <2> HIDE DEF k0, k1
  <2>3. BookedHand(s)' = BookedHand(s) /\ IssuedHand(s)' = IssuedHand(s)
    BY SameHandsAll
  <2>4. CASE u # s
    <3>1. stock'[s] = stock[s]
      BY <1>2, <2>4
    <3>2. /\ Quantity(RowsIn("reserved"), s)' = Quantity(RowsIn("reserved"), s)
          /\ Quantity(RowsIn("consumed"), s)' = Quantity(RowsIn("consumed"), s)
      BY <2>1, <2>2, <2>4, Counts
    <3> QED
      BY <2>3, <3>1, <3>2, Untouched
  <2>5. CASE u = s
    <3>1. k0 \in Nat /\ k1 \in Nat
      BY <1>1, <2>2, <2>5
    <3>2. Covered(s) \/ Followed(s) => stock[s].booked >= k0
      BY <2>1, <3>1, Counts DEF Covered, Followed
    <3>3. ASSUME stock[s].booked >= k0
          PROVE  Off(s)' = Off(s) /\ Spare(s)' = Spare(s) /\ Whole(s)' = Whole(s) /\ Spare(s) \in Int
      <4>1. /\ stock'[s].avail = stock[s].avail + k0 + k1 /\ stock'[s].booked = stock[s].booked - k0
            /\ stock'[s].total = stock[s].total + k1
        <5>1. stock[s] \in [avail : Nat, booked : Int, total : Int]
          BY Counts
        <5>2. CASE row[d].stock = "consumed"
          BY <1>1, <1>3, <2>2, <2>5, <5>1, <5>2, TakenBackCounters
        <5>3. CASE row[d].stock # "consumed"
          BY <1>1, <1>3, <2>2, <2>5, <3>3, <5>1, <5>3, ReleasedCounters
        <5> QED
          BY <5>2, <5>3
      <4> QED
        BY <2>1, <2>3, <3>1, <4>1, Counts DEF Off, Spare, Whole
    <3> QED
      BY <3>2, <3>3, Shift
  <2> QED
    BY <2>4, <2>5
<1> QED
  BY <1>4 DEF CoverKept, FollowKept

\* Other bookings take and give back units, and units come in.
LEMMA ShelfStock ==
  ASSUME IInv, IInv', pass' = pass, row' = row, StockStep
  PROVE  CoverKept /\ FollowKept
<1> SUFFICES ASSUME NEW s \in Sku
             PROVE  (Covered(s) => Covered(s)') /\ (Followed(s) => Followed(s)')
  BY DEF CoverKept, FollowKept
<1>1. /\ BookedHand(s)' = BookedHand(s) /\ IssuedHand(s)' = IssuedHand(s)
      /\ Quantity(RowsIn("reserved"), s)' = Quantity(RowsIn("reserved"), s)
      /\ Quantity(RowsIn("consumed"), s)' = Quantity(RowsIn("consumed"), s)
  BY SameHandsAll, SameRows
<1>2. PICK u \in Sku : OtherBooks(u) \/ OtherReleases(u) \/ Arrives(u)
  BY DEF StockStep
<1>3. CASE u # s
  <2>1. stock'[s] = stock[s] /\ elsewhere'[s] = elsewhere[s] /\ arrived'[s] = arrived[s]
    BY <1>2, <1>3 DEF OtherBooks, OtherReleases, Arrives, IInv, ShelfInv, DocTypes
  <2> QED
    BY <1>1, <2>1, Untouched
<1>4. CASE u = s /\ OtherBooks(u)
  <2>1. stock'[s] = Reserve(stock[s], 1) /\ elsewhere'[s] = elsewhere[s] + 1 /\ arrived'[s] = arrived[s]
    BY <1>4 DEF OtherBooks, IInv, ShelfInv, DocTypes
  <2>2. /\ stock'[s].avail = stock[s].avail - 1 /\ stock'[s].booked = stock[s].booked + 1
        /\ stock'[s].total = stock[s].total
    BY <2>1, Counts, ReservedCounters
  <2>3. Off(s)' = Off(s) /\ Spare(s)' = Spare(s) /\ Whole(s)' = Whole(s) /\ Spare(s) \in Int
    BY <1>1, <2>1, <2>2, Counts DEF Off, Spare, Whole
  <2> QED
    BY <2>3, Shift
<1>5. CASE u = s /\ OtherReleases(u)
  <2>1. /\ stock'[s] = Release(stock[s], 1) /\ elsewhere'[s] = elsewhere[s] - 1
        /\ arrived'[s] = arrived[s] /\ elsewhere[s] > 0
    BY <1>5 DEF OtherReleases, IInv, ShelfInv, DocTypes
  <2>2. Covered(s) \/ Followed(s) => stock[s].booked >= 1
    BY <2>1, Counts DEF Covered, Followed
  <2>3. ASSUME stock[s].booked >= 1
        PROVE  Off(s)' = Off(s) /\ Spare(s)' = Spare(s) /\ Whole(s)' = Whole(s) /\ Spare(s) \in Int
    <3>1. /\ stock'[s].avail = stock[s].avail + 1 /\ stock'[s].booked = stock[s].booked - 1
          /\ stock'[s].total = stock[s].total
      BY <2>1, <2>3, Counts, ReleasedCounters
    <3> QED
      BY <1>1, <2>1, <3>1, Counts DEF Off, Spare, Whole
  <2> QED
    BY <2>2, <2>3, Shift
<1>6. CASE u = s /\ Arrives(u)
  <2>1. /\ stock'[s] = [avail |-> stock[s].avail + 1, booked |-> stock[s].booked, total |-> stock[s].total + 1]
        /\ elsewhere'[s] = elsewhere[s] /\ arrived'[s] = arrived[s] + 1
    BY <1>6 DEF Arrives, IInv, ShelfInv, DocTypes
  <2>2. /\ stock'[s].avail = stock[s].avail + 1 /\ stock'[s].booked = stock[s].booked
        /\ stock'[s].total = stock[s].total + 1
    BY <2>1
  <2>3. Off(s)' = Off(s) /\ Spare(s)' = Spare(s) /\ Whole(s)' = Whole(s) /\ Spare(s) \in Int
    BY <1>1, <2>1, <2>2, Counts DEF Off, Spare, Whole
  <2> QED
    BY <2>3, Shift
<1> QED
  BY <1>2, <1>3, <1>4, <1>5, <1>6

-----------------------------------------------------------------------------
(* The lines at the start.                                                 *)
Ordinal(r) == Cardinality({x \in Supplied : x <= r})

LEMMA OrdinalRow ==
  ASSUME NEW r \in Supplied
  PROVE  Ordinal(r) \in RowId
<1> DEFINE B == {x \in Supplied : x <= r}
<1>1. IsFiniteSet(Supplied)
  BY AllocationAssumption, FS_Subset, Supplied \in SUBSET Indent DEF Supplied
<1>2. IsFiniteSet(B) /\ Cardinality(B) <= Cardinality(Supplied) /\ Cardinality(B) \in Nat
      /\ Cardinality(Supplied) \in Nat
  BY <1>1, FS_Subset, FS_CardinalityType, B \in SUBSET Supplied
<1>3. r \in B
  BY AllocationAssumption DEF Supplied
<1> HIDE DEF B
<1>4. Cardinality(B) # 0
  BY <1>2, <1>3, FS_EmptySet
<1>5. Cardinality(B) \in 1..Cardinality(Supplied)
  BY <1>2, <1>4
<1> QED
  BY <1>5, AllocationAssumption DEF Ordinal, B, Supplied

LEMMA OrdinalOnce ==
  ASSUME NEW r \in Supplied, NEW s \in Supplied, r < s
  PROVE  Ordinal(r) # Ordinal(s)
<1> DEFINE B == {x \in Supplied : x <= r}
           C == {x \in Supplied : x <= s}
<1>1. r \in Nat /\ s \in Nat /\ Supplied \subseteq Nat
  BY AllocationAssumption DEF Supplied
<1>2. IsFiniteSet(Supplied)
  BY AllocationAssumption, FS_Subset, Supplied \in SUBSET Indent DEF Supplied
<1>3. IsFiniteSet(C)
  BY <1>2, FS_Subset, C \in SUBSET Supplied
<1>4. B \in SUBSET C
  <2>1. ASSUME NEW x \in Supplied, x <= r PROVE x <= s
    <3>1. x \in Nat
      BY <1>1
    <3> QED
      BY <1>1, <2>1, <3>1
  <2> QED
    BY <2>1
<1>5. s \in C /\ s \notin B
  BY <1>1
<1> HIDE DEF B, C
<1>6. Cardinality(C) # Cardinality(B)
  BY <1>3, <1>4, <1>5, FS_Subset
<1> QED
  BY <1>6 DEF Ordinal, B, C

\* Each line of a booking is on the row of its ordinal, as confirmed.
LEMMA FirstLines ==
  ASSUME Init
  PROVE  /\ \A r \in Supplied : LET d == Ordinal(r) IN
              row[d].r = r /\ row[d].qty = Confirmed[r] /\ row[d].stock = "reserved"
         /\ \A d \in RowId : (\A r \in Supplied : Ordinal(r) # d) => row[d].stock = "none"
<1>1. \A r, s \in Supplied : Ordinal(r) = Ordinal(s) => r = s
  <2> SUFFICES ASSUME NEW r \in Supplied, NEW s \in Supplied, Ordinal(r) = Ordinal(s), r # s
               PROVE  FALSE
    OBVIOUS
  <2>1. r < s \/ s < r
    BY AllocationAssumption DEF Supplied
  <2> QED
    BY <2>1, OrdinalOnce
<1>2. ASSUME NEW d \in RowId
      PROVE  row[d] = IF \E r \in Supplied : Ordinal(r) = d
                      THEN LET r == CHOOSE x \in Supplied : Ordinal(x) = d
                           IN  [b |-> Parent[r], r |-> r, qty |-> Confirmed[r], inward |-> 0,
                                stock |-> "reserved"]
                      ELSE NoRow
  BY DEF Init, Ordinal
<1>3. ASSUME NEW r \in Supplied
      PROVE  row[Ordinal(r)].r = r /\ row[Ordinal(r)].qty = Confirmed[r]
             /\ row[Ordinal(r)].stock = "reserved"
  <2> DEFINE line == [b |-> Parent[r], r |-> r, qty |-> Confirmed[r], inward |-> 0, stock |-> "reserved"]
  <2>1. (CHOOSE x \in Supplied : Ordinal(x) = Ordinal(r)) = r
    BY <1>1
  <2>2. row[Ordinal(r)] = line
    BY <1>2, <2>1, OrdinalRow
  <2>3. line.r = r /\ line.qty = Confirmed[r] /\ line.stock = "reserved"
    OBVIOUS
  <2> QED
    BY <2>2, <2>3, Zenon
<1>4. ASSUME NEW d \in RowId, \A r \in Supplied : Ordinal(r) # d
      PROVE  row[d].stock = "none"
  <2>1. row[d] = NoRow
    BY <1>2, <1>4
  <2>2. NoRow.stock = "none"
    BY DEF NoRow
  <2> QED
    BY <2>1, <2>2
<1> QED
  BY <1>1, <1>3, <1>4

\* What the bookings got of SKU s, which is what is booked at the start.
Sold(s) == Total(LAMBDA r : Confirmed[r], {r \in Supplied : SkuOf[r] = s})

LEMMA FirstReserved ==
  ASSUME Init, IInv, NEW s \in Sku
  PROVE  /\ Quantity(RowsIn("reserved"), s) = Sold(s)
         /\ Quantity(RowsIn("consumed"), s) = 0
<1> DEFINE M == {r \in Supplied : SkuOf[r] = s}
           f == [r \in Supplied |-> Confirmed[r]]
           h == [r \in Supplied |-> IF SkuOf[r] = s THEN Confirmed[r] ELSE 0]
           t == [r \in Supplied |-> Ordinal(r)]
           k == QtyOf(row, "reserved", s)
<1>1. Sold(s) = Size(f, M)
  <2>1. \A r \in M : f[r] = Confirmed[r]
    OBVIOUS
  <2> DEFINE P == M
  <2>2. Sold(s) = Cardinality(UNION {{r} \X (1..Confirmed[r]) : r \in P})
    BY DEF Sold, Total
  <2>3. \A r \in P : f[r] = Confirmed[r]
    BY <2>1
  <2> HIDE DEF f, P
  <2>4. {{r} \X (1..f[r]) : r \in P} = {{r} \X (1..Confirmed[r]) : r \in P}
    BY <2>3
  <2>5. Sold(s) = Size(f, P)
    BY <2>2, <2>4 DEF Size, Units
  <2> QED
    BY <2>5 DEF P
<1>2. Size(f, M) = Size(h, Supplied)
  <2>1. M \in SUBSET Supplied /\ (\A r \in M : h[r] = f[r]) /\ \A r \in Supplied \ M : h[r] = 0
    OBVIOUS
  <2> HIDE DEF f, h, M
  <2> QED
    BY <2>1, SumOverPart
<1>3. IsFiniteSet(Supplied)
  BY AllocationAssumption, FS_Subset, Supplied \in SUBSET Indent DEF Supplied
<1>4. h \in [Supplied -> Nat]
  BY AllocationAssumption DEF Supplied
<1>5. k \in [RowId -> Nat]
  BY DEF QtyOf, IInv, DocTypes, RowDoc
<1>6. t \in [Supplied -> RowId]
  BY OrdinalRow
<1>7. \A x, y \in Supplied : t[x] = t[y] => x = y
  <2> SUFFICES ASSUME NEW x \in Supplied, NEW y \in Supplied, Ordinal(x) = Ordinal(y), x # y
               PROVE  FALSE
    OBVIOUS
  <2>1. x < y \/ y < x
    BY AllocationAssumption DEF Supplied
  <2> QED
    BY <2>1, OrdinalOnce
<1>8. \A x \in Supplied : k[t[x]] = h[x]
  BY FirstLines, OrdinalRow DEF QtyOf
<1>9. \A d \in RowId : (\A x \in Supplied : t[x] # d) => k[d] = 0
  BY FirstLines DEF QtyOf
<1> HIDE DEF M, f, h, t, k
<1>10. Size(k, RowId) = Size(h, Supplied)
  BY <1>3, <1>4, <1>5, <1>6, <1>7, <1>8, <1>9, SizeMoved
<1>11. Quantity(RowsIn("reserved"), s) = Size(k, RowId)
  BY Sums DEF k
<1>12. Quantity(RowsIn("consumed"), s) = 0
  <2>1. \A d \in RowId : QtyOf(row, "consumed", s)[d] = 0
    BY FirstRows DEF QtyOf
  <2> QED
    BY <2>1, Sums, SizeNone
<1> QED
  BY <1>1, <1>2, <1>10, <1>11, <1>12

LEMMA FirstCounters ==
  ASSUME Init, IInv, NEW s \in Sku
  PROVE  Covered(s) /\ Followed(s)
<1>1. Quantity(RowsIn("reserved"), s) = Sold(s) /\ Quantity(RowsIn("consumed"), s) = 0
  BY FirstReserved
<1>2. BookedHand(s) = 0 /\ IssuedHand(s) = 0
  BY FirstHands, Zenon DEF BookedHand, IssuedHand
<1>3. elsewhere[s] = 0 /\ arrived[s] = 0
  BY DEF Init
<1>4. stock[s] = [avail |-> Stock[s], booked |-> Sold(s), total |-> Stock[s] + Sold(s)]
  BY DEF Init, Sold
<1>5. Opening(s) = Stock[s] + Sold(s)
  BY DEF Opening, Sold
<1>6. Stock[s] \in Nat /\ Sold(s) \in Nat
  BY <1>1, SumsAreNat, AllocationAssumption
<1>7. stock[s].avail = Stock[s] /\ stock[s].booked = Sold(s) /\ stock[s].total = Stock[s] + Sold(s)
  BY <1>4
<1> QED
  BY <1>1, <1>2, <1>3, <1>5, <1>6, <1>7 DEF Covered, Followed, Balanced

-----------------------------------------------------------------------------
(* The counters hold what the lines and the hands need.                    *)
CoveredAll == "torn" \notin gaps => \A s \in Sku : Covered(s)
FollowedAll == gaps \cap Crossing = {} => \A s \in Sku : Followed(s)

LEMMA PassStock ==
  ASSUME IInv, IInv', AimInv, NEW w \in Worker, PassStep(w)
  PROVE  CoverKept /\ FollowKept
<1>1. CASE Lists(w) \/ PassDecides(w) \/ (\E r \in Indent : ReadsIndent(w, r)) \/ AssignmentDecides(w)
           \/ JobStarts(w)
  <2>1. Quiet(w)
    BY <1>1, ListsEffect, PassDecidesEffect, ReadsIndentEffect, AssignmentDecidesEffect, JobStartsEffect
  <2>2. UNCHANGED <<stock, row, elsewhere, arrived>>
    BY <1>1 DEF Lists, PassDecides, ReadsIndent, AssignmentDecides, JobStarts
  <2> QED
    BY <2>1, <2>2, QuietStock DEF Quiet
<1>2. CASE Claims(w)
  <2>1. UNCHANGED <<stock, row, elsewhere, arrived>>
    BY <1>2 DEF Claims
  <2>2. Moves(w) /\ SameHands(w)
    BY <1>2, ClaimsEffect DEF Quiet, ClaimOne
  <2> QED
    BY <2>1, <2>2, QuietStock
<1>3. CASE TakesStock(w)
  <2>1. UNCHANGED <<row, elsewhere, arrived>>
    BY <1>3 DEF TakesStock
  <2>2. CASE Quiet(w) /\ UNCHANGED stock
    BY <2>1, <2>2, QuietStock DEF Quiet
  <2>3. CASE TakeOne(w, pass[w].at, SkuOf[pass[w].at])
    BY <2>1, <2>3, TakeStock
  <2> QED
    BY <1>3, <2>2, <2>3, TakesStockEffect
<1>4. CASE RestoresIndent(w)
  <2>1. UNCHANGED <<stock, row, elsewhere, arrived>>
    BY <1>4 DEF RestoresIndent
  <2>2. Moves(w) /\ SameHands(w)
    BY <1>4, RestoresIndentEffect DEF RestoreOne
  <2> QED
    BY <2>1, <2>2, QuietStock
<1>5. CASE JobWrites(w)
  <2>1. UNCHANGED <<stock, elsewhere, arrived>>
    BY <1>5 DEF JobWrites
  <2> QED
    BY <1>5, <2>1, JobWritesEffect, WriteStock
<1>6. CASE WriteFails(w)
  <2>1. UNCHANGED <<stock, elsewhere, arrived>>
    BY <1>6 DEF WriteFails
  <2>2. Quiet(w) /\ ("torn" \notin gaps' => UNCHANGED <<row, gaps>>)
    BY <1>6, WriteFailsEffect
  <2>3. CASE "torn" \in gaps'
    BY <2>3 DEF CoverKept, FollowKept, Crossing
  <2>4. CASE "torn" \notin gaps'
    BY <2>1, <2>2, <2>4, QuietStock DEF Quiet
  <2> QED
    BY <2>3, <2>4
<1>7. CASE Unwinds(w)
  <2>1. UNCHANGED <<row, elsewhere, arrived>>
    BY <1>7 DEF Unwinds
  <2>2. PICK x \in Indent : GiveBackOne(w, x, SkuOf[x])
    BY <1>7, UnwindsEffect
  <2> QED
    BY <2>1, <2>2, GiveBackStock
<1>8. CASE PassDies(w)
  <2>1. UNCHANGED <<stock, row, elsewhere, arrived>>
    BY <1>8 DEF PassDies
  <2>2. /\ Moves(w) /\ ("died" \notin gaps' => SameHands(w))
        /\ \A s, c : HandSum(pass'[w], s, c) = 0
    BY <1>8, PassDiesEffect DEF Quiet
  <2> QED
    BY <2>1, <2>2, DeathStock
<1> QED
  BY <1>1, <1>2, <1>3, <1>4, <1>5, <1>6, <1>7, <1>8 DEF PassStep

LEMMA OtherStock ==
  ASSUME IInv, IInv', AimInv, BookingStep \/ StockStep
  PROVE  CoverKept /\ FollowKept
<1>1. ASSUME NEW b \in Booking \cup Fresh, PoConsumes(b) PROVE CoverKept /\ FollowKept
  BY <1>1, PoConsumesEffect, PoStock
<1>2. ASSUME NEW b \in Booking \cup Fresh, BookingCancelled(b) PROVE CoverKept /\ FollowKept
  BY <1>2, BookingCancelledEffect, CancelStock
<1>3. ASSUME NEW r \in Indent, DeskCancelsIndent(r) PROVE CoverKept /\ FollowKept
  <2>1. pass' = pass /\ UNCHANGED <<stock, row, elsewhere, arrived>>
    BY <1>3, DeskCancelsIndentEffect
  <2>2. ASSUME NEW s \in Sku PROVE (Covered(s) => Covered(s)') /\ (Followed(s) => Followed(s)')
    BY <2>1, SameHandsAll, SameRows, Untouched
  <2> QED
    BY <2>2 DEF CoverKept, FollowKept
<1>4. ASSUME NEW d \in RowId, NEW q \in 1..MaxQty, AllocationCancelled(d, q)
      PROVE  CoverKept /\ FollowKept
  <2>1. AllocCancel(d, q)
    BY <1>4, AllocationCancelledEffect
  <2> QED
    BY <2>1, GivenUpStock DEF AllocCancel
<1>5. ASSUME NEW d \in RowId, NEW q \in 1..MaxQty, AllocationMoved(d, q)
      PROVE  CoverKept /\ FollowKept
  <2>1. AllocMove(d, q)
    BY <1>5, AllocationMovedEffect
  <2>2. stock' = [stock EXCEPT ![SkuOf[row[d].r]] =
                    IF row[d].stock = "consumed" THEN TakeBack(@, q) ELSE Release(@, q)]
    BY <2>1 DEF AllocMove
  <2> QED
    BY <2>1, <2>2, GivenUpStock DEF AllocMove
<1>6. CASE StockStep
  BY <1>6, StockStepAims, ShelfStock
<1> QED
  BY <1>1, <1>2, <1>3, <1>4, <1>5, <1>6 DEF BookingStep

LEMMA StandingStock ==
  ASSUME UNCHANGED vars
  PROVE  CoverKept /\ FollowKept
<1>1. UNCHANGED <<stock, row, elsewhere, arrived>> /\ pass' = pass
  BY DEF vars
<1>2. ASSUME NEW s \in Sku PROVE (Covered(s) => Covered(s)') /\ (Followed(s) => Followed(s)')
  BY <1>1, SameHandsAll, SameRows, Untouched
<1> QED
  BY <1>2 DEF CoverKept, FollowKept

LEMMA CountersHold ==
  ASSUME IInv, IInv', AimInv, CoveredAll, FollowedAll, [Next]_vars
  PROVE  AimInv' /\ CoveredAll' /\ FollowedAll'
<1>1. AimInv' /\ gaps \subseteq gaps'
  BY PassPromise, OtherPromise, StandingStill DEF Next
<1>2. CoverKept /\ FollowKept
  BY PassStock, OtherStock, StandingStock DEF Next
<1> QED
  BY <1>1, <1>2 DEF CoverKept, FollowKept, CoveredAll, FollowedAll

\* The invariants that the theorems below rest on.
LEMMA CountersInvariant == Spec => [](CoveredAll /\ FollowedAll /\ IInv)
<1>1. Init => IInv /\ AimInv /\ CoveredAll /\ FollowedAll
  BY InitHolds, FirstAim, FirstCounters DEF CoveredAll, FollowedAll
<1>2. IInv /\ AimInv /\ CoveredAll /\ FollowedAll /\ [Next]_vars
        => (IInv /\ AimInv /\ CoveredAll /\ FollowedAll)'
  BY StepHolds, CountersHold
<1> QED
  BY <1>1, <1>2, PTL DEF Spec

\* Every unit a reserved line or a running pass counts on is booked, and the counters
\* balance, short of a write that was half applied.
THEOREM HeldAlwaysBacked == Spec => []HeldIsBacked
<1>1. IInv /\ CoveredAll => HeldIsBacked
  <2> SUFFICES ASSUME IInv, CoveredAll, "torn" \notin gaps, NEW s \in Sku
               PROVE  /\ Balanced(stock[s])
                      /\ stock[s].booked >= Quantity(RowsIn("reserved"), s) + InHand(s, FALSE)
    BY DEF HeldIsBacked
  <2>1. Covered(s)
    BY DEF CoveredAll
  <2>2. stock[s].booked >= Quantity(RowsIn("reserved"), s) + BookedHand(s)
    BY <2>1, Counts DEF Covered
  <2> QED
    BY <2>1, <2>2, Zenon DEF Covered, BookedHand
<1> QED
  BY <1>1, CountersInvariant, PTL

\* Units are where the lines say: booked ones on reserved lines, in hand or with other
\* bookings, issued ones on consumed lines or in hand, short of the events named.
THEOREM UnitsAlwaysFollowLines == Spec => []UnitsFollowLines
<1>1. FollowedAll => UnitsFollowLines
  BY Zenon DEF FollowedAll, UnitsFollowLines, Followed, BookedHand, IssuedHand, Crossing
<1> QED
  BY <1>1, CountersInvariant, PTL
=============================================================================
