--------------------------------- MODULE MCDesk ---------------------------------
(***************************************************************************)
(* Small instances for TLC of what the desk and its customers share: the   *)
(* copies of a product's stock (StockProjection), a customer's selection   *)
(* list (SelectionList) and a booking whose lines are edited               *)
(* (BookingEdit).  They share no state here, so a behaviour runs one of    *)
(* the Parts and the others stay where they began.                         *)
(***************************************************************************)
EXTENDS StockProjection, SelectionList, BookingEdit, TLC

CONSTANTS
  Parts,            \* subset of {"copies", "list", "edits"}
  l1, found, lost,  \* a line, and two adjustments
  k1, k2            \* SKUs

VARIABLE part

\* A line of one unit, a counted quantity entered and a correction.
UnitsV == [l \in Line |-> 1]
ChangeV ==
  [a \in Adjustment |-> IF a = found THEN [mode |-> "set", quantity |-> 3]
                                     ELSE [mode |-> "delta", quantity |-> -1]]

\* A booking that got all it asked for, one that fell short of its second SKU, and
\* one that fell short of its first.
OnShelfV == k1 :> 2 @@ k2 :> 1
WantedV == {k1 :> 2 @@ k2 :> 0, k1 :> 1 @@ k2 :> 2, k1 :> 3 @@ k2 :> 1}

DeskInit ==
  /\ part \in Parts
  /\ ProjectionInit /\ ListInit /\ EditInit
  /\ part # "edits" => owed[k2] = 1 /\ orderRow[1].sku = k1
  /\ part # "list" => want[1] = 1

DeskNext ==
  \/ part = "copies" /\ ProjectionNext /\ UNCHANGED <<listVars, editVars, part>>
  \/ part = "list" /\ ListNext /\ UNCHANGED <<projectionVars, editVars, part>>
  \/ part = "edits" /\ EditNext /\ UNCHANGED <<projectionVars, listVars, part>>

DeskSpec == DeskInit /\ [][DeskNext]_<<projectionVars, listVars, editVars, part>>

-----------------------------------------------------------------------------
\* The product, its movements and balances, the reservations and the booking hold what
\* they may.
DeskTypeOK ==
  /\ part = "copies" => ProjectionTypeOK
  /\ part = "list" => ListTypeOK
  /\ part = "edits" => EditTypeOK
================================================================================
