-------------------------- MODULE MCIndentAllocation --------------------------
(***************************************************************************)
(* Small instances of IndentAllocation for TLC.                            *)
(***************************************************************************)
EXTENDS IndentAllocation, TLC

CONSTANTS
  s1, s2, b1, c1,
  MaxGaps   \* BOUND: kinds of gap in one behaviour

OneSku == [r \in Indent |-> s1]
OneCustomer == [r \in Indent |-> c1]

\* Indents 1 and, in a batch, 2 are remainders of booking b1, which got one unit
\* for the first and none for the second; the others have no booking.
FirstOfBooking == [r \in Indent |-> IF r = 1 THEN b1 ELSE NoBooking]
TwoOfBooking == [r \in Indent |-> IF r \in {1, 2} THEN b1 ELSE NoBooking]
SecondSku == [r \in Indent |-> IF r = 1 THEN s1 ELSE s2]
FirstSupplied == [r \in Indent |-> IF r = 1 THEN 1 ELSE 0]
TwoAndOne == [r \in Indent |-> IF r = 1 THEN 2 ELSE 1]
TwoTwoOne == [r \in Indent |-> IF r \in {1, 2} THEN 2 ELSE 1]
Stock1 == [s \in Sku |-> 1]

\* A behaviour is followed until a second kind of gap opens in it, or until a gap
\* has put more on the shelf than ever came in, or more on an indent than was ever
\* asked for: both can then be repeated for ever.
Followed ==
  /\ Cardinality(gaps) <= MaxGaps
  /\ \A s \in Sku : stock[s].avail + stock[s].booked <= Opening(s) + arrived[s]
  /\ \A r \in Indent : indent[r].qty <= Asked[r]

\* Workers do the same things.
Symmetry == Permutations(Worker)
=============================================================================
