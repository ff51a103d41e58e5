--------------------------- MODULE MCBookingStock ---------------------------
(***************************************************************************)
(* Small instances of BookingStock for TLC.                                *)
(***************************************************************************)
EXTENDS BookingStock

CONSTANTS s1, s2, c1, c2

\* Two lines of one customer for one SKU, so that a list can run short half-way.
OneSku == [r \in Res |-> s1]
OneCustomer == [r \in Res |-> c1]
Stock1 == [s \in Sku |-> 1]
Stock3 == [s \in Sku |-> 3]

\* Two lines of one customer for two SKUs, which one booking or two may take up.
EachSku == [r \in Res |-> IF r = 1 THEN s1 ELSE s2]
=============================================================================
