----------------------------- MODULE StockPool -----------------------------
(***************************************************************************)
(* What the booking core promises about physical units, with no bookings,  *)
(* no counters and no requests: every unit of an item is on the shelf,     *)
(* held for somebody, or issued to somebody, and a step moves units        *)
(* between two of those places in one direction only.                      *)
(*                                                                         *)
(* BookingStock is shown to implement this specification, with the places  *)
(* read off the order lines and not off the product counters.              *)
(***************************************************************************)
EXTENDS Integers

CONSTANTS
  Item,      \* the stocked items
  Opening    \* Opening[i]: units of item i there are in all

VARIABLES
  shelf,     \* shelf[i]:  units anybody may still ask for
  held,      \* held[i]:   units set aside, not yet sold
  issued     \* issued[i]: units sold

vars == <<shelf, held, issued>>

Init ==
  /\ shelf = Opening
  /\ held = [i \in Item |-> 0]
  /\ issued = [i \in Item |-> 0]

\* No unit appears or disappears: what a place loses another gains.
Conserved ==
  \A i \in Item : shelf'[i] + held'[i] + issued'[i] = shelf[i] + held[i] + issued[i]

\* Units are set aside from the shelf, never more than are there.
Hold ==
  /\ Conserved
  /\ \A i \in Item : held'[i] >= held[i] /\ shelf'[i] >= 0
  /\ issued' = issued

\* Units set aside are sold; the shelf is not touched.
Issue ==
  /\ Conserved
  /\ \A i \in Item : issued'[i] >= issued[i]
  /\ shelf' = shelf

\* Units set aside, or sold and taken back, return to the shelf.
PutBack ==
  /\ Conserved
  /\ \A i \in Item : held'[i] <= held[i] /\ issued'[i] <= issued[i]

Next == Hold \/ Issue \/ PutBack

Spec == Init /\ [][Next]_vars
=============================================================================
