---------------------------- MODULE StockProjection ----------------------------
(***************************************************************************)
(* One product's stock is kept three times: as counters on the product,    *)
(* which bookings change inside their transaction; as movements in the     *)
(* ledger, which a booking's transaction queues and posts after its commit *)
(* (dualWrite.js) and which an adjustment posts first; and as a balance,   *)
(* the ledger folded up (balance.service.js).  An adjustment ends by       *)
(* copying the balance over the counters (syncLegacyStock).                *)
(*                                                                         *)
(* A balance is a bag: counted[m] says how often movement m is in it.      *)
(* `stale' and `drift' are history: they record that a copy was made from  *)
(* a balance that did not hold every committed movement, and that a        *)
(* movement was folded never or twice.                                     *)
(***************************************************************************)
EXTENDS Integers, FiniteSets, StockLedger, Totals

CONSTANTS
  Line,       \* order lines that book units of the product
  Units,      \* Units[l]: how many
  Adjustment, \* manual adjustments
  Change,     \* Change[a]: [mode, quantity], mode "set" or "delta"
  Opening,    \* units on hand at the start, posted and folded
  MaxFaults,  \* BOUND: postings skipped and processes dead
  MaxRebuilds \* BOUND: rebuilds

ASSUME ProjectionAssumption ==
  /\ IsFiniteSet(Line) /\ IsFiniteSet(Adjustment)
  /\ Adjustment \cap (Line \X {"reserve", "settle"}) = {}
  /\ Units \in [Line -> Nat \ {0}]
  /\ Change \in [Adjustment -> [mode : {"set", "delta"}, quantity : Int]]
  /\ Opening \in Nat
  /\ MaxFaults \in Nat /\ MaxRebuilds \in Nat

VARIABLES
  counters,  \* availableForSale, bookedQuantity, totalAvailableQuantity of the product
  held,      \* held[l]: the stock state of line l
  effect,    \* effect[m]: what movement m changes, onHand and reserved
  at,        \* at[m]: how far movement m has come
  counted,   \* counted[m]: how often the balance contains m
  mirror,    \* mirror[a]: the copy of adjustment a: what it read, with what it had missed
  rebuild,   \* the rebuild under way: the movements it aggregated
  drift,     \* history: the balance differs from the ledger for good
  stale,     \* history: counters or an adjustment were computed from a wrong balance
  faults,    \* how many faults there have been
  rebuilds   \* and how many rebuilds

projectionVars ==
  <<counters, held, effect, at, counted, mirror, rebuild, drift, stale, faults, rebuilds>>

\* The movements: each line's reservation and its settlement, and the adjustments.
Movement == (Line \X {"reserve", "settle"}) \cup Adjustment
Effect == [hand : Int, reserved : Int]
NoEffect == [hand |-> 0, reserved |-> 0]
MovementStage == {"none", "decided", "queued", "posted", "folded", "skipped", "unfolded"}

\* stockmovements, and what a sum over a bag of movements gives.
Ledger == {m \in Movement : at[m] \in {"posted", "folded", "unfolded"}}
HandOf(bag) == Opening + Total([m \in Movement |-> bag[m] * effect[m].hand], Movement)
ReservedOf(bag) == Total([m \in Movement |-> bag[m] * effect[m].reserved], Movement)

\* The movements that happened: a booking's once it commits, an adjustment's once
\* the ledger has it.
Happened == {m \in Movement : at[m] \notin {"none", "decided"}}
BalanceIsBehind == drift \/ \E m \in Happened : counted[m] # 1

NoCopy == [step |-> "none"]
NoRebuild == [running |-> FALSE]

ProjectionTypeOK ==
  /\ counters \in Counters
  /\ held \in [Line -> {"none", "reserved", "consumed", "released"}]
  /\ effect \in [Movement -> Effect]
  /\ at \in [Movement -> MovementStage]
  /\ counted \in [Movement -> 0..2]
  /\ \A a \in Adjustment :
       mirror[a].step \in {"none", "read", "done"}
  /\ rebuild # NoRebuild => rebuild.seen \subseteq Movement
  /\ drift \in BOOLEAN /\ stale \in BOOLEAN
  /\ faults \in 0..MaxFaults /\ rebuilds \in 0..MaxRebuilds

Fault == faults < MaxFaults /\ faults' = faults + 1

-----------------------------------------------------------------------------
(* Bookings: the counters change with the line, the movement is queued.    *)

\* recordStockMovement inside the transaction: lines of quantity zero are dropped.
Queued(m, e) ==
  /\ effect' = [effect EXCEPT ![m] = e]
  /\ at' = [at EXCEPT ![m] = IF e = NoEffect THEN "none" ELSE "queued"]

Books(l) ==
  /\ held[l] = "none"
  /\ CanTake(counters, Units[l])
  /\ held' = [held EXCEPT ![l] = "reserved"]
  /\ counters' = Reserve(counters, Units[l])
  /\ Queued(<<l, "reserve">>, [hand |-> 0, reserved |-> Units[l]])
  /\ UNCHANGED <<counted, mirror, rebuild, drift, stale, rebuilds, faults>>

\* Mutant: the movement records what was asked for, not what booked could give.
ReleasesAsAsked(l) ==
  /\ held[l] = "reserved"
  /\ held' = [held EXCEPT ![l] = "released"]
  /\ counters' = Release(counters, Units[l])
  /\ Queued(<<l, "settle">>, [hand |-> -Units[l], reserved |-> -Units[l]])
  /\ UNCHANGED <<counted, mirror, rebuild, drift, stale, rebuilds, faults>>

\* The movement carries what the booked counter gave, not what was asked for.
Releases(l) ==
  /\ held[l] = "reserved"
  /\ held' = [held EXCEPT ![l] = "released"]
  /\ counters' = Release(counters, Units[l])
  /\ Queued(<<l, "settle">>, [hand |-> 0, reserved |-> -BookedPart(counters, Units[l])])
  /\ UNCHANGED <<counted, mirror, rebuild, drift, stale, rebuilds, faults>>

\* Mutant: an issue records the units that leave, not that they were reserved.
ConsumesHandOnly(l) ==
  /\ held[l] = "reserved"
  /\ held' = [held EXCEPT ![l] = "consumed"]
  /\ counters' = Consume(counters, Units[l])
  /\ Queued(<<l, "settle">>, [hand |-> -BookedPart(counters, Units[l]), reserved |-> 0])
  /\ UNCHANGED <<counted, mirror, rebuild, drift, stale, rebuilds, faults>>

Consumes(l) ==
  /\ held[l] = "reserved"
  /\ held' = [held EXCEPT ![l] = "consumed"]
  /\ counters' = Consume(counters, Units[l])
  /\ LET take == BookedPart(counters, Units[l])
     IN  Queued(<<l, "settle">>, [hand |-> -take, reserved |-> -take])
  /\ UNCHANGED <<counted, mirror, rebuild, drift, stale, rebuilds, faults>>

-----------------------------------------------------------------------------
(* The ledger and the balance.                                             *)

\* The queue is released after the commit.  A posting that exceeds its timeout is
\* not cancelled, so postings of one request may land late and in any order.
PostsQueued(m) ==
  /\ at[m] = "queued"
  /\ at' = [at EXCEPT ![m] = "posted"]
  /\ UNCHANGED <<counters, held, effect, counted, mirror, rebuild, drift, stale, rebuilds, faults>>

\* The breaker is open, the posting fails (the error is swallowed), the process
\* dies after the commit, or the commit was reported as failed: no movement.
SkipsPosting(m) ==
  /\ Fault
  /\ at[m] = "queued"
  /\ at' = [at EXCEPT ![m] = "skipped"]
  /\ UNCHANGED <<counters, held, effect, counted, mirror, rebuild, drift, stale, rebuilds>>

\* Mutant: a posting that was a replay is folded again.
FoldsReplays(m) ==
  /\ at[m] \in {"posted", "folded"}
  /\ at' = [at EXCEPT ![m] = "folded"]
  /\ counted' = [counted EXCEPT ![m] = @ + 1]
  /\ UNCHANGED <<counters, held, effect, mirror, rebuild, drift, stale, rebuilds, faults>>

\* applyMovements: an atomic increment per balance.
Folds(m) ==
  /\ at[m] = "posted"
  /\ at' = [at EXCEPT ![m] = "folded"]
  /\ counted' = [counted EXCEPT ![m] = @ + 1]
  /\ UNCHANGED <<counters, held, effect, mirror, rebuild, drift, stale, rebuilds, faults>>

\* The process dies between posting and folding.
LosesFold(m) ==
  /\ Fault
  /\ at[m] = "posted"
  /\ at' = [at EXCEPT ![m] = "unfolded"]
  /\ drift' = TRUE
  /\ UNCHANGED <<counters, held, effect, counted, mirror, rebuild, stale, rebuilds>>

\* rebuildBalances aggregates the ledger ...
RebuildReads ==
  /\ rebuild = NoRebuild
  /\ rebuilds < MaxRebuilds /\ rebuilds' = rebuilds + 1
  /\ rebuild' = [running |-> TRUE, seen |-> Ledger]
  /\ UNCHANGED <<counters, held, effect, at, counted, mirror, drift, stale, faults>>

\* Mutant: a rebuild that increments the balance instead of setting it.
RebuildIncrements ==
  /\ rebuild # NoRebuild
  /\ counted' = [m \in Movement |-> IF m \in rebuild.seen THEN counted[m] + 1 ELSE 0]
  /\ drift' = (rebuild.seen # {m \in Movement : at[m] \in {"folded", "unfolded"}})
  /\ rebuild' = NoRebuild
  /\ UNCHANGED <<counters, held, effect, at, mirror, stale, rebuilds, faults>>

\* ... and then sets the balance to what it saw.  That is wrong, for good, if a
\* movement it saw is still to be folded, or one it did not see has been.
RebuildWrites ==
  /\ rebuild # NoRebuild
  /\ counted' = [m \in Movement |-> IF m \in rebuild.seen THEN 1 ELSE 0]
  /\ drift' = (rebuild.seen # {m \in Movement : at[m] \in {"folded", "unfolded"}})
  /\ rebuild' = NoRebuild
  /\ UNCHANGED <<counters, held, effect, at, mirror, stale, rebuilds, faults>>

-----------------------------------------------------------------------------
(* adjustStock.                                                            *)

\* Its reading of the balance, and the guards: something changes, the result is
\* not negative and not below what is reserved.
AdjustDecides(a) ==
  LET before == HandOf(counted)
      delta == IF Change[a].mode = "set" THEN Change[a].quantity - before ELSE Change[a].quantity
  IN  /\ at[a] = "none"
      /\ delta # 0
      /\ before + delta >= 0
      /\ before + delta >= ReservedOf(counted)
      /\ effect' = [effect EXCEPT ![a] = [hand |-> delta, reserved |-> 0]]
      /\ at' = [at EXCEPT ![a] = "decided"]
      /\ stale' = (stale \/ BalanceIsBehind)
      /\ UNCHANGED <<counters, held, counted, mirror, rebuild, drift, rebuilds, faults>>

AdjustPosts(a) ==
  /\ at[a] = "decided"
  /\ at' = [at EXCEPT ![a] = "posted"]
  /\ UNCHANGED <<counters, held, effect, counted, mirror, rebuild, drift, stale, rebuilds, faults>>

\* syncLegacyStock sums the balances ...
MirrorReads(a) ==
  /\ at[a] = "folded" /\ mirror[a] = NoCopy
  /\ mirror' = [mirror EXCEPT ![a] =
       [step |-> "read", hand |-> HandOf(counted), reserved |-> ReservedOf(counted),
        behind |-> BalanceIsBehind, asOf |-> Happened]]
  /\ UNCHANGED <<counters, held, effect, at, counted, rebuild, drift, stale, rebuilds, faults>>

\* ... and sets the product's counters to them.
MirrorWrites(a) ==
  /\ mirror[a].step = "read"
  /\ counters' = [total |-> mirror[a].hand, booked |-> mirror[a].reserved,
                  avail |-> mirror[a].hand - mirror[a].reserved]
  /\ stale' = (stale \/ mirror[a].behind \/ mirror[a].asOf # Happened)
  /\ mirror' = [mirror EXCEPT ![a] = [step |-> "done"]]
  /\ UNCHANGED <<held, effect, at, counted, rebuild, drift, rebuilds, faults>>

\* The process of an adjustment dies before its copy is made.
AdjustDies(a) ==
  /\ Fault
  /\ at[a] = "folded" /\ mirror[a].step # "done"
  /\ mirror' = [mirror EXCEPT ![a] = [step |-> "done"]]
  /\ stale' = TRUE
  /\ UNCHANGED <<counters, held, effect, at, counted, rebuild, drift, rebuilds>>

-----------------------------------------------------------------------------
ProjectionInit ==
  /\ counters = Shelf(Opening)
  /\ held = [l \in Line |-> "none"]
  /\ effect = [m \in Movement |-> NoEffect]
  /\ at = [m \in Movement |-> "none"]
  /\ counted = [m \in Movement |-> 0]
  /\ mirror = [a \in Adjustment |-> NoCopy]
  /\ rebuild = NoRebuild
  /\ drift = FALSE
  /\ stale = FALSE
  /\ faults = 0
  /\ rebuilds = 0

ProjectionNext ==
  \/ \E l \in Line : Books(l) \/ Releases(l) \/ Consumes(l)
  \/ \E m \in Movement : PostsQueued(m) \/ SkipsPosting(m) \/ Folds(m) \/ LosesFold(m)
  \/ RebuildReads
  \/ RebuildWrites
  \/ \E a \in Adjustment :
       AdjustDecides(a) \/ AdjustPosts(a) \/ MirrorReads(a) \/ MirrorWrites(a) \/ AdjustDies(a)

ProjectionSpec == ProjectionInit /\ [][ProjectionNext]_projectionVars

-----------------------------------------------------------------------------
(* Properties.                                                             *)

LiveUnits == Total(Units, {l \in Line : held[l] = "reserved"})
SoldUnits == Total(Units, {l \in Line : held[l] = "consumed"})

\* What the adjustments in the ledger have changed.
Adjusted == Total([a \in Adjustment |-> effect[a].hand], Adjustment \cap Ledger)

\* Incremental folding and rebuilding agree: once every posted movement has been
\* folded, the balance contains each movement of the ledger exactly once - however
\* postings, folds and rebuilds interleave, unless one was lost or crossed a
\* rebuild, and then until the next rebuild that nothing crosses.
BalanceIsLedger ==
  ~drift /\ (\A m \in Movement : at[m] # "posted") =>
    \A m \in Movement : counted[m] = (IF m \in Ledger THEN 1 ELSE 0)

\* What is booked is what the live lines hold ...
CopyKeepsBookings == counters.booked = LiveUnits

\* ... and, at rest, what is on hand is what was there at the start, plus the
\* adjustments, minus what was sold.
CopyKeepsStock ==
  (\A a \in Adjustment : at[a] \in {"none", "decided"} \/ mirror[a].step = "done") =>
    counters.total + SoldUnits = Opening + Adjusted

\* The copy of the balance over the counters undoes no booking, release, sale or
\* adjustment - as long as every copy was made from a balance that contained all that
\* had happened, and nothing happened between its reading and its writing.
CopyKeepsCounters == ~stale => CopyKeepsBookings /\ CopyKeepsStock
================================================================================
