------------------------------ MODULE UpcomingStock ------------------------------
(***************************************************************************)
(* upcomingStock.service.js for one SKU.  Nobody receives a shipment:      *)
(* every increase of stock that the ledger records counts as that much of  *)
(* the open shipment lines arriving, earliest ETA first.  A pass finds the *)
(* movements since it last looked, less a look-back, because a movement is *)
(* stamped when it is built and seen when it commits; several passes       *)
(* overlap.                                                                *)
(***************************************************************************)
EXTENDS Integers, Sequences, FiniteSetsExt, Functions, Totals

CONSTANTS
  Arrival,   \* ledger movements that mean "stock came in"
  Amount,    \* Amount[m]: units
  Shipment,  \* shipment lines
  Standing,  \* those recorded before the behaviour begins
  Expected,  \* Expected[s]: orderedQty as imported
  Eta,       \* Eta[s]: expected day; Unknown when there is none
  Edits,     \* quantities a line may be edited to
  Pass,      \* overlapping runs of syncUpcoming
  Waiting,   \* what the open indents may wait for, oldest first
  Lookback,  \* LOOKBACK_MS
  Unknown,   \* an ETA after every day
  MaxTime,   \* BOUND: the clock; nothing new begins at its last value
  MaxCalls   \* BOUND: edits and closings

ASSUME UpcomingAssumption ==
  /\ IsFiniteSet(Arrival) /\ IsFiniteSet(Shipment) /\ "none" \notin Shipment
  /\ Amount \in [Arrival -> Nat \ {0}]
  /\ Standing \subseteq Shipment
  /\ Expected \in [Shipment -> Nat \ {0}] /\ Eta \in [Shipment -> Nat]
  /\ Edits \subseteq Nat \ {0}
  /\ Waiting \subseteq Seq(Nat)
  /\ Lookback \in Nat /\ Unknown \in Nat /\ MaxTime \in Nat \ {0} /\ MaxCalls \in Nat

VARIABLES
  now,
  stamp,    \* stamp[m]: createdAt of movement m, 0 before it is built
  seen,     \* the movements whose transaction has committed
  shipment, \* shipment[s]: the line, NoShipment before it is recorded
  arrived,  \* arrived[m]: UpcomingArrival of m, units by line, or NotCounted
  synced,   \* syncedThrough of the SKU
  pass,     \* pass[p]: where pass p is
  calls     \* edits and closings so far

upcomingVars == <<now, stamp, seen, shipment, arrived, synced, pass, calls>>

ShipmentStatus == {"Open", "Partially Received", "Received", "Closed"}
NoShipment == [status |-> "none"]
NotCounted == [s \in {} |-> 0]
NoPass == [step |-> "none"]

Recorded == {s \in Shipment : shipment[s] # NoShipment}
OpenLines == {s \in Recorded : shipment[s].status \in {"Open", "Partially Received"}}

\* outstandingOf and shipmentStatusOf (a cancelled or deleted line is Closed).
Outstanding(l) == IF l.ordered > l.received + l.dropped THEN l.ordered - l.received - l.dropped ELSE 0
StatusOf(l) ==
  IF Outstanding(l) = 0 THEN "Received" ELSE IF l.received > 0 THEN "Partially Received" ELSE "Open"

\* The elements of S in ascending order of key, then of tie (and then of their ids:
\* any order that is always the same).
InOrder(S, key, tie) ==
  CHOOSE q \in Bijection(1..Cardinality(S), S) :
    \A i, j \in 1..Cardinality(S) :
      i < j => \/ key[q[i]] < key[q[j]]
               \/ key[q[i]] = key[q[j]] /\ tie[q[i]] <= tie[q[j]]
PositionOf(x, q) == CHOOSE i \in DOMAIN q : q[i] = x

\* byEta: the earliest first, undated last, then the oldest.
ByEta(lines) == InOrder(lines, [s \in lines |-> shipment[s].eta], [s \in lines |-> shipment[s].born])
ByStamp(ms) == InOrder(ms, stamp, stamp)

UpcomingTypeOK ==
  /\ now \in 1..MaxTime
  /\ stamp \in [Arrival -> 0..MaxTime] /\ seen \subseteq Arrival
  /\ \A s \in Recorded : shipment[s].status \in ShipmentStatus /\ shipment[s].received \in Nat
  /\ \A m \in Arrival : DOMAIN arrived[m] \subseteq Shipment \cup {"none"}
  /\ synced \in 0..MaxTime
  /\ \A p \in Pass : pass[p].step \in {"none", "since", "scan", "apply", "finish", "close"}

-----------------------------------------------------------------------------
(* Time and the ledger.                                                    *)

\* A transaction ends within the look-back: the database ends it after a minute.
Ticks ==
  /\ now < MaxTime
  /\ \A m \in Arrival : stamp[m] # 0 /\ m \notin seen => now - stamp[m] < Lookback
  /\ now' = now + 1
  /\ UNCHANGED <<stamp, seen, shipment, arrived, synced, pass, calls>>

BuildsMovement(m) ==
  /\ stamp[m] = 0 /\ now < MaxTime
  /\ stamp' = [stamp EXCEPT ![m] = now]
  /\ UNCHANGED <<now, seen, shipment, arrived, synced, pass, calls>>

CommitsMovement(m) ==
  /\ stamp[m] # 0 /\ m \notin seen
  /\ seen' = seen \cup {m}
  /\ UNCHANGED <<now, stamp, shipment, arrived, synced, pass, calls>>

-----------------------------------------------------------------------------
(* Shipment lines: each change is one transaction under the SKU's lock.    *)

NewLine(s, day) == [status |-> "Open", ordered |-> Expected[s], received |-> 0, dropped |-> 0,
                    eta |-> Eta[s], born |-> day]

\* commitImport.
RecordsShipment(s) ==
  /\ shipment[s] = NoShipment /\ now < MaxTime
  /\ shipment' = [shipment EXCEPT ![s] = NewLine(s, now)]
  /\ UNCHANGED <<now, stamp, seen, arrived, synced, pass, calls>>

\* updateShipment: not below what has arrived; the date may become unknown.
EditsShipment(s, q, eta) ==
  /\ s \in OpenLines /\ calls < MaxCalls
  /\ q >= shipment[s].received
  /\ <<q, eta>> # <<shipment[s].ordered, shipment[s].eta>>
  /\ LET l == [shipment[s] EXCEPT !.ordered = q, !.eta = eta]
     IN  shipment' = [shipment EXCEPT ![s] = [l EXCEPT !.status = StatusOf(l)]]
  /\ calls' = calls + 1
  /\ UNCHANGED <<now, stamp, seen, arrived, synced, pass>>

Closed(l) == [l EXCEPT !.dropped = @ + Outstanding(l), !.status = "Closed"]

\* closeShipment and deleteSkuEntries, after a pass of their own: what is still
\* outstanding on these lines, those that are open by now, is no longer expected.
ClosesShipments(p) ==
  /\ pass[p].step = "close"
  /\ shipment' = [s \in Shipment |-> IF s \in pass[p].closing \cap OpenLines
                                     THEN Closed(shipment[s]) ELSE shipment[s]]
  /\ pass' = [pass EXCEPT ![p] = NoPass]
  /\ UNCHANGED <<now, stamp, seen, arrived, synced, calls>>

-----------------------------------------------------------------------------
(* syncUpcoming.                                                           *)

EndsPass(p) ==
  pass' = [pass EXCEPT ![p] = IF pass[p].closing = {} THEN NoPass
                              ELSE [step |-> "close", closing |-> pass[p].closing]]

\* The open lines are read.  The pass may be the first half of a request to close
\* one of them, or whatever is open (closing = Shipment).
BeginsPass(p, closing) ==
  /\ pass[p] = NoPass
  /\ OpenLines # {}
  /\ closing \in {{}, Shipment} \cup {{s} : s \in OpenLines}
  /\ calls' = IF closing = {} THEN calls ELSE calls + 1
  /\ calls' <= MaxCalls
  /\ pass' = [pass EXCEPT ![p] = [step |-> "since", closing |-> closing,
                                  first |-> Min({shipment[s].born : s \in OpenLines})]]
  /\ UNCHANGED <<now, stamp, seen, shipment, arrived, synced>>

\* From the earliest open line, or from where the last pass stopped, less the
\* look-back; the scan starts now.
TakesSince(p) ==
  /\ pass[p].step = "since"
  /\ pass' = [pass EXCEPT ![p] = [step |-> "scan", closing |-> pass[p].closing, started |-> now,
                since |-> (IF pass[p].first > synced THEN pass[p].first ELSE synced) - Lookback]]
  /\ UNCHANGED <<now, stamp, seen, shipment, arrived, synced, calls>>

Finishing(p) == [step |-> "finish", closing |-> pass[p].closing, started |-> pass[p].started]

\* The movements committed since, not counted so far.
Scans(p) ==
  /\ pass[p].step = "scan"
  /\ LET found == {m \in seen : stamp[m] >= pass[p].since /\ arrived[m] = NotCounted}
     IN  pass' = [pass EXCEPT ![p] = IF found = {} THEN Finishing(p) ELSE
                    [step |-> "apply", closing |-> pass[p].closing, started |-> pass[p].started,
                     todo |-> found]]
  /\ UNCHANGED <<now, stamp, seen, shipment, arrived, synced, calls>>

\* What is left of some units after each part of a pool has taken what it can.
Left(units, pool) ==
  LET left[i \in 0..Len(pool)] ==
        IF i = 0 THEN units ELSE IF left[i - 1] > pool[i] THEN left[i - 1] - pool[i] ELSE 0
  IN  left

\* One movement against the lines: the earliest that was recorded before it and
\* still expects units takes what it can, then the next.
Takes(lines, m) ==
  LET eligible == {s \in DOMAIN lines : lines[s].born <= stamp[m]}
      order == ByEta(eligible)
      left == Left(Amount[m], [i \in DOMAIN order |-> Outstanding(lines[order[i]])])
  IN  [s \in eligible |-> left[PositionOf(s, order) - 1] - left[PositionOf(s, order)]]

Credit(l, units) ==
  IF units = 0 THEN l
  ELSE LET n == [l EXCEPT !.received = @ + units] IN [n EXCEPT !.status = StatusOf(n)]

Credited(lines, takes) ==
  [s \in DOMAIN lines |-> IF s \in DOMAIN takes THEN Credit(lines[s], takes[s]) ELSE lines[s]]

\* The movements of a pass in the order of their stamps: the lines they leave, and
\* what each of them takes off which line.
Counting(todo, lines) ==
  LET order == ByStamp(todo)
      after[i \in 0..Len(order)] ==
        IF i = 0 THEN lines ELSE Credited(after[i - 1], Takes(after[i - 1], order[i]))
  IN  [lines |-> after[Len(order)],
       takes |-> [m \in todo |-> Takes(after[PositionOf(m, order) - 1], m)]]

\* The UpcomingArrival of a movement: never NotCounted, also when no line took a unit.
Tally(takes) == [s \in DOMAIN takes \cup {"none"} |-> IF s \in DOMAIN takes THEN takes[s] ELSE 0]

\* The writes: an UpcomingArrival for each movement, the lines they changed, and how
\* far the SKU has been read.
Counts(todo) ==
  LET done == Counting(todo, [s \in OpenLines |-> shipment[s]])
  IN  /\ shipment' = [s \in Shipment |->
           IF s \in OpenLines THEN Credit(shipment[s], done.lines[s].received - shipment[s].received)
                              ELSE shipment[s]]
      /\ arrived' = [m \in Arrival |->
           IF m \in todo THEN Tally(done.takes[m]) ELSE arrived[m]]
      /\ synced' = Max({synced} \cup {stamp[m] : m \in todo})

\* Mutant: the pass counts what it found, without looking again in the transaction.
AppliesBlindly(p) ==
  /\ pass[p].step = "apply"
  /\ Counts(pass[p].todo)
  /\ pass' = [pass EXCEPT ![p] = Finishing(p)]
  /\ UNCHANGED <<now, stamp, seen, calls>>

\* applyArrivals, one transaction under the SKU's lock: movements another pass has
\* counted meanwhile are left out, and the open lines are read again.
Applies(p) ==
  /\ pass[p].step = "apply"
  /\ Counts({m \in pass[p].todo : arrived[m] = NotCounted})
  /\ pass' = [pass EXCEPT ![p] = Finishing(p)]
  /\ UNCHANGED <<now, stamp, seen, calls>>

\* Mutant: the SKU is marked as read up to the end of the pass.
FinishesNow(p) ==
  /\ pass[p].step = "finish"
  /\ synced' = now
  /\ EndsPass(p)
  /\ UNCHANGED <<now, stamp, seen, shipment, arrived, calls>>

\* Everything committed before the scan began has been looked at.
FinishesPass(p) ==
  /\ pass[p].step = "finish"
  /\ synced' = Max({synced, pass[p].started})
  /\ EndsPass(p)
  /\ UNCHANGED <<now, stamp, seen, shipment, arrived, calls>>

\* An error or a death ends a pass, and the request it was for, between its writes
\* (before them it leaves nothing behind).
DropsPass(p) ==
  /\ pass[p].step \in {"finish", "close"}
  /\ pass' = [pass EXCEPT ![p] = NoPass]
  /\ UNCHANGED <<now, stamp, seen, shipment, arrived, synced, calls>>

-----------------------------------------------------------------------------
(* allocateFifo: the upcoming units shared over the open indents.          *)

\* Mutant: an indent served in part gives its shipment up.
ServeWhole(need, pool) ==
  LET left == Left(need, pool)
  IN  [pool |-> [i \in DOMAIN pool |-> IF left[i - 1] > 0 THEN 0 ELSE pool[i]],
       got |-> need - left[Len(pool)]]

\* One indent takes from the shipments in order until it has what it needs.
Serve(need, pool) ==
  LET left == Left(need, pool)
  IN  [pool |-> [i \in DOMAIN pool |-> pool[i] - (left[i - 1] - left[i])],
       got |-> need - left[Len(pool)]]

AllocateFifo(pool, needs) ==
  LET after[i \in 0..Len(needs)] == IF i = 0 THEN pool ELSE Serve(needs[i], after[i - 1]).pool
  IN  [pool |-> after[Len(needs)],
       shares |-> [i \in DOMAIN needs |-> Serve(needs[i], after[i - 1]).got]]

-----------------------------------------------------------------------------
UpcomingInit ==
  /\ now = 1
  /\ stamp = [m \in Arrival |-> 0]
  /\ seen = {}
  /\ shipment = [s \in Shipment |-> IF s \in Standing THEN NewLine(s, 1) ELSE NoShipment]
  /\ arrived = [m \in Arrival |-> NotCounted]
  /\ synced = 0
  /\ pass = [p \in Pass |-> NoPass]
  /\ calls = 0

UpcomingNext ==
  \/ Ticks
  \/ \E m \in Arrival : BuildsMovement(m) \/ CommitsMovement(m)
  \/ \E s \in Shipment :
       \/ RecordsShipment(s)
       \/ \E q \in Edits, eta \in {Eta[s], Unknown} : EditsShipment(s, q, eta)
  \/ \E p \in Pass :
       \/ \E closing \in SUBSET Shipment : BeginsPass(p, closing)
       \/ TakesSince(p) \/ Scans(p) \/ Applies(p) \/ FinishesPass(p)
       \/ ClosesShipments(p) \/ DropsPass(p)

UpcomingSpec == UpcomingInit /\ [][UpcomingNext]_upcomingVars

-----------------------------------------------------------------------------
(* Properties.                                                             *)

\* The units of a line that arrival m was counted for.
CountedFor(m, s) == IF s \in DOMAIN arrived[m] THEN arrived[m][s] ELSE 0

\* Each increase of stock counts once, whichever passes overlap: a line has
\* received exactly what the arrivals credited to it, never more than was expected
\* of it, and no arrival credits more than came in.
ArrivalsAddUp ==
  /\ \A s \in Recorded :
       /\ shipment[s].received = Total([m \in Arrival |-> CountedFor(m, s)], Arrival)
       /\ shipment[s].received + shipment[s].dropped <= shipment[s].ordered
  /\ \A m \in Arrival : Total(arrived[m], DOMAIN arrived[m]) <= Amount[m]

\* "So a slow commit can land in the past": a committed increase that an open line
\* was recorded in time for, and that is not counted yet, is within reach of the
\* next pass, although passes that did not see it have moved on.
NothingMissed ==
  \A m \in seen : (arrived[m] = NotCounted /\ \E s \in OpenLines : shipment[s].born <= stamp[m])
                    => stamp[m] >= synced - Lookback

\* What a screen shows once its pass is over: the simulated allocation serves the
\* indents strictly in order - each gets what is left of the upcoming units after
\* those before it, up to its need - and what is not shared out remains.
FifoShares ==
  (\A p \in Pass : pass[p] = NoPass) =>
    LET lines == ByEta(OpenLines)
        pool == [i \in DOMAIN lines |-> Outstanding(shipment[lines[i]])]
        upcoming == Total([s \in OpenLines |-> Outstanding(shipment[s])], OpenLines)
    IN  \A needs \in Waiting :
          LET fifo == AllocateFifo(pool, needs)
              covered(i) == Min({Total(needs, 1..i), upcoming})
          IN  /\ \A i \in DOMAIN needs : fifo.shares[i] = covered(i) - covered(i - 1)
              /\ Total(fifo.pool, DOMAIN fifo.pool) = upcoming - covered(Len(needs))
================================================================================
