--------------------------- MODULE UpcomingStockProofs ---------------------------
(***************************************************************************)
(* What is proved of the shipments awaited (UpcomingStock).                *)
(*                                                                         *)
(* Nothing is missed: a movement commits within the look-back of its       *)
(* stamp, so whatever comes into sight late was stamped after now less the *)
(* look-back; hence what a pass has read so far - the earliest line, the   *)
(* mark, the movements it found - bounds everything that is due, now and   *)
(* later, and the mark it will write leaves all of that within reach.      *)
(*                                                                         *)
(* Nothing is counted twice: a line that may still take units has dropped  *)
(* none and no more was received than ordered; one movement takes what the *)
(* lines in their order leave it, and a pass is one movement after the     *)
(* other - both shown by induction along the order - so that each line     *)
(* receives the total of what the movements say they took from it.         *)
(*                                                                         *)
(* And the indents are served in order: after each of them the pool is     *)
(* what the needs so far leave of it.                                      *)
(***************************************************************************)
EXTENDS UpcomingStock, TotalsProofs

\* A nonempty bounded set of numbers has a largest one.
LEMMA MaxOf ==
  ASSUME NEW S \in SUBSET Nat, S # {}, NEW n \in Nat, \A x \in S : x <= n
  PROVE  Max(S) \in S /\ \A x \in S : x <= Max(S)
<1> DEFINE T == {n - x : x \in S}
<1>1. T \in SUBSET Nat
  <2>1. ASSUME NEW x \in S PROVE n - x \in Nat
    OBVIOUS
  <2> QED
    BY <2>1
<1>2. T # {}
  OBVIOUS
<1> HIDE DEF T
<1>3. PICK t \in T : \A u \in T : t <= u
  BY <1>1, <1>2, LeastOf
<1>4. PICK y \in S : t = n - y
  BY <1>3 DEF T
<1>5. \A x \in S : x <= y
  <2> SUFFICES ASSUME NEW x \in S PROVE x <= y
    OBVIOUS
  <2>1. n - x \in T
    BY DEF T
  <2>2. t <= n - x
    BY <1>3, <2>1
  <2>3. x \in Nat /\ y \in Nat
    OBVIOUS
  <2> QED
    BY <1>4, <2>2, <2>3
<1>6. \A x \in S : y >= x
  BY <1>5
<1> QED
  BY <1>6 DEF Max

-----------------------------------------------------------------------------
(* Nothing is missed.                                                      *)

\* A committed increase that is not counted yet and that an open line was recorded
\* in time for.
Due(m) ==
  m \in seen /\ arrived[m] = NotCounted /\ \E s \in OpenLines : shipment[s].born <= stamp[m]

\* A movement commits within the look-back.
Clocked ==
  /\ now \in Nat /\ synced \in Nat /\ synced <= now
  /\ stamp \in [Arrival -> Nat] /\ \A m \in Arrival : stamp[m] <= now
  /\ seen \subseteq Arrival /\ \A m \in seen : stamp[m] # 0
  /\ \A m \in Arrival : stamp[m] # 0 /\ m \notin seen => now <= stamp[m] + Lookback

LineFields == {"status", "ordered", "received", "dropped", "eta", "born"}
Lined ==
  /\ shipment = [s \in Shipment |-> shipment[s]]
  /\ \A s \in Shipment :
       \/ shipment[s] = NoShipment
       \/ DOMAIN shipment[s] = LineFields /\ shipment[s].born \in Nat /\ shipment[s].born <= now

\* What a pass has read is behind it: nothing that is due, by now, did it miss.
Reading(p) ==
  CASE pass[p].step = "since" ->
         /\ pass[p].first \in Nat /\ pass[p].first <= now
         /\ \A s \in OpenLines : pass[p].first <= shipment[s].born
    [] pass[p].step = "scan" ->
         /\ pass[p].started \in Nat /\ pass[p].started <= now
         /\ pass[p].since \in Int /\ pass[p].since + Lookback <= now
         /\ \A m \in Arrival : Due(m) => stamp[m] >= pass[p].since
    [] pass[p].step = "apply" ->
         /\ pass[p].started \in Nat /\ pass[p].started <= now
         /\ pass[p].todo \subseteq seen
         /\ \A m \in Arrival : Due(m) =>
              \/ m \in pass[p].todo
              \/ /\ stamp[m] >= pass[p].started - Lookback
                 /\ \A x \in pass[p].todo : stamp[m] >= stamp[x] - Lookback
    [] pass[p].step = "finish" ->
         /\ pass[p].started \in Nat /\ pass[p].started <= now
         /\ \A m \in Arrival : Due(m) => stamp[m] >= pass[p].started - Lookback
    [] OTHER -> TRUE

Passes == pass = [p \in Pass |-> pass[p]] /\ \A p \in Pass : Reading(p)

UpInv == Clocked /\ Lined /\ Passes /\ NothingMissed

\* A step that counts no movement for uncounted, opens no line but a new one, and sees
\* only what was built within the look-back.
Follows ==
  /\ now' \in Nat /\ now <= now'
  /\ \A m \in seen : m \in seen' /\ stamp'[m] = stamp[m]
  /\ \A s \in OpenLines' : \/ s \in OpenLines /\ shipment'[s].born = shipment[s].born
                           \/ shipment'[s].born = now
  /\ \A m \in Arrival : Due(m)' => Due(m) \/ stamp'[m] + Lookback >= now

LEMMA NowIs ==
  ASSUME UpInv
  PROVE  now \in Nat /\ synced \in Nat /\ Lookback \in Nat /\ synced <= now
         /\ \A m \in Arrival : stamp[m] \in Nat
  BY UpcomingAssumption DEF UpInv, Clocked

\* The passes that do not move have still missed nothing.
LEMMA OthersRead ==
  ASSUME UpInv, Clocked', Follows, NEW p \in Pass, pass'[p] = pass[p]
  PROVE  Reading(p)'
<1>1. Reading(p)
  BY DEF UpInv, Passes
<1>2. /\ now \in Nat /\ now' \in Nat /\ now <= now' /\ Lookback \in Nat
      /\ \A m \in Arrival : stamp[m] \in Nat /\ stamp'[m] \in Nat
  BY NowIs DEF Follows, Clocked
<1>3. \A m \in Arrival : Due(m) => stamp'[m] = stamp[m]
  BY DEF Follows, Due
<1>4. \A m \in Arrival : Due(m)' => Due(m) \/ stamp'[m] + Lookback >= now
  BY DEF Follows
<1>5. CASE pass[p].step = "since"
  <2>1. /\ pass[p].first \in Nat /\ pass[p].first <= now
        /\ \A s \in OpenLines : pass[p].first <= shipment[s].born
    BY <1>1, <1>5 DEF Reading
  <2>2. ASSUME NEW s \in OpenLines' PROVE pass[p].first <= shipment'[s].born
    BY <2>1 DEF Follows
  <2> QED
    BY <1>2, <1>5, <2>1, <2>2 DEF Reading
<1>6. CASE pass[p].step = "scan"
  <2>1. /\ pass[p].started \in Nat /\ pass[p].started <= now
        /\ pass[p].since \in Int /\ pass[p].since + Lookback <= now
        /\ \A m \in Arrival : Due(m) => stamp[m] >= pass[p].since
    BY <1>1, <1>6 DEF Reading
  <2>2. ASSUME NEW m \in Arrival, Due(m)' PROVE stamp'[m] >= pass[p].since
    <3>1. CASE Due(m)
      BY <1>3, <2>1, <3>1
    <3>2. CASE stamp'[m] + Lookback >= now
      BY <1>2, <2>1, <3>2
    <3> QED
      BY <1>4, <2>2, <3>1, <3>2
  <2> QED
    BY <1>2, <1>6, <2>1, <2>2 DEF Reading
<1>7. CASE pass[p].step = "apply"
  <2>1. /\ pass[p].started \in Nat /\ pass[p].started <= now
        /\ pass[p].todo \subseteq seen
        /\ \A m \in Arrival : Due(m) =>
             \/ m \in pass[p].todo
             \/ /\ stamp[m] >= pass[p].started - Lookback
                /\ \A x \in pass[p].todo : stamp[m] >= stamp[x] - Lookback
    BY <1>1, <1>7 DEF Reading
  <2>2. \A x \in pass[p].todo : x \in Arrival /\ x \in seen' /\ stamp'[x] = stamp[x] /\ stamp[x] <= now
    BY <2>1 DEF Follows, UpInv, Clocked
  <2>3. ASSUME NEW m \in Arrival, Due(m)'
        PROVE  \/ m \in pass[p].todo
               \/ /\ stamp'[m] >= pass[p].started - Lookback
                  /\ \A x \in pass[p].todo : stamp'[m] >= stamp'[x] - Lookback
    <3>1. CASE Due(m)
      BY <1>3, <2>1, <2>2, <3>1
    <3>2. CASE stamp'[m] + Lookback >= now
      BY <1>2, <2>1, <2>2, <3>2
    <3> QED
      BY <1>4, <2>3, <3>1, <3>2
  <2> QED
    BY <1>2, <1>7, <2>1, <2>2, <2>3 DEF Reading
<1>8. CASE pass[p].step = "finish"
  <2>1. /\ pass[p].started \in Nat /\ pass[p].started <= now
        /\ \A m \in Arrival : Due(m) => stamp[m] >= pass[p].started - Lookback
    BY <1>1, <1>8 DEF Reading
  <2>2. ASSUME NEW m \in Arrival, Due(m)' PROVE stamp'[m] >= pass[p].started - Lookback
    <3>1. CASE Due(m)
      BY <1>3, <2>1, <3>1
    <3>2. CASE stamp'[m] + Lookback >= now
      BY <1>2, <2>1, <3>2
    <3> QED
      BY <1>4, <2>2, <3>1, <3>2
  <2> QED
    BY <1>2, <1>8, <2>1, <2>2 DEF Reading
<1> QED
  BY <1>5, <1>6, <1>7, <1>8 DEF Reading

\* Where the reading mark stays, nothing new is beyond it.
LEMMA SameMark ==
  ASSUME UpInv, Clocked', Follows, synced' = synced
  PROVE  NothingMissed'
<1>1. /\ now \in Nat /\ synced \in Nat /\ Lookback \in Nat /\ synced <= now
      /\ \A m \in Arrival : stamp[m] \in Nat /\ stamp'[m] \in Nat
  BY NowIs DEF Clocked
<1>2. ASSUME NEW m \in Arrival, Due(m)' PROVE stamp'[m] >= synced - Lookback
  <2>1. CASE Due(m)
    <3>1. stamp[m] >= synced - Lookback
      BY <2>1 DEF UpInv, NothingMissed, Due
    <3> QED
      BY <2>1, <3>1 DEF Follows, Due
  <2>2. CASE stamp'[m] + Lookback >= now
    BY <1>1, <2>2
  <2> QED
    BY <1>2, <2>1, <2>2 DEF Follows
<1> QED
  BY <1>2 DEF NothingMissed, Due, Clocked

LEMMA PassesFollow ==
  ASSUME UpInv, Clocked', Follows, pass' = pass
  PROVE  Passes'
<1>1. \A p \in Pass : Reading(p)'
  BY OthersRead
<1> QED
  BY <1>1 DEF Passes, UpInv

\* One pass moves.
LEMMA OneMoves ==
  ASSUME UpInv, Clocked', Follows, NEW p \in Pass, NEW q, pass' = [pass EXCEPT ![p] = q], Reading(p)'
  PROVE  Passes'
<1>1. pass = [x \in Pass |-> pass[x]]
  BY DEF UpInv, Passes
<1>2. \A x \in Pass \ {p} : pass'[x] = pass[x]
  BY <1>1
<1>3. pass' = [x \in Pass |-> pass'[x]]
  BY <1>1
<1>4. \A x \in Pass : Reading(x)'
  BY <1>2, OthersRead
<1> QED
  BY <1>3, <1>4 DEF Passes

LEMMA MovedTo ==
  ASSUME UpInv, NEW p \in Pass, NEW q, pass' = [pass EXCEPT ![p] = q]
  PROVE  pass'[p] = q
<1>1. pass = [x \in Pass |-> pass[x]]
  BY DEF UpInv, Passes
<1> QED
  BY <1>1

\* A step that leaves the ledger and the lines alone.
LEMMA StillFollows ==
  ASSUME UpInv, UNCHANGED <<now, stamp, seen, shipment, arrived>>
  PROVE  Follows
<1>1. OpenLines' = OpenLines
  BY DEF OpenLines, Recorded
<1>2. \A m \in Arrival : Due(m)' => Due(m)
  BY <1>1 DEF Due
<1> QED
  BY <1>1, <1>2, NowIs DEF Follows

LEMMA StillClocked ==
  ASSUME UpInv, UNCHANGED <<now, stamp, seen, synced>>
  PROVE  Clocked'
  BY DEF UpInv, Clocked

\* The least and the largest of some numbers.
LEMMA MinOf ==
  ASSUME NEW S \in SUBSET Nat, S # {}
  PROVE  Min(S) \in S /\ \A x \in S : Min(S) <= x
  BY LeastOf DEF Min

\* What is done to a line leaves it a line of the same age.
SameLine(l, n) == DOMAIN n = LineFields /\ n.born = l.born

LEMMA NotALine == DOMAIN NoShipment # LineFields
<1>1. "born" \in LineFields /\ "born" \notin DOMAIN NoShipment
  BY DEF LineFields, NoShipment
<1> QED
  BY <1>1

LEMMA CreditedLine ==
  ASSUME NEW l, DOMAIN l = LineFields, NEW u
  PROVE  SameLine(l, Credit(l, u))
<1> DEFINE n == [l EXCEPT !.received = @ + u]
<1>1. DOMAIN n = LineFields /\ n.born = l.born
  BY DEF LineFields
<1> HIDE DEF n
<1>2. SameLine(l, [n EXCEPT !.status = StatusOf(n)])
  BY <1>1 DEF SameLine, LineFields
<1>3. Credit(l, u) = IF u = 0 THEN l ELSE [n EXCEPT !.status = StatusOf(n)]
  BY DEF Credit, n
<1> QED
  BY <1>2, <1>3 DEF SameLine

LEMMA ClosedLine ==
  ASSUME NEW l, DOMAIN l = LineFields
  PROVE  SameLine(l, Closed(l))
  BY DEF SameLine, Closed, LineFields

LEMMA EditedLine ==
  ASSUME NEW l, DOMAIN l = LineFields, NEW q, NEW e
  PROVE  LET n == [l EXCEPT !.ordered = q, !.eta = e] IN SameLine(l, [n EXCEPT !.status = StatusOf(n)])
<1> DEFINE n == [l EXCEPT !.ordered = q, !.eta = e]
<1>1. DOMAIN n = LineFields /\ n.born = l.born
  BY DEF LineFields
<1> HIDE DEF n
<1>2. SameLine(l, [n EXCEPT !.status = StatusOf(n)])
  BY <1>1 DEF SameLine, LineFields
<1> QED
  BY <1>2 DEF n

LEMMA FirstLine ==
  ASSUME NEW s, NEW day
  PROVE  DOMAIN NewLine(s, day) = LineFields /\ NewLine(s, day).born = day
  BY DEF NewLine, LineFields

\* Lines that stay the lines they are, or are recorded just now.
LineSteps ==
  /\ shipment' = [s \in Shipment |-> shipment'[s]]
  /\ \A s \in Shipment :
       \/ shipment'[s] = shipment[s]
       \/ s \in OpenLines /\ SameLine(shipment[s], shipment'[s])
       \/ DOMAIN shipment'[s] = LineFields /\ shipment'[s].born = now

LEMMA LinesKept ==
  ASSUME UpInv, now' = now, LineSteps
  PROVE  Lined' /\ \A s \in OpenLines' : \/ s \in OpenLines /\ shipment'[s].born = shipment[s].born
                                         \/ shipment'[s].born = now
<1>1. \A s \in Shipment :
       \/ shipment[s] = NoShipment
       \/ DOMAIN shipment[s] = LineFields /\ shipment[s].born \in Nat /\ shipment[s].born <= now
  BY DEF UpInv, Lined
<1>2. now \in Nat
  BY NowIs
<1>3. \A s \in OpenLines : s \in Shipment /\ shipment[s] # NoShipment
  BY DEF OpenLines, Recorded
<1>4. Lined'
  BY <1>1, <1>2, <1>3 DEF Lined, LineSteps, SameLine
<1>5. ASSUME NEW s \in OpenLines'
      PROVE  \/ s \in OpenLines /\ shipment'[s].born = shipment[s].born
             \/ shipment'[s].born = now
  <2>1. s \in Shipment /\ shipment'[s] # NoShipment
        /\ shipment'[s].status \in {"Open", "Partially Received"}
    BY <1>5 DEF OpenLines, Recorded
  <2>2. CASE shipment'[s] = shipment[s]
    BY <2>1, <2>2 DEF OpenLines, Recorded
  <2> QED
    BY <2>1, <2>2 DEF LineSteps, SameLine
<1> QED
  BY <1>4, <1>5

LEMMA LinesFollow ==
  ASSUME UpInv, UNCHANGED <<now, stamp, seen>>, LineSteps,
         \A m \in Arrival : arrived'[m] = NotCounted => arrived[m] = NotCounted
  PROVE  Follows /\ Lined'
<1>1. \A s \in OpenLines' : \/ s \in OpenLines /\ shipment'[s].born = shipment[s].born
                            \/ shipment'[s].born = now
  BY LinesKept
<1>2. now \in Nat /\ Lookback \in Nat /\ \A m \in Arrival : stamp[m] \in Nat
  BY NowIs
<1>3. ASSUME NEW m \in Arrival, Due(m)' PROVE Due(m) \/ stamp'[m] + Lookback >= now
  <2>1. m \in seen /\ arrived[m] = NotCounted
    BY <1>3 DEF Due
  <2>2. PICK s \in OpenLines' : shipment'[s].born <= stamp'[m]
    BY <1>3 DEF Due
  <2>3. CASE s \in OpenLines /\ shipment'[s].born = shipment[s].born
    BY <2>1, <2>2, <2>3 DEF Due
  <2>4. CASE shipment'[s].born = now
    BY <1>2, <2>2, <2>4
  <2> QED
    BY <1>1, <2>3, <2>4
<1> QED
  BY <1>1, <1>2, <1>3, LinesKept DEF Follows

-----------------------------------------------------------------------------
LEMMA StillLined ==
  ASSUME UpInv, shipment' = shipment, now' \in Nat, now <= now'
  PROVE  Lined'
<1>1. now \in Nat
  BY NowIs
<1> QED
  BY <1>1 DEF UpInv, Lined

LEMMA TicksKeeps ==
  ASSUME UpInv, Ticks
  PROVE  UpInv'
<1>1. /\ now \in Nat /\ synced \in Nat /\ Lookback \in Nat /\ synced <= now
      /\ stamp \in [Arrival -> Nat] /\ \A m \in Arrival : stamp[m] <= now
  BY NowIs DEF UpInv, Clocked
<1>2. now' = now + 1 /\ UNCHANGED <<stamp, seen, shipment, arrived, synced, pass>>
  BY DEF Ticks
<1>3. \A m \in Arrival : stamp[m] # 0 /\ m \notin seen => now' <= stamp[m] + Lookback
  BY <1>1, <1>2 DEF Ticks
<1>4. Clocked'
  BY <1>1, <1>2, <1>3 DEF UpInv, Clocked
<1>5. Follows
  <2>1. OpenLines' = OpenLines
    BY <1>2 DEF OpenLines, Recorded
  <2>2. \A m \in Arrival : Due(m)' => Due(m)
    BY <1>2, <2>1 DEF Due
  <2> QED
    BY <1>1, <1>2, <2>1, <2>2 DEF Follows
<1>6. Lined'
  BY <1>1, <1>2, StillLined
<1> QED
  BY <1>2, <1>4, <1>5, <1>6, SameMark, PassesFollow DEF UpInv

LEMMA BuildsMovementKeeps ==
  ASSUME UpInv, NEW x \in Arrival, BuildsMovement(x)
  PROVE  UpInv'
<1>1. /\ now \in Nat /\ synced \in Nat /\ Lookback \in Nat /\ synced <= now
      /\ stamp \in [Arrival -> Nat] /\ \A m \in Arrival : stamp[m] <= now
      /\ seen \subseteq Arrival /\ \A m \in seen : stamp[m] # 0
  BY NowIs DEF UpInv, Clocked
<1>2. /\ stamp' = [stamp EXCEPT ![x] = now] /\ stamp[x] = 0
      /\ UNCHANGED <<now, seen, shipment, arrived, synced, pass>>
  BY DEF BuildsMovement
<1>3. stamp'[x] = now /\ (\A m \in Arrival \ {x} : stamp'[m] = stamp[m]) /\ x \notin seen
  BY <1>1, <1>2
<1>4. Clocked'
  BY <1>1, <1>2, <1>3 DEF UpInv, Clocked
<1>5. Follows
  <2>1. OpenLines' = OpenLines
    BY <1>2 DEF OpenLines, Recorded
  <2>2. \A m \in Arrival : Due(m)' => Due(m)
    BY <1>2, <1>3, <2>1 DEF Due
  <2> QED
    BY <1>1, <1>2, <1>3, <2>1, <2>2 DEF Follows
<1>6. Lined'
  BY <1>1, <1>2, StillLined
<1> QED
  BY <1>2, <1>4, <1>5, <1>6, SameMark, PassesFollow DEF UpInv

LEMMA CommitsMovementKeeps ==
  ASSUME UpInv, NEW x \in Arrival, CommitsMovement(x)
  PROVE  UpInv'
<1>1. /\ now \in Nat /\ synced \in Nat /\ Lookback \in Nat /\ synced <= now
      /\ stamp \in [Arrival -> Nat] /\ \A m \in Arrival : stamp[m] <= now
      /\ \A m \in Arrival : stamp[m] # 0 /\ m \notin seen => now <= stamp[m] + Lookback
  BY NowIs DEF UpInv, Clocked
<1>2. /\ seen' = seen \cup {x} /\ stamp[x] # 0 /\ x \notin seen
      /\ UNCHANGED <<now, stamp, shipment, arrived, synced, pass>>
  BY DEF CommitsMovement
<1>3. Clocked'
  BY <1>1, <1>2 DEF UpInv, Clocked
<1>4. Follows
  <2>1. OpenLines' = OpenLines
    BY <1>2 DEF OpenLines, Recorded
  <2>2. \A m \in Arrival : Due(m)' => Due(m) \/ m = x
    BY <1>2, <2>1 DEF Due
  <2>3. stamp[x] + Lookback >= now
    BY <1>1, <1>2
  <2> QED
    BY <1>1, <1>2, <2>1, <2>2, <2>3 DEF Follows
<1>5. Lined'
  BY <1>1, <1>2, StillLined
<1> QED
  BY <1>2, <1>3, <1>4, <1>5, SameMark, PassesFollow DEF UpInv

LEMMA RecordsShipmentKeeps ==
  ASSUME UpInv, NEW s \in Shipment, RecordsShipment(s)
  PROVE  UpInv'
<1>1. /\ shipment' = [shipment EXCEPT ![s] = NewLine(s, now)]
      /\ UNCHANGED <<now, stamp, seen, arrived, synced, pass>>
  BY DEF RecordsShipment
<1>2. shipment = [x \in Shipment |-> shipment[x]]
  BY DEF UpInv, Lined
<1>3. shipment'[s] = NewLine(s, now) /\ (\A x \in Shipment \ {s} : shipment'[x] = shipment[x])
      /\ shipment' = [x \in Shipment |-> shipment'[x]]
  BY <1>1, <1>2
<1>4. LineSteps
  BY <1>3, FirstLine DEF LineSteps
<1>5. Follows /\ Lined' /\ Clocked'
  BY <1>1, <1>4, LinesFollow, StillClocked
<1> QED
  BY <1>1, <1>5, SameMark, PassesFollow DEF UpInv

LEMMA EditsShipmentKeeps ==
  ASSUME UpInv, NEW s \in Shipment, NEW q, NEW eta, EditsShipment(s, q, eta)
  PROVE  UpInv'
<1> DEFINE l == [shipment[s] EXCEPT !.ordered = q, !.eta = eta]
           n == [l EXCEPT !.status = StatusOf(l)]
<1>1. /\ shipment' = [shipment EXCEPT ![s] = n] /\ s \in OpenLines
      /\ UNCHANGED <<now, stamp, seen, arrived, synced, pass>>
  BY DEF EditsShipment
<1>2. DOMAIN shipment[s] = LineFields
  BY <1>1 DEF UpInv, Lined, OpenLines, Recorded
<1>3. SameLine(shipment[s], n)
  BY <1>2, EditedLine
<1> HIDE DEF l, n
<1>4. shipment = [x \in Shipment |-> shipment[x]]
  BY DEF UpInv, Lined
<1>5. shipment'[s] = n /\ (\A x \in Shipment \ {s} : shipment'[x] = shipment[x])
      /\ shipment' = [x \in Shipment |-> shipment'[x]]
  BY <1>1, <1>4
<1>6. LineSteps
  BY <1>1, <1>3, <1>5 DEF LineSteps
<1>7. Follows /\ Lined' /\ Clocked'
  BY <1>1, <1>6, LinesFollow, StillClocked
<1> QED
  BY <1>1, <1>7, SameMark, PassesFollow DEF UpInv

\* A pass that is over has nothing to have missed.
LEMMA RestsRead ==
  ASSUME NEW p, pass'[p] = NoPass \/ pass'[p].step = "close"
  PROVE  Reading(p)'
<1>1. NoPass.step = "none"
  BY DEF NoPass
<1>2. pass'[p].step \in {"none", "close"}
  BY <1>1
<1> QED
  BY <1>2 DEF Reading

LEMMA ClosesShipmentsKeeps ==
  ASSUME UpInv, NEW p \in Pass, ClosesShipments(p)
  PROVE  UpInv'
<1>1. /\ shipment' = [s \in Shipment |-> IF s \in pass[p].closing \cap OpenLines
                                         THEN Closed(shipment[s]) ELSE shipment[s]]
      /\ pass' = [pass EXCEPT ![p] = NoPass]
      /\ UNCHANGED <<now, stamp, seen, arrived, synced>>
  BY DEF ClosesShipments
<1>2. \A s \in OpenLines : DOMAIN shipment[s] = LineFields
  BY DEF UpInv, Lined, OpenLines, Recorded
<1>3. LineSteps
  BY <1>1, <1>2, ClosedLine DEF LineSteps
<1>4. Follows /\ Lined' /\ Clocked'
  BY <1>1, <1>3, LinesFollow, StillClocked
<1>5. Reading(p)'
  BY <1>1, MovedTo, RestsRead
<1> QED
  BY <1>1, <1>4, <1>5, SameMark, OneMoves DEF UpInv

LEMMA StillReading ==
  ASSUME UpInv, UNCHANGED <<now, stamp, seen, shipment, arrived>>
  PROVE  Follows /\ Lined' /\ (synced' = synced => Clocked' /\ NothingMissed')
         /\ (\A m \in Arrival : Due(m)' <=> Due(m)) /\ OpenLines' = OpenLines
<1>1. OpenLines' = OpenLines
  BY DEF OpenLines, Recorded
<1>2. \A m \in Arrival : Due(m)' <=> Due(m)
  BY <1>1 DEF Due
<1>3. Follows /\ Lined'
  BY StillFollows, StillLined, NowIs
<1>4. ASSUME synced' = synced PROVE Clocked' /\ NothingMissed'
  BY <1>3, <1>4, StillClocked, SameMark
<1> QED
  BY <1>1, <1>2, <1>3, <1>4

LEMMA BeginsPassKeeps ==
  ASSUME UpInv, NEW p \in Pass, NEW closing, BeginsPass(p, closing)
  PROVE  UpInv'
<1> DEFINE born == {shipment[s].born : s \in OpenLines}
           q == [step |-> "since", closing |-> closing, first |-> Min(born)]
<1>1. /\ pass' = [pass EXCEPT ![p] = q] /\ OpenLines # {}
      /\ UNCHANGED <<now, stamp, seen, shipment, arrived, synced>>
  BY DEF BeginsPass
<1>2. \A s \in OpenLines : shipment[s].born \in Nat /\ shipment[s].born <= now
  BY DEF UpInv, Lined, OpenLines, Recorded
<1>3. born \in SUBSET Nat /\ born # {}
  BY <1>1, <1>2
<1>4. /\ Min(born) \in Nat /\ Min(born) <= now
      /\ \A s \in OpenLines : Min(born) <= shipment[s].born
  <2>1. Min(born) \in born /\ \A x \in born : Min(born) <= x
    BY <1>3, MinOf
  <2> QED
    BY <1>2, <2>1
<1>5. q.step = "since" /\ q.first = Min(born)
  OBVIOUS
<1> HIDE DEF born, q
<1>6. pass'[p] = q
  BY <1>1, MovedTo
<1>7. Follows /\ Lined' /\ Clocked' /\ NothingMissed' /\ OpenLines' = OpenLines
  BY <1>1, StillReading
<1>8. Reading(p)'
  BY <1>1, <1>4, <1>5, <1>6, <1>7 DEF Reading
<1> QED
  BY <1>1, <1>7, <1>8, OneMoves DEF UpInv

LEMMA TakesSinceKeeps ==
  ASSUME UpInv, NEW p \in Pass, TakesSince(p)
  PROVE  UpInv'
<1> DEFINE from == IF pass[p].first > synced THEN pass[p].first ELSE synced
           q == [step |-> "scan", closing |-> pass[p].closing, started |-> now, since |-> from - Lookback]
<1>1. /\ pass' = [pass EXCEPT ![p] = q] /\ pass[p].step = "since"
      /\ UNCHANGED <<now, stamp, seen, shipment, arrived, synced>>
  BY DEF TakesSince
<1>2. /\ now \in Nat /\ synced \in Nat /\ Lookback \in Nat /\ synced <= now
      /\ \A m \in Arrival : stamp[m] \in Nat
  BY NowIs
<1>3. /\ pass[p].first \in Nat /\ pass[p].first <= now
      /\ \A s \in OpenLines : pass[p].first <= shipment[s].born
  BY <1>1 DEF UpInv, Passes, Reading
<1>4. from \in Nat /\ from <= now
  BY <1>2, <1>3
<1>5. ASSUME NEW m \in Arrival, Due(m) PROVE stamp[m] >= from - Lookback
  <2>1. stamp[m] >= synced - Lookback
    BY <1>5 DEF UpInv, NothingMissed, Due
  <2>2. PICK s \in OpenLines : shipment[s].born <= stamp[m]
    BY <1>5 DEF Due
  <2>3. shipment[s].born \in Nat
    BY DEF UpInv, Lined, OpenLines, Recorded
  <2>4. pass[p].first <= stamp[m]
    BY <1>2, <1>3, <2>2, <2>3
  <2> QED
    BY <1>2, <1>3, <2>1, <2>4
<1>6. q.step = "scan" /\ q.started = now /\ q.since = from - Lookback
  OBVIOUS
<1> HIDE DEF from, q
<1>7. pass'[p] = q
  BY <1>1, MovedTo
<1>8. Follows /\ Lined' /\ Clocked' /\ NothingMissed' /\ \A m \in Arrival : Due(m)' <=> Due(m)
  BY <1>1, StillReading
<1>9. q.since \in Int /\ q.since + Lookback <= now
  BY <1>2, <1>4, <1>6
<1>10. Reading(p)'
  BY <1>1, <1>2, <1>5, <1>6, <1>7, <1>8, <1>9 DEF Reading
<1> QED
  BY <1>1, <1>8, <1>10, OneMoves DEF UpInv

LEMMA ScansKeeps ==
  ASSUME UpInv, NEW p \in Pass, Scans(p)
  PROVE  UpInv'
<1> DEFINE found == {m \in seen : stamp[m] >= pass[p].since /\ arrived[m] = NotCounted}
           q1 == [step |-> "finish", closing |-> pass[p].closing, started |-> pass[p].started]
           q2 == [step |-> "apply", closing |-> pass[p].closing, started |-> pass[p].started,
                  todo |-> found]
           q == IF found = {} THEN q1 ELSE q2
<1>1. /\ pass' = [pass EXCEPT ![p] = q] /\ pass[p].step = "scan"
      /\ UNCHANGED <<now, stamp, seen, shipment, arrived, synced>>
  BY DEF Scans, Finishing
<1>2. /\ pass[p].started \in Nat /\ pass[p].started <= now
      /\ \A m \in Arrival : Due(m) => stamp[m] >= pass[p].since
  BY <1>1 DEF UpInv, Passes, Reading
<1>3. \A m \in Arrival : Due(m) => m \in found
  BY <1>2 DEF Due
<1>4. q1.step = "finish" /\ q1.started = pass[p].started
  OBVIOUS
<1>5. q2.step = "apply" /\ q2.started = pass[p].started /\ q2.todo = found /\ found \subseteq seen
  OBVIOUS
<1> HIDE DEF q1, q2
<1>6. (found = {} => q = q1) /\ (found # {} => q = q2)
  OBVIOUS
<1> HIDE DEF found, q
<1>7. pass'[p] = q
  BY <1>1, MovedTo
<1>8. Follows /\ Lined' /\ Clocked' /\ NothingMissed' /\ \A m \in Arrival : Due(m)' <=> Due(m)
  BY <1>1, StillReading
<1>9. ASSUME found = {} PROVE Reading(p)'
  <2>1. pass'[p] = q1
    BY <1>6, <1>7, <1>9
  <2>2. pass'[p].step = "finish" /\ pass'[p].started = pass[p].started
    BY <1>4, <2>1
  <2>3. \A m \in Arrival : ~Due(m)'
    BY <1>3, <1>8, <1>9
  <2>4. now' = now
    BY <1>1
  <2> QED
    BY <1>2, <2>2, <2>3, <2>4 DEF Reading
<1>10. ASSUME found # {} PROVE Reading(p)'
  <2>1. pass'[p] = q2
    BY <1>6, <1>7, <1>10
  <2>2. /\ pass'[p].step = "apply" /\ pass'[p].started = pass[p].started
        /\ pass'[p].todo = found /\ found \subseteq seen
    BY <1>5, <2>1
  <2>3. \A m \in Arrival : Due(m)' => m \in found
    BY <1>3, <1>8
  <2>4. now' = now /\ seen' = seen
    BY <1>1
  <2> QED
    BY <1>2, <2>2, <2>3, <2>4 DEF Reading
<1> QED
  BY <1>1, <1>8, <1>9, <1>10, OneMoves DEF UpInv

\* A movement that is counted is not uncounted.
LEMMA CountedIs ==
  ASSUME NEW takes
  PROVE  Tally(takes) # NotCounted
<1>1. "none" \in DOMAIN Tally(takes)
  BY DEF Tally
<1>2. "none" \notin DOMAIN NotCounted
  BY DEF NotCounted
<1> QED
  BY <1>1, <1>2

LEMMA AppliesKeeps ==
  ASSUME UpInv, NEW p \in Pass, Applies(p)
  PROVE  UpInv'
<1> DEFINE todo == {m \in pass[p].todo : arrived[m] = NotCounted}
           done == Counting(todo, [s \in OpenLines |-> shipment[s]])
           read == {synced} \cup {stamp[m] : m \in todo}
           q == [step |-> "finish", closing |-> pass[p].closing, started |-> pass[p].started]
<1>1. /\ shipment' = [s \in Shipment |->
           IF s \in OpenLines THEN Credit(shipment[s], done.lines[s].received - shipment[s].received)
                              ELSE shipment[s]]
      /\ arrived' = [m \in Arrival |->
           IF m \in todo THEN Tally(done.takes[m]) ELSE arrived[m]]
      /\ synced' = Max(read) /\ pass[p].step = "apply"
      /\ pass' = [pass EXCEPT ![p] = q]
      /\ UNCHANGED <<now, stamp, seen>>
  BY DEF Applies, Counts, Finishing
<1> HIDE DEF done
<1>2. /\ pass[p].started \in Nat /\ pass[p].started <= now
      /\ pass[p].todo \subseteq seen
      /\ \A m \in Arrival : Due(m) =>
           \/ m \in pass[p].todo
           \/ /\ stamp[m] >= pass[p].started - Lookback
              /\ \A x \in pass[p].todo : stamp[m] >= stamp[x] - Lookback
  BY <1>1 DEF UpInv, Passes, Reading
<1>3. /\ now \in Nat /\ synced \in Nat /\ Lookback \in Nat /\ synced <= now
      /\ stamp \in [Arrival -> Nat] /\ (\A m \in Arrival : stamp[m] <= now) /\ seen \subseteq Arrival
  BY NowIs DEF UpInv, Clocked
<1>4. \A s \in OpenLines : DOMAIN shipment[s] = LineFields
  BY DEF UpInv, Lined, OpenLines, Recorded
<1>5. LineSteps
  <2>1. \A s \in OpenLines : SameLine(shipment[s], shipment'[s])
    <3> SUFFICES ASSUME NEW s \in OpenLines PROVE SameLine(shipment[s], shipment'[s])
      OBVIOUS
    <3>1. shipment'[s] = Credit(shipment[s], done.lines[s].received - shipment[s].received)
      BY <1>1 DEF OpenLines, Recorded
    <3> QED
      BY <1>4, <3>1, CreditedLine
  <2>2. shipment' = [s \in Shipment |-> shipment'[s]]
    BY <1>1
  <2>3. \A s \in Shipment : s \notin OpenLines => shipment'[s] = shipment[s]
    BY <1>1
  <2> QED
    BY <2>1, <2>2, <2>3 DEF LineSteps
<1>6. \A m \in Arrival : arrived'[m] = NotCounted => arrived[m] = NotCounted /\ m \notin pass[p].todo
  <2> SUFFICES ASSUME NEW m \in Arrival, arrived'[m] = NotCounted
               PROVE  arrived[m] = NotCounted /\ m \notin pass[p].todo
    OBVIOUS
  <2>1. m \notin todo
    <3>1. m \in todo => arrived'[m] = Tally(done.takes[m])
      BY <1>1
    <3> QED
      BY <3>1, CountedIs
  <2>2. arrived'[m] = arrived[m]
    BY <1>1, <2>1
  <2> QED
    BY <2>1, <2>2
<1>7. Follows /\ Lined'
  BY <1>1, <1>5, <1>6, LinesFollow
<1>8. /\ synced' \in Nat /\ synced' <= now
      /\ synced' = synced \/ \E x \in pass[p].todo : synced' = stamp[x]
  <2>1. read \in SUBSET Nat /\ read # {} /\ \A x \in read : x <= now
    BY <1>2, <1>3
  <2>2. Max(read) \in read
    BY <1>3, <2>1, MaxOf
  <2> QED
    BY <1>1, <1>2, <1>3, <2>1, <2>2
<1>9. Clocked'
  BY <1>1, <1>3, <1>8 DEF UpInv, Clocked
\* What is due now was not found, or has come since.
<1>10. ASSUME NEW m \in Arrival, Due(m)'
       PROVE  \/ stamp[m] + Lookback >= now
              \/ /\ stamp[m] >= pass[p].started - Lookback
                 /\ stamp[m] >= synced - Lookback
                 /\ \A x \in pass[p].todo : stamp[m] >= stamp[x] - Lookback
  <2>1. m \notin pass[p].todo
    BY <1>6, <1>10 DEF Due
  <2>2. CASE Due(m)
    <3>1. stamp[m] >= synced - Lookback
      BY <2>2 DEF UpInv, NothingMissed, Due
    <3> QED
      BY <1>2, <2>1, <2>2, <3>1
  <2> QED
    BY <1>1, <1>7, <1>10, <2>2 DEF Follows
<1>11. ASSUME NEW m \in Arrival, Due(m)'
       PROVE  stamp[m] >= pass[p].started - Lookback /\ stamp[m] >= synced' - Lookback
  <2>1. \A x \in pass[p].todo : stamp[x] \in Nat /\ stamp[x] <= now
    BY <1>2, <1>3
  <2>2. stamp[m] \in Nat
    BY <1>3
  <2>3. CASE stamp[m] + Lookback >= now
    BY <1>2, <1>3, <1>8, <2>2, <2>3
  <2>4. CASE /\ stamp[m] >= pass[p].started - Lookback
             /\ stamp[m] >= synced - Lookback
             /\ \A x \in pass[p].todo : stamp[m] >= stamp[x] - Lookback
    BY <1>8, <2>4
  <2> QED
    BY <1>10, <1>11, <2>3, <2>4
<1>12. NothingMissed'
  BY <1>1, <1>3, <1>11 DEF NothingMissed, Due
<1>13. q.step = "finish" /\ q.started = pass[p].started
  OBVIOUS
<1> HIDE DEF q, todo, read
<1>14. pass'[p] = q
  BY <1>1, MovedTo
<1>15. Reading(p)'
  BY <1>1, <1>2, <1>11, <1>13, <1>14 DEF Reading
<1> QED
  BY <1>1, <1>7, <1>9, <1>12, <1>15, OneMoves DEF UpInv

LEMMA FinishesPassKeeps ==
  ASSUME UpInv, NEW p \in Pass, FinishesPass(p)
  PROVE  UpInv'
<1> DEFINE q == IF pass[p].closing = {} THEN NoPass ELSE [step |-> "close", closing |-> pass[p].closing]
           read == {synced, pass[p].started}
<1>1. /\ pass' = [pass EXCEPT ![p] = q] /\ pass[p].step = "finish" /\ synced' = Max(read)
      /\ UNCHANGED <<now, stamp, seen, shipment, arrived>>
  BY DEF FinishesPass, EndsPass
<1>2. /\ pass[p].started \in Nat /\ pass[p].started <= now
      /\ \A m \in Arrival : Due(m) => stamp[m] >= pass[p].started - Lookback
  BY <1>1 DEF UpInv, Passes, Reading
<1>3. now \in Nat /\ synced \in Nat /\ Lookback \in Nat /\ synced <= now
  BY NowIs
<1>4. synced' \in read
  <2>1. read \in SUBSET Nat /\ read # {} /\ \A x \in read : x <= now
    BY <1>2, <1>3
  <2> QED
    BY <1>1, <1>3, <2>1, MaxOf
<1>5. Follows /\ Lined' /\ \A m \in Arrival : Due(m)' <=> Due(m)
  BY <1>1, StillReading
<1>6. Clocked'
  BY <1>1, <1>2, <1>3, <1>4 DEF UpInv, Clocked
<1>7. NothingMissed'
  <2>1. ASSUME NEW m \in Arrival, Due(m) PROVE stamp[m] >= synced' - Lookback
    <3>1. stamp[m] >= synced - Lookback
      BY <2>1 DEF UpInv, NothingMissed, Due
    <3> QED
      BY <1>2, <1>4, <2>1, <3>1
  <2>2. seen \subseteq Arrival
    BY DEF UpInv, Clocked
  <2> QED
    BY <1>1, <1>5, <2>1, <2>2 DEF NothingMissed, Due
<1>8. q = NoPass \/ q.step = "close"
  OBVIOUS
<1> HIDE DEF q, read
<1>9. Reading(p)'
  BY <1>1, <1>8, MovedTo, RestsRead
<1> QED
  BY <1>1, <1>5, <1>6, <1>7, <1>9, OneMoves DEF UpInv

LEMMA DropsPassKeeps ==
  ASSUME UpInv, NEW p \in Pass, DropsPass(p)
  PROVE  UpInv'
<1>1. pass' = [pass EXCEPT ![p] = NoPass] /\ UNCHANGED <<now, stamp, seen, shipment, arrived, synced>>
  BY DEF DropsPass
<1>2. Follows /\ Lined' /\ Clocked' /\ NothingMissed'
  BY <1>1, StillReading
<1>3. Reading(p)'
  BY <1>1, MovedTo, RestsRead
<1> QED
  BY <1>1, <1>2, <1>3, OneMoves DEF UpInv

LEMMA UpcomingBegins == UpcomingInit => UpInv
<1> SUFFICES ASSUME UpcomingInit PROVE UpInv
  OBVIOUS
<1>1. Clocked
  BY UpcomingAssumption DEF UpcomingInit, Clocked
<1>2. Lined
  <2>1. \A s \in Shipment : shipment[s] = IF s \in Standing THEN NewLine(s, 1) ELSE NoShipment
    BY DEF UpcomingInit
  <2>2. now = 1 /\ shipment = [s \in Shipment |-> shipment[s]]
    BY DEF UpcomingInit
  <2> QED
    BY <2>1, <2>2, FirstLine DEF Lined
<1>3. Passes
  <2>1. pass = [p \in Pass |-> NoPass]
    BY DEF UpcomingInit
  <2>2. NoPass.step = "none"
    BY DEF NoPass
  <2>3. \A p \in Pass : pass[p].step = "none"
    BY <2>1, <2>2
  <2> QED
    BY <2>1, <2>3 DEF Passes, Reading
<1>4. NothingMissed
  BY DEF UpcomingInit, NothingMissed
<1> QED
  BY <1>1, <1>2, <1>3, <1>4 DEF UpInv

LEMMA UpcomingKeeps == UpInv /\ [UpcomingNext]_upcomingVars => UpInv'
<1> SUFFICES ASSUME UpInv, [UpcomingNext]_upcomingVars PROVE UpInv'
  OBVIOUS
<1>1. CASE UNCHANGED upcomingVars
  <2>1. UNCHANGED <<now, stamp, seen, shipment, arrived, synced>> /\ pass' = pass
    BY <1>1 DEF upcomingVars
  <2>2. Follows /\ Lined' /\ Clocked' /\ NothingMissed'
    BY <2>1, StillReading
  <2> QED
    BY <2>1, <2>2, PassesFollow DEF UpInv
<1> QED
  BY <1>1, TicksKeeps, BuildsMovementKeeps, CommitsMovementKeeps, RecordsShipmentKeeps,
     EditsShipmentKeeps, BeginsPassKeeps, TakesSinceKeeps, ScansKeeps, AppliesKeeps,
     FinishesPassKeeps, ClosesShipmentsKeeps, DropsPassKeeps DEF UpcomingNext

\* A committed increase that an open shipment line was recorded in time for is counted
\* or within reach of the next pass, whichever passes overlapped and however slow its
\* commit was.
THEOREM NothingEverMissed == UpcomingSpec => []NothingMissed
<1>1. UpInv => NothingMissed
  BY DEF UpInv
<1> QED
  BY <1>1, UpcomingBegins, UpcomingKeeps, PTL DEF UpcomingSpec

-----------------------------------------------------------------------------
(* What the arrivals are counted for.                                      *)

\* Induction up to n.
LEMMA UpTo ==
  ASSUME NEW n \in Nat, NEW P, 0 \in P, \A i \in 1..n : i - 1 \in P => i \in P
  PROVE  \A i \in 0..n : i \in P
<1> DEFINE bad == {i \in 0..n : i \notin P}
<1> SUFFICES ASSUME bad # {} PROVE FALSE
  OBVIOUS
<1>1. PICK i \in bad : \A j \in bad : i <= j
  <2>1. bad \in SUBSET Nat
    OBVIOUS
  <2> HIDE DEF bad
  <2> QED
    BY <2>1, LeastOf
<1>2. i \in 1..n /\ i - 1 \in 0..n /\ ~(i <= i - 1)
  BY <1>1
<1>3. i - 1 \notin bad
  BY <1>1, <1>2
<1> QED
  BY <1>1, <1>2, <1>3

\* f goes by step up to n.
GoesBy(f, n, base, step) == f = [i \in 0..n |-> IF i = 0 THEN base ELSE step[<<i, f[i - 1]>>]]

\* A function of 0..n may be defined by such steps.
LEMMA StepsLead ==
  ASSUME NEW n \in Nat, NEW V, NEW base \in V, NEW step \in [(1..n) \X V -> V]
  PROVE  \E f \in [0..n -> V] : GoesBy(f, n, base, step)
<1> DEFINE Ok(f, k) == f \in [0..k -> V] /\ GoesBy(f, k, base, step)
           P == {k \in 0..n : \E f : Ok(f, k)}
<1>1. 0 \in P
  <2> DEFINE f == [i \in 0..0 |-> base]
  <2>1. 0..0 = {0} /\ f \in [0..0 -> V] /\ \A i \in 0..0 : i = 0
    OBVIOUS
  <2>2. f = [i \in 0..0 |-> IF i = 0 THEN base ELSE step[<<i, f[i - 1]>>]]
    BY <2>1
  <2> HIDE DEF f
  <2>3. Ok(f, 0)
    BY <2>1, <2>2 DEF GoesBy
  <2> QED
    BY <2>3
<1>2. ASSUME NEW k \in 1..n, k - 1 \in P PROVE k \in P
  <2>1. PICK f : Ok(f, k - 1)
    BY <1>2
  <2>2. k \in Nat /\ k # 0 /\ k - 1 \in 0..(k - 1) /\ f[k - 1] \in V
    BY <2>1
  <2> DEFINE v == step[<<k, f[k - 1]>>]
             g == [i \in 0..k |-> IF i = k THEN v ELSE f[i]]
  <2>3. v \in V
    BY <2>2
  <2>4. \A i \in 0..(k - 1) : f[i] \in V /\ f[i] = IF i = 0 THEN base ELSE step[<<i, f[i - 1]>>]
    BY <2>1 DEF GoesBy
  <2> HIDE DEF v
  <2>11. (\A i \in 0..k : i # k => i \in 0..(k - 1)) /\ 0 \in 0..k /\ 0 \in 0..(k - 1)
    OBVIOUS
  <2>5. g \in [0..k -> V]
    BY <2>3, <2>4, <2>11
  <2>6. g[0] = base
    BY <2>2, <2>4, <2>11
  <2>7. ASSUME NEW i \in 0..k, i # 0 PROVE g[i] = step[<<i, g[i - 1]>>]
    <3>1. i - 1 \in 0..k /\ i - 1 # k /\ g[i - 1] = f[i - 1]
      BY <2>2, <2>7
    <3>2. CASE i = k
      BY <3>1, <3>2 DEF v
    <3>3. CASE i # k
      <4>1. i \in 0..(k - 1)
        BY <3>3
      <4> QED
        BY <2>4, <2>7, <3>1, <3>3, <4>1
    <3> QED
      BY <3>2, <3>3
  <2>8. \A i \in 0..k : g[i] = IF i = 0 THEN base ELSE step[<<i, g[i - 1]>>]
    BY <2>6, <2>7
  <2>9. g = [i \in 0..k |-> g[i]]
    OBVIOUS
  <2> HIDE DEF g
  <2>10. g = [i \in 0..k |-> IF i = 0 THEN base ELSE step[<<i, g[i - 1]>>]]
    BY <2>8, <2>9
  <2>12. Ok(g, k)
    BY <2>5, <2>10 DEF GoesBy
  <2> QED
    BY <2>12
<1> HIDE DEF P
<1>3. \A k \in 0..n : k \in P
  BY <1>1, <1>2, UpTo
<1>4. n \in 0..n
  OBVIOUS
<1> QED
  BY <1>3, <1>4 DEF P

\* A function over 1..n is a sequence of length n.
LEMMA LengthOf ==
  ASSUME NEW n \in Nat, NEW f, DOMAIN f = 1..n, f = [i \in 1..n |-> f[i]]
  PROVE  Len(f) = n
  OBVIOUS

\* Everything can be put in order.
Ordered(q, n, key, tie) ==
  \A i \in 1..n : \A j \in 1..n :
      i < j => \/ key[q[i]] < key[q[j]]
               \/ key[q[i]] = key[q[j]] /\ tie[q[i]] <= tie[q[j]]

LEMMA OrderIs ==
  ASSUME NEW S, IsFiniteSet(S), NEW key, NEW tie, \A x \in S : key[x] \in Nat /\ tie[x] \in Nat
  PROVE  /\ InOrder(S, key, tie) \in Bijection(1..Cardinality(S), S)
         /\ Ordered(InOrder(S, key, tie), Cardinality(S), key, tie)
<1> DEFINE Ok(T) == \E q \in Bijection(1..Cardinality(T), T) : Ordered(q, Cardinality(T), key, tie)
           Bad == {T \in SUBSET S : ~Ok(T)}
<1>1. Bad = {}
  <2> SUFFICES ASSUME Bad # {} PROVE FALSE
    OBVIOUS
  <2>1. PICK T \in Bad : \A U \in Bad : U \subseteq T => U = T
    <3>1. Bad \in SUBSET SUBSET S
      OBVIOUS
    <3> HIDE DEF Bad
    <3> QED
      BY <3>1, SmallestSet
  <2>2. T \subseteq S /\ IsFiniteSet(T) /\ Cardinality(T) \in Nat
    BY <2>1, FS_Subset, FS_CardinalityType
  <2>3. CASE T = {}
    <3>1. Cardinality(T) = 0
      BY <2>3, FS_EmptySet
    <3> DEFINE q == [i \in 1..0 |-> i]
    <3>2. q \in Bijection(1..0, {})
      BY DEF Bijection, Injection, Surjection, IsInjective
    <3>3. Ordered(q, 0, key, tie)
      BY DEF Ordered
    <3> QED
      BY <2>1, <2>3, <3>1, <3>2, <3>3
  <2>4. CASE T # {}
    <3>1. PICK k \in {key[x] : x \in T} : \A l \in {key[x] : x \in T} : k <= l
      <4>1. {key[x] : x \in T} \in SUBSET Nat /\ {key[x] : x \in T} # {}
        BY <2>2, <2>4
      <4> QED
        BY <4>1, LeastOf
    <3> DEFINE F == {x \in T : key[x] = k}
    <3>2. PICK t \in {tie[x] : x \in F} : \A l \in {tie[x] : x \in F} : t <= l
      <4>1. {tie[x] : x \in F} \in SUBSET Nat /\ {tie[x] : x \in F} # {}
        BY <2>2, <3>1
      <4> QED
        BY <4>1, LeastOf
    <3>3. PICK x \in F : tie[x] = t
      BY <3>2
    <3> DEFINE U == T \ {x}
               n == Cardinality(T)
    <3>4. U \in SUBSET S /\ U \subseteq T /\ U # T /\ IsFiniteSet(U) /\ Cardinality(U) = n - 1
      BY <2>2, <3>3, FS_RemoveElement
    <3>5. Ok(U)
      BY <2>1, <3>4
    <3>6. n \in Nat /\ n - 1 \in Nat
      BY <2>2, <3>4, FS_CardinalityType
    <3>7. PICK q \in Bijection(1..(n - 1), U) : Ordered(q, n - 1, key, tie)
      BY <3>4, <3>5
    <3> HIDE DEF n
    <3>8. /\ q \in [1..(n - 1) -> U]
          /\ \A i \in 1..(n - 1) : \A j \in 1..(n - 1) : q[i] = q[j] => i = j
          /\ \A y \in U : \E i \in 1..(n - 1) : q[i] = y
      BY <3>7 DEF Bijection, Injection, Surjection, IsInjective
    <3>9. \A y \in U : key[x] < key[y] \/ (key[x] = key[y] /\ tie[x] <= tie[y])
      <4> SUFFICES ASSUME NEW y \in U PROVE key[x] < key[y] \/ (key[x] = key[y] /\ tie[x] <= tie[y])
        OBVIOUS
      <4>1. y \in T /\ key[x] = k /\ key[y] \in Nat /\ key[x] \in Nat /\ k <= key[y]
        BY <2>2, <3>1, <3>3
      <4>2. key[y] = k => y \in F /\ t <= tie[y]
        BY <3>2, <4>1
      <4>3. tie[x] = t
        BY <3>3
      <4> HIDE DEF F, U
      <4> QED
        BY <4>1, <4>2, <4>3
    <3> DEFINE p == [i \in 1..n |-> IF i = 1 THEN x ELSE q[i - 1]]
    <3>10. p[1] = x /\ \A i \in 1..n : i # 1 => i - 1 \in 1..(n - 1) /\ p[i] = q[i - 1] /\ p[i] \in U
      BY <3>6, <3>8
    <3>11. p \in [1..n -> T]
      BY <3>3, <3>10
    <3> HIDE DEF p
    <3>12. \A i \in 1..n : \A j \in 1..n : p[i] = p[j] => i = j
      <4> SUFFICES ASSUME NEW i \in 1..n, NEW j \in 1..n, p[i] = p[j] PROVE i = j
        OBVIOUS
      <4>1. CASE i = 1 \/ j = 1
        BY <3>10, <4>1
      <4>2. CASE i # 1 /\ j # 1
        <5>1. i - 1 = j - 1
          BY <3>8, <3>10, <4>2
        <5> QED
          BY <3>6, <5>1
      <4> QED
        BY <4>1, <4>2
    <3>13. \A y \in T : \E i \in 1..n : p[i] = y
      <4> SUFFICES ASSUME NEW y \in T PROVE \E i \in 1..n : p[i] = y
        OBVIOUS
      <4>1. CASE y = x
        BY <3>6, <3>10, <4>1
      <4>2. CASE y # x
        <5>1. PICK i \in 1..(n - 1) : q[i] = y
          BY <3>8, <4>2
        <5>2. i + 1 \in 1..n /\ i + 1 # 1 /\ (i + 1) - 1 = i
          BY <3>6
        <5> QED
          BY <3>10, <5>1, <5>2
      <4> QED
        BY <4>1, <4>2
    <3>14. p \in Bijection(1..n, T)
      BY <3>11, <3>12, <3>13 DEF Bijection, Injection, Surjection, IsInjective
    <3>15. Ordered(p, n, key, tie)
      <4> SUFFICES ASSUME NEW i \in 1..n, NEW j \in 1..n, i < j
                   PROVE  \/ key[p[i]] < key[p[j]]
                          \/ key[p[i]] = key[p[j]] /\ tie[p[i]] <= tie[p[j]]
        BY DEF Ordered
      <4>1. CASE i = 1
        BY <3>9, <3>10, <4>1
      <4>2. CASE i # 1
        <5>1. i - 1 \in 1..(n - 1) /\ j - 1 \in 1..(n - 1) /\ i - 1 < j - 1
          BY <3>6, <3>10, <4>2
        <5>2. p[i] = q[i - 1] /\ p[j] = q[j - 1]
          BY <3>10, <4>2
        <5> QED
          BY <3>7, <5>1, <5>2 DEF Ordered
      <4> QED
        BY <4>1, <4>2
    <3> QED
      BY <2>1, <3>14, <3>15 DEF n
  <2> QED
    BY <2>3, <2>4
<1>2. Ok(S)
  BY <1>1
<1> QED
  BY <1>2 DEF InOrder, Ordered

\* The total up to k.
LEMMA TotalUpTo ==
  ASSUME NEW n \in Nat, NEW f, \A i \in 1..n : f[i] \in Int, NEW k \in 1..n
  PROVE  /\ Total(f, 1..k) = Total(f, 1..(k - 1)) + f[k]
         /\ Total(f, 1..(k - 1)) \in Int /\ Total(f, 1..k) \in Int
<1>1. IsFiniteSet(1..(k - 1)) /\ IsFiniteSet(1..k)
  BY FS_Interval
<1>2. k \notin 1..(k - 1) /\ (1..(k - 1)) \cup {k} = 1..k
  OBVIOUS
<1>3. \A x \in 1..k : f[x] \in Int
  OBVIOUS
<1>4. \A x \in 1..(k - 1) : f[x] \in Int
  OBVIOUS
<1> DEFINE S == 1..(k - 1)
<1>5. \A x \in S \cup {k} : f[x] \in Int
  BY <1>3, <1>4
<1>6. IsFiniteSet(S) /\ k \notin S
  BY <1>1, <1>2
<1> HIDE DEF S
<1>7. Total(f, S \cup {k}) = Total(f, S) + f[k]
  BY <1>5, <1>6, TotalAdds
<1>8. Total(f, 1..k) \in Int /\ Total(f, 1..(k - 1)) \in Int
  BY <1>1, <1>3, <1>4, TotalInt
<1> QED
  BY <1>2, <1>7, <1>8 DEF S

\* What is left of some units goes down by what each part of the pool can take.
GoesDown(left, n, pool) ==
  \A i \in 1..n : left[i] = IF left[i - 1] > pool[i] THEN left[i - 1] - pool[i] ELSE 0

LEMMA LeftSteps ==
  ASSUME NEW n \in Nat, NEW pool \in [1..n -> Nat], NEW units \in Nat
  PROVE  /\ Left(units, pool) \in [0..n -> Nat]
         /\ Left(units, pool)[0] = units
         /\ GoesDown(Left(units, pool), n, pool)
<1> DEFINE step == [x \in (1..n) \X Nat |-> IF x[2] > pool[x[1]] THEN x[2] - pool[x[1]] ELSE 0]
<1>1. Len(pool) = n
  BY LengthOf
<1>2. step \in [(1..n) \X Nat -> Nat]
  OBVIOUS
<1>3. PICK f \in [0..n -> Nat] : GoesBy(f, n, units, step)
  BY <1>2, StepsLead
<1> DEFINE By(g) == [i \in 0..n |-> IF i = 0 THEN units ELSE IF g[i - 1] > pool[i] THEN g[i - 1] - pool[i] ELSE 0]
<1>4. \A g \in [0..n -> Nat] : \A i \in 1..n : step[<<i, g[i - 1]>>] = IF g[i - 1] > pool[i] THEN g[i - 1] - pool[i] ELSE 0
  OBVIOUS
<1> HIDE DEF step
<1>5. f = By(f)
  <2>3. \A i \in 0..n : f[i] = IF i = 0 THEN units ELSE step[<<i, f[i - 1]>>]
    BY <1>3 DEF GoesBy
  <2>4. \A i \in 0..n : i # 0 => i \in 1..n
    OBVIOUS
  <2>1. \A i \in 0..n : f[i] = IF i = 0 THEN units ELSE IF f[i - 1] > pool[i] THEN f[i - 1] - pool[i] ELSE 0
    BY <1>3, <1>4, <2>3, <2>4
  <2>2. f = [i \in 0..n |-> f[i]]
    BY <1>3
  <2> QED
    BY <2>1, <2>2
<1> DEFINE g == CHOOSE g : g = By(g)
<1>6. g = By(g)
  BY <1>5
<1>7. Left(units, pool) = g
  BY <1>1 DEF Left
<1> HIDE DEF g
<1>8. DOMAIN g = 0..n /\ g[0] = units
      /\ \A i \in 1..n : g[i] = IF g[i - 1] > pool[i] THEN g[i - 1] - pool[i] ELSE 0
  <2>1. g = [i \in 0..n |-> IF i = 0 THEN units ELSE IF g[i - 1] > pool[i] THEN g[i - 1] - pool[i] ELSE 0]
    BY <1>6
  <2>2. \A i \in 0..n : g[i] = IF i = 0 THEN units ELSE IF g[i - 1] > pool[i] THEN g[i - 1] - pool[i] ELSE 0
    BY <2>1
  <2>3. 0 \in 0..n /\ \A i \in 1..n : i \in 0..n /\ i # 0
    OBVIOUS
  <2>4. DOMAIN g = 0..n
    BY <2>1
  <2> QED
    BY <2>2, <2>3, <2>4
<1> HIDE DEF By
<1>9. \A i \in 0..n : i \in {j \in 0..n : g[j] \in Nat}
  <2> DEFINE P == {j \in 0..n : g[j] \in Nat}
  <2>1. 0 \in P
    BY <1>8
  <2>2. ASSUME NEW i \in 1..n, i - 1 \in P PROVE i \in P
    <3>1. i \in 0..n /\ g[i - 1] \in Nat /\ pool[i] \in Nat
      BY <2>2
    <3> QED
      BY <1>8, <3>1
  <2> HIDE DEF P
  <2>3. \A i \in 0..n : i \in P
    BY <2>1, <2>2, UpTo
  <2> QED
    BY <2>3 DEF P
<1>10. g = [i \in 0..n |-> g[i]]
  BY <1>6 DEF By
<1>11. g \in [0..n -> Nat]
  BY <1>9, <1>10
<1> QED
  BY <1>7, <1>8, <1>11 DEF GoesDown

\* Each part of the pool takes some of what it has ...
LEMMA LeftTaken ==
  ASSUME NEW n \in Nat, NEW pool \in [1..n -> Nat], NEW units \in Nat, NEW i \in 1..n
  PROVE  /\ Left(units, pool)[i - 1] - Left(units, pool)[i] \in Nat
         /\ Left(units, pool)[i - 1] - Left(units, pool)[i] <= pool[i]
<1> DEFINE left == Left(units, pool)
<1>1. left[i - 1] \in Nat /\ left[i] = IF left[i - 1] > pool[i] THEN left[i - 1] - pool[i] ELSE 0
  <2>1. i - 1 \in 0..n
    OBVIOUS
  <2>2. left \in [0..n -> Nat] /\ GoesDown(left, n, pool)
    BY LeftSteps
  <2> HIDE DEF left
  <2> QED
    BY <2>1, <2>2 DEF GoesDown
<1>2. pool[i] \in Nat
  OBVIOUS
<1> HIDE DEF left
<1>3. left[i - 1] - left[i] \in Nat /\ left[i - 1] - left[i] <= pool[i]
  BY <1>1, <1>2
<1> QED
  BY <1>3 DEF left

\* ... together what is gone, and as much as there is to have.
Splits(left, units, taken, pool, k) ==
  /\ left[k] = units - Total(taken, 1..k)
  /\ left[k] = IF units > Total(pool, 1..k) THEN units - Total(pool, 1..k) ELSE 0

LEMMA LeftTotal ==
  ASSUME NEW n \in Nat, NEW pool \in [1..n -> Nat], NEW units \in Nat,
         NEW taken, \A i \in 1..n : taken[i] = Left(units, pool)[i - 1] - Left(units, pool)[i]
  PROVE  \A k \in 0..n : Splits(Left(units, pool), units, taken, pool, k)
<1> DEFINE left == Left(units, pool)
           Ok(k) == Splits(left, units, taken, pool, k)
           P == {k \in 0..n : Ok(k)}
<1>1. left \in [0..n -> Nat] /\ left[0] = units /\ GoesDown(left, n, pool)
  BY LeftSteps
<1>2. \A i \in 1..n : taken[i] \in Nat /\ taken[i] = left[i - 1] - left[i]
  BY LeftTaken
<1> HIDE DEF left
<1>3. 0 \in P
  <2>1. 1..0 = {}
    OBVIOUS
  <2>2. Total(taken, 1..0) = 0 /\ Total(pool, 1..0) = 0
    BY <2>1, TotalOfNone
  <2> QED
    BY <1>1, <2>2 DEF Splits
<1>4. ASSUME NEW k \in 1..n, k - 1 \in P PROVE k \in P
  <2>3. Total(taken, 1..k) = Total(taken, 1..(k - 1)) + taken[k] /\ Total(taken, 1..(k - 1)) \in Int
    <3>1. \A x \in 1..n : taken[x] \in Int
      BY <1>2
    <3> QED
      BY <3>1, TotalUpTo
  <2>4. Total(pool, 1..k) = Total(pool, 1..(k - 1)) + pool[k] /\ Total(pool, 1..(k - 1)) \in Int
    <3>1. \A x \in 1..n : pool[x] \in Int
      OBVIOUS
    <3> QED
      BY <3>1, TotalUpTo
  <2>5. Total(taken, 1..(k - 1)) \in Int /\ Total(pool, 1..(k - 1)) \in Int
    BY <2>3, <2>4
  <2>6. k - 1 \in 0..n /\ k \in 0..n /\ left[k - 1] \in Nat /\ left[k] \in Nat /\ pool[k] \in Nat
    BY <1>1
  <2>7. Ok(k - 1)
    BY <1>4
  <2>8. left[k] = units - Total(taken, 1..k)
    BY <1>2, <2>3, <2>5, <2>6, <2>7 DEF Splits
  <2>9. left[k] = IF left[k - 1] > pool[k] THEN left[k - 1] - pool[k] ELSE 0
    BY <1>1 DEF GoesDown
  <2>10. left[k] = IF units > Total(pool, 1..k) THEN units - Total(pool, 1..k) ELSE 0
    BY <2>4, <2>5, <2>6, <2>7, <2>9 DEF Splits
  <2> QED
    BY <2>6, <2>8, <2>10 DEF Splits
<1> HIDE DEF P
<1>5. \A k \in 0..n : k \in P
  BY <1>3, <1>4, UpTo
<1> QED
  BY <1>5 DEF P, left

\* Where an element stands.
LEMMA PositionIs ==
  ASSUME NEW n \in Nat, NEW S, NEW q \in Bijection(1..n, S)
  PROVE  /\ \A x \in S : PositionOf(x, q) \in 1..n /\ q[PositionOf(x, q)] = x
         /\ \A i \in 1..n : q[i] \in S /\ PositionOf(q[i], q) = i
         /\ {q[i] : i \in 1..n} = S /\ DOMAIN q = 1..n /\ Len(q) = n
         /\ \A i \in 1..n, j \in 1..n : q[i] = q[j] => i = j
<1>1. /\ q \in [1..n -> S]
      /\ \A i, j \in 1..n : q[i] = q[j] => i = j
      /\ \A x \in S : \E i \in 1..n : q[i] = x
  BY DEF Bijection, Injection, Surjection, IsInjective
<1>2. \A x \in S : PositionOf(x, q) \in 1..n /\ q[PositionOf(x, q)] = x
  BY <1>1 DEF PositionOf
<1>3. \A i \in 1..n : q[i] \in S /\ PositionOf(q[i], q) = i
  BY <1>1, <1>2
<1>4. Len(q) = n
  BY <1>1, LengthOf
<1> QED
  BY <1>1, <1>2, <1>3, <1>4

\* A total does not depend on the order.
LEMMA TotalInOrder ==
  ASSUME NEW n \in Nat, NEW E, NEW q \in Bijection(1..n, E), NEW f, NEW g,
         \A i \in 1..n : g[q[i]] \in Int /\ f[i] = g[q[i]]
  PROVE  IsFiniteSet(E) /\ Total(g, E) = Total(f, 1..n)
<1> DEFINE R == 1..n
<1>1. {q[i] : i \in R} = E /\ \A i \in R, j \in R : q[i] = q[j] => i = j
  BY PositionIs
<1>2. IsFiniteSet(R) /\ \A i \in R : g[q[i]] \in Int /\ f[i] = g[q[i]]
  BY FS_Interval
<1> HIDE DEF R
<1>3. IsFiniteSet({q[i] : i \in R}) /\ Total(g, {q[i] : i \in R}) = Total(f, R)
  BY <1>1, <1>2, TotalNamed
<1> QED
  BY <1>1, <1>3 DEF R

\* One movement: no line takes more than it still expects, together they take no
\* more than came in.
LEMMA TakesIs ==
  ASSUME NEW lines, IsFiniteSet(DOMAIN lines), NEW m \in Arrival, stamp[m] \in Nat,
         \A s \in DOMAIN lines : /\ Outstanding(lines[s]) \in Nat /\ lines[s].born \in Nat
                                 /\ shipment[s].eta \in Nat /\ shipment[s].born \in Nat
  PROVE  /\ DOMAIN Takes(lines, m) \subseteq DOMAIN lines
         /\ Takes(lines, m) = [s \in DOMAIN Takes(lines, m) |-> Takes(lines, m)[s]]
         /\ \A s \in DOMAIN Takes(lines, m) :
              Takes(lines, m)[s] \in Nat /\ Takes(lines, m)[s] <= Outstanding(lines[s])
         /\ Total(Takes(lines, m), DOMAIN Takes(lines, m)) <= Amount[m]
<1> DEFINE eligible == {s \in DOMAIN lines : lines[s].born <= stamp[m]}
           n == Cardinality(eligible)
           order == ByEta(eligible)
           pool == [i \in DOMAIN order |-> Outstanding(lines[order[i]])]
           left == Left(Amount[m], pool)
           takes == [s \in eligible |-> left[PositionOf(s, order) - 1] - left[PositionOf(s, order)]]
<1>1. Takes(lines, m) = takes
  BY DEF Takes
<1>2. IsFiniteSet(eligible) /\ n \in Nat /\ eligible \subseteq DOMAIN lines
  BY FS_Subset, FS_CardinalityType
<1>3. order \in Bijection(1..n, eligible)
  <2> DEFINE key == [s \in eligible |-> shipment[s].eta]
             tie == [s \in eligible |-> shipment[s].born]
  <2>1. \A s \in eligible : key[s] \in Nat /\ tie[s] \in Nat
    OBVIOUS
  <2>2. order = InOrder(eligible, key, tie)
    BY DEF ByEta
  <2> HIDE DEF key, tie, order, eligible
  <2> QED
    BY <1>2, <2>1, <2>2, OrderIs
<1>4. Amount[m] \in Nat
  BY UpcomingAssumption
<1>5. \A s \in eligible : s \in DOMAIN lines
  OBVIOUS
<1> HIDE DEF eligible, n, order
<1>6. /\ \A x \in eligible : PositionOf(x, order) \in 1..n /\ order[PositionOf(x, order)] = x
      /\ \A i \in 1..n : order[i] \in eligible /\ PositionOf(order[i], order) = i
      /\ {order[i] : i \in 1..n} = eligible /\ DOMAIN order = 1..n
      /\ \A i \in 1..n, j \in 1..n : order[i] = order[j] => i = j
  BY <1>2, <1>3, PositionIs
<1>7. pool \in [1..n -> Nat] /\ \A i \in 1..n : pool[i] = Outstanding(lines[order[i]])
  BY <1>5, <1>6
<1> DEFINE taken == [i \in 1..n |-> left[i - 1] - left[i]]
<1> HIDE DEF pool
<1>8. \A i \in 1..n : left[i - 1] - left[i] \in Nat /\ left[i - 1] - left[i] <= pool[i]
  BY <1>2, <1>4, <1>7, LeftTaken
<1>9. \A s \in eligible : takes[s] \in Nat /\ takes[s] <= Outstanding(lines[s])
  BY <1>6, <1>7, <1>8
<1>10. Total(takes, eligible) <= Amount[m]
  <2>1. \A i \in 1..n : takes[order[i]] \in Int /\ taken[i] = takes[order[i]]
    BY <1>6, <1>8
  <2>2. n \in 0..n /\ IsFiniteSet(1..n)
    BY <1>2, FS_Interval
  <2>3. left \in [0..n -> Nat]
    BY <1>2, <1>4, <1>7, LeftSteps
  <2>4. \A i \in 1..n : taken[i] = left[i - 1] - left[i]
    OBVIOUS
  <2> HIDE DEF taken, takes
  <2>5. Total(takes, eligible) = Total(taken, 1..n)
    <3>1. PICK k, E, o, f, g : k = n /\ E = eligible /\ o = order /\ f = taken /\ g = takes
      OBVIOUS
    <3>2. k \in Nat /\ o \in Bijection(1..k, E)
      BY <1>2, <1>3, <3>1
    <3>3. \A i \in 1..k : g[o[i]] \in Int /\ f[i] = g[o[i]]
      BY <2>1, <3>1
    <3> HIDE DEF left, pool
    <3>4. IsFiniteSet(E) /\ Total(g, E) = Total(f, 1..k)
      BY ONLY <3>2, <3>3, TotalInOrder
    <3> QED
      BY <3>1, <3>4
  <2>6. left[n] = Amount[m] - Total(taken, 1..n)
    <3>1. Splits(left, Amount[m], taken, pool, n)
      BY <1>2, <1>4, <1>7, <2>2, <2>4, LeftTotal
    <3> QED
      BY <3>1 DEF Splits
  <2>7. Total(taken, 1..n) \in Int
    <3>1. \A i \in 1..n : taken[i] \in Int
      BY <1>8, <2>4
    <3> QED
      BY <2>2, <3>1, TotalInt
  <2> HIDE DEF left
  <2> QED
    BY <1>4, <2>2, <2>3, <2>5, <2>6, <2>7
<1> HIDE DEF left
<1>11. DOMAIN takes = eligible /\ takes = [s \in eligible |-> takes[s]]
  OBVIOUS
<1> HIDE DEF takes
<1> QED
  BY <1>1, <1>2, <1>9, <1>10, <1>11

ALine == [status : ShipmentStatus, ordered : Nat, received : Nat, dropped : Nat, eta : Nat, born : Nat]

\* A line that is not closed has dropped nothing and received no more than was ordered.
Expecting == {l \in ALine : l.status # "Closed" /\ l.dropped = 0 /\ l.received <= l.ordered}

\* What some units that were counted say of a line.
Share(takes, s) == IF s \in DOMAIN takes THEN takes[s] ELSE 0

LEMMA ExpectingLine ==
  ASSUME NEW l \in Expecting
  PROVE  /\ l.ordered \in Nat /\ l.received \in Nat /\ l.born \in Nat /\ l.eta \in Nat
         /\ l.dropped = 0 /\ l.received <= l.ordered
         /\ Outstanding(l) = l.ordered - l.received /\ Outstanding(l) \in Nat
<1>1. /\ l.ordered \in Nat /\ l.received \in Nat /\ l.born \in Nat /\ l.eta \in Nat
      /\ l.dropped = 0 /\ l.received <= l.ordered
  BY DEF Expecting, ALine
<1>2. Outstanding(l) = l.ordered - l.received /\ Outstanding(l) \in Nat
  BY <1>1 DEF Outstanding
<1> QED
  BY <1>1, <1>2

LEMMA StatusIs ==
  ASSUME NEW l
  PROVE  StatusOf(l) \in ShipmentStatus /\ StatusOf(l) # "Closed"
  BY DEF StatusOf, ShipmentStatus

LEMMA CreditIs ==
  ASSUME NEW l \in Expecting, NEW u \in Nat, u <= Outstanding(l)
  PROVE  /\ Credit(l, u) \in Expecting
         /\ Credit(l, u).received = l.received + u
         /\ Credit(l, u).ordered = l.ordered
<1>1. /\ l \in ALine /\ l.ordered \in Nat /\ l.received \in Nat
      /\ l.dropped = 0 /\ l.received <= l.ordered
      /\ Outstanding(l) = l.ordered - l.received
  BY ExpectingLine DEF Expecting
<1>2. CASE u = 0
  BY <1>1, <1>2 DEF Credit
<1>3. CASE u # 0
  <2> DEFINE n == [l EXCEPT !.received = @ + u]
  <2>1. n \in ALine /\ n.received = l.received + u /\ n.ordered = l.ordered /\ n.dropped = 0
    BY <1>1 DEF ALine
  <2>2. Credit(l, u) = [n EXCEPT !.status = StatusOf(n)]
    BY <1>3 DEF Credit
  <2> HIDE DEF n
  <2>3. PICK v \in ShipmentStatus : v = StatusOf(n) /\ v # "Closed"
    BY StatusIs
  <2>4. Credit(l, u) = [n EXCEPT !.status = v]
    BY <2>2, <2>3
  <2>5. [n EXCEPT !.status = v] \in ALine
    BY <2>1 DEF ALine
  <2>6. /\ [n EXCEPT !.status = v].status = v /\ [n EXCEPT !.status = v].received = n.received
        /\ [n EXCEPT !.status = v].ordered = n.ordered /\ [n EXCEPT !.status = v].dropped = n.dropped
    BY <2>1 DEF ALine
  <2>7. l.received + u <= l.ordered
    BY <1>1
  <2>8. PICK k : k = [n EXCEPT !.status = v]
    OBVIOUS
  <2>9. k \in ALine /\ k.status # "Closed" /\ k.dropped = 0 /\ k.received = l.received + u /\ k.ordered = l.ordered
    BY <2>1, <2>3, <2>5, <2>6, <2>8
  <2>10. k \in Expecting
    BY <2>7, <2>9 DEF Expecting
  <2> QED
    BY <2>4, <2>8, <2>9, <2>10
<1> QED
  BY <1>2, <1>3

\* The lines and what the movements are counted against.
Countable(O) ==
  /\ IsFiniteSet(O)
  /\ stamp \in [Arrival -> Nat]
  /\ \A s \in O : shipment[s].eta \in Nat /\ shipment[s].born \in Nat

LEMMA TakesOfLines ==
  ASSUME NEW O, Countable(O), NEW L \in [O -> Expecting], NEW m \in Arrival
  PROVE  /\ DOMAIN Takes(L, m) \subseteq O
         /\ Takes(L, m) = [s \in DOMAIN Takes(L, m) |-> Takes(L, m)[s]]
         /\ \A s \in O : Share(Takes(L, m), s) \in Nat /\ Share(Takes(L, m), s) <= Outstanding(L[s])
         /\ Total(Takes(L, m), DOMAIN Takes(L, m)) <= Amount[m]
<1>1. IsFiniteSet(DOMAIN L) /\ DOMAIN L = O /\ stamp[m] \in Nat
  BY DEF Countable
<1>2. \A s \in O : Outstanding(L[s]) \in Nat /\ L[s].born \in Nat
  BY ExpectingLine
<1>3. \A s \in DOMAIN L : /\ Outstanding(L[s]) \in Nat /\ L[s].born \in Nat
                          /\ shipment[s].eta \in Nat /\ shipment[s].born \in Nat
  BY <1>1, <1>2 DEF Countable
<1>4. /\ DOMAIN Takes(L, m) \subseteq DOMAIN L
      /\ Takes(L, m) = [s \in DOMAIN Takes(L, m) |-> Takes(L, m)[s]]
      /\ \A s \in DOMAIN Takes(L, m) :
           Takes(L, m)[s] \in Nat /\ Takes(L, m)[s] <= Outstanding(L[s])
      /\ Total(Takes(L, m), DOMAIN Takes(L, m)) <= Amount[m]
  BY <1>1, <1>3, TakesIs
<1>5. \A s \in O : Share(Takes(L, m), s) \in Nat /\ Share(Takes(L, m), s) <= Outstanding(L[s])
  BY <1>2, <1>4 DEF Share
<1> QED
  BY <1>1, <1>4, <1>5

LEMMA CreditedIs ==
  ASSUME NEW O, Countable(O), NEW L \in [O -> Expecting], NEW m \in Arrival
  PROVE  /\ Credited(L, Takes(L, m)) \in [O -> Expecting]
         /\ \A s \in O :
              /\ Credited(L, Takes(L, m))[s].received = L[s].received + Share(Takes(L, m), s)
              /\ Credited(L, Takes(L, m))[s].ordered = L[s].ordered
<1>1. PICK t : t = Takes(L, m)
  OBVIOUS
<1>2. \A s \in O : Share(t, s) \in Nat /\ Share(t, s) <= Outstanding(L[s])
  BY <1>1, TakesOfLines
<1>3. \A s \in O : L[s] \in Expecting /\ L[s].received \in Nat
  BY ExpectingLine
<1>4. \A s \in O : /\ Credit(L[s], Share(t, s)) \in Expecting
                   /\ Credit(L[s], Share(t, s)).received = L[s].received + Share(t, s)
                   /\ Credit(L[s], Share(t, s)).ordered = L[s].ordered
  BY <1>2, <1>3, CreditIs
<1>5. \A s \in O : Credited(L, t)[s] = Credit(L[s], Share(t, s))
  BY DEF Credited, Share, Credit
<1>6. Credited(L, t) = [s \in O |-> Credited(L, t)[s]]
  BY DEF Credited
<1>7. Credited(L, t) \in [O -> Expecting]
  BY <1>4, <1>5, <1>6
<1> QED
  BY <1>1, <1>4, <1>5, <1>7

\* The lines after each movement.
Follow(after, n, lines, order) ==
  /\ after[0] = lines
  /\ \A i \in 1..n : after[i] = Credited(after[i - 1], Takes(after[i - 1], order[i]))

Counted(todo, lines, n, order, after) ==
  /\ Follow(after, n, lines, order)
  /\ Counting(todo, lines).lines = after[n]
  /\ Counting(todo, lines).takes = [m \in todo |-> Takes(after[PositionOf(m, order) - 1], m)]

LEMMA AfterIs ==
  ASSUME NEW todo \in SUBSET Arrival, NEW O, Countable(O), NEW lines \in [O -> Expecting]
  PROVE  \E n \in Nat : \E order \in Bijection(1..n, todo) : \E after \in [0..n -> [O -> Expecting]] :
           Counted(todo, lines, n, order, after)
<1> DEFINE n == Cardinality(todo)
           order == ByStamp(todo)
           V == [O -> Expecting]
<1>1. IsFiniteSet(todo) /\ n \in Nat
  BY UpcomingAssumption, FS_Subset, FS_CardinalityType
<1>2. order \in Bijection(1..n, todo)
  <2>1. PICK k : k = stamp
    OBVIOUS
  <2>2. \A x \in todo : k[x] \in Nat
    BY <2>1 DEF Countable
  <2>3. InOrder(todo, k, k) \in Bijection(1..n, todo)
    BY <1>1, <2>2, OrderIs
  <2> QED
    BY <2>1, <2>3 DEF ByStamp
<1> HIDE DEF n, order
<1>3. PICK o : o = order
  OBVIOUS
<1>4. o \in Bijection(1..n, todo)
  BY <1>2, <1>3
<1>5. Len(o) = n /\ \A i \in 1..n : o[i] \in todo
  BY <1>1, <1>4, PositionIs
<1> DEFINE Rec(f) == [i \in 0..Len(order) |-> IF i = 0 THEN lines
                                     ELSE Credited(f[i - 1], Takes(f[i - 1], order[i]))]
           after == CHOOSE f : f = Rec(f)
           step == [x \in (1..n) \X V |-> Credited(x[2], Takes(x[2], o[x[1]]))]
<1>6. /\ Counting(todo, lines).lines = after[n]
      /\ Counting(todo, lines).takes = [m \in todo |-> Takes(after[PositionOf(m, o) - 1], m)]
  <2>1. Counting(todo, lines).lines = after[Len(order)]
    BY DEF Counting, order
  <2>2. Counting(todo, lines).takes = [m \in todo |-> Takes(after[PositionOf(m, order) - 1], m)]
    BY DEF Counting, order
  <2> HIDE DEF after
  <2> QED
    BY <1>3, <1>5, <2>1, <2>2
<1>7. \A i \in 1..n, L \in V : step[<<i, L>>] = Credited(L, Takes(L, o[i])) /\ step[<<i, L>>] \in V
  <2>1. \A i \in 1..n, L \in V : Credited(L, Takes(L, o[i])) \in V
    BY <1>5, CreditedIs
  <2>2. \A i \in 1..n, L \in V : step[<<i, L>>] = Credited(L, Takes(L, o[i]))
    OBVIOUS
  <2> QED
    BY <2>1, <2>2
<1>8. step \in [(1..n) \X V -> V]
  <2>1. \A x \in (1..n) \X V : x[1] \in 1..n /\ x[2] \in V /\ x = <<x[1], x[2]>>
    OBVIOUS
  <2>2. \A x \in (1..n) \X V : step[x] \in V
    BY <1>7, <2>1
  <2>3. step = [x \in (1..n) \X V |-> step[x]]
    OBVIOUS
  <2> HIDE DEF step
  <2> QED
    BY <2>2, <2>3
<1>9. \E f : f = Rec(f)
  <2>1. PICK st : st = step
    OBVIOUS
  <2>2. st \in [(1..n) \X V -> V] /\ lines \in V
    BY <1>8, <2>1
  <2> HIDE DEF V
  <2>3. PICK f \in [0..n -> V] : GoesBy(f, n, lines, st)
    BY <1>1, <2>2, StepsLead
  <2>4. \A i \in 0..n : f[i] = IF i = 0 THEN lines ELSE st[<<i, f[i - 1]>>]
    BY <2>3 DEF GoesBy
  <2>5. \A i \in 0..n : i # 0 => i \in 1..n /\ i - 1 \in 0..n
    BY <1>1
  <2>6. \A i \in 0..n : i # 0 => st[<<i, f[i - 1]>>] = Credited(f[i - 1], Takes(f[i - 1], o[i]))
    <3> SUFFICES ASSUME NEW i \in 0..n, i # 0
                 PROVE  st[<<i, f[i - 1]>>] = Credited(f[i - 1], Takes(f[i - 1], o[i]))
      OBVIOUS
    <3>1. i \in 1..n /\ f[i - 1] \in V
      BY <2>3, <2>5
    <3> HIDE DEF step
    <3> QED
      BY <1>7, <2>1, <3>1
  <2>7. \A i \in 0..n : f[i] = IF i = 0 THEN lines ELSE Credited(f[i - 1], Takes(f[i - 1], o[i]))
    BY <2>4, <2>6
  <2>8. f = [i \in 0..n |-> f[i]]
    BY <2>3
  <2>9. f = [i \in 0..Len(order) |-> IF i = 0 THEN lines ELSE Credited(f[i - 1], Takes(f[i - 1], order[i]))]
    BY <1>3, <1>5, <2>7, <2>8
  <2> QED
    BY <2>9
<1>10. after = Rec(after)
  BY <1>9
<1> HIDE DEF after, step
<1>11. PICK a : a = after
  OBVIOUS
<1>12. a = [i \in 0..Len(order) |-> IF i = 0 THEN lines ELSE Credited(a[i - 1], Takes(a[i - 1], order[i]))]
  BY <1>10, <1>11
<1>13. a = [i \in 0..n |-> a[i]] /\ \A i \in 0..n : a[i] = IF i = 0 THEN lines ELSE Credited(a[i - 1], Takes(a[i - 1], o[i]))
  <2>1. DOMAIN a = 0..n /\ a = [i \in DOMAIN a |-> a[i]]
    BY <1>3, <1>5, <1>12
  <2> QED
    BY <1>3, <1>5, <1>12, <2>1
<1>14. Follow(a, n, lines, o)
  <2>1. 0 \in 0..n /\ \A i \in 1..n : i \in 0..n /\ i # 0
    BY <1>1
  <2> QED
    BY <1>13, <2>1 DEF Follow
<1>15. a \in [0..n -> V]
  <2> DEFINE P == {i \in 0..n : a[i] \in V}
  <2>1. 0 \in P
    BY <1>1, <1>14 DEF Follow
  <2>2. ASSUME NEW i \in 1..n, i - 1 \in P PROVE i \in P
    <3>1. i \in 0..n /\ a[i - 1] \in V /\ o[i] \in Arrival
      BY <1>5, <2>2
    <3>2. a[i] = Credited(a[i - 1], Takes(a[i - 1], o[i]))
      BY <1>14 DEF Follow
    <3>3. Credited(a[i - 1], Takes(a[i - 1], o[i])) \in V
      BY <3>1, CreditedIs
    <3> QED
      BY <3>1, <3>2, <3>3
  <2> HIDE DEF P
  <2>3. \A i \in 0..n : i \in P
    BY <1>1, <2>1, <2>2, UpTo
  <2>4. \A i \in 0..n : a[i] \in V
    BY <2>3 DEF P
  <2> QED
    BY <1>13, <2>4
<1> QED
  BY <1>1, <1>4, <1>6, <1>11, <1>14, <1>15 DEF Counted

\* What a movement takes, and from which lines.
SoundTakes(t, O, m) ==
  /\ DOMAIN t \subseteq O
  /\ t = [s \in DOMAIN t |-> t[s]]
  /\ \A s \in DOMAIN t : t[s] \in Nat
  /\ Total(t, DOMAIN t) <= Amount[m]

\* Counting some movements: every line has received what they took from it.
CountsRight(todo, O, lines, done) ==
  /\ done.lines \in [O -> Expecting]
  /\ \A s \in O :
       /\ done.lines[s].ordered = lines[s].ordered
       /\ done.lines[s].received
            = lines[s].received + Total([m \in todo |-> Share(done.takes[m], s)], todo)
  /\ \A m \in todo : SoundTakes(done.takes[m], O, m)

LEMMA CountingIs ==
  ASSUME NEW todo \in SUBSET Arrival, NEW O, Countable(O), NEW lines \in [O -> Expecting]
  PROVE  CountsRight(todo, O, lines, Counting(todo, lines))
<1>1. PICK n \in Nat : \E order \in Bijection(1..n, todo) : \E after \in [0..n -> [O -> Expecting]] :
           Counted(todo, lines, n, order, after)
  BY AfterIs
<1>2. PICK order \in Bijection(1..n, todo), after \in [0..n -> [O -> Expecting]] :
           Counted(todo, lines, n, order, after)
  BY <1>1
<1>3. PICK done : done = Counting(todo, lines)
  OBVIOUS
<1>4. done.lines = after[n] /\ done.takes = [m \in todo |-> Takes(after[PositionOf(m, order) - 1], m)]
      /\ Follow(after, n, lines, order)
  BY <1>2, <1>3 DEF Counted
<1>5. /\ \A x \in todo : PositionOf(x, order) \in 1..n /\ order[PositionOf(x, order)] = x
      /\ \A i \in 1..n : order[i] \in todo /\ PositionOf(order[i], order) = i
  BY PositionIs
<1>6. \A i \in 1..n : i - 1 \in 0..n /\ i \in 0..n
  OBVIOUS
<1>7. \A i \in 0..n : after[i] \in [O -> Expecting]
  OBVIOUS
<1>8. \A i \in 1..n : done.takes[order[i]] = Takes(after[i - 1], order[i])
  BY <1>4, <1>5
<1>9. \A m \in todo : SoundTakes(done.takes[m], O, m)
  <2> SUFFICES ASSUME NEW m \in todo PROVE SoundTakes(done.takes[m], O, m)
    OBVIOUS
  <2>1. PICK i \in 1..n : order[i] = m
    BY <1>5
  <2>2. PICK L \in [O -> Expecting] : L = after[i - 1]
    BY <1>6, <1>7
  <2>3. PICK t : t = Takes(L, m)
    OBVIOUS
  <2>4. done.takes[m] = t
    BY <1>8, <2>1, <2>2, <2>3
  <2>5. /\ DOMAIN t \subseteq O
        /\ t = [s \in DOMAIN t |-> t[s]]
        /\ \A s \in O : Share(t, s) \in Nat
        /\ Total(t, DOMAIN t) <= Amount[m]
    BY <2>3, TakesOfLines
  <2> QED
    BY <2>4, <2>5 DEF SoundTakes, Share
<1>10. ASSUME NEW s \in O
       PROVE  /\ done.lines[s].ordered = lines[s].ordered
              /\ done.lines[s].received
                   = lines[s].received + Total([m \in todo |-> Share(done.takes[m], s)], todo)
  <2> DEFINE T == [i \in 1..n |-> Share(done.takes[order[i]], s)]
             G == [m \in todo |-> Share(done.takes[m], s)]
             P == {k \in 0..n : /\ after[k][s].ordered = lines[s].ordered
                                /\ after[k][s].received = lines[s].received + Total(T, 1..k)}
  <2>1. \A i \in 1..n : T[i] \in Nat
    <3> SUFFICES ASSUME NEW i \in 1..n PROVE Share(done.takes[order[i]], s) \in Nat
      OBVIOUS
    <3>1. SoundTakes(done.takes[order[i]], O, order[i])
      BY <1>5, <1>9
    <3> QED
      BY <3>1 DEF SoundTakes, Share
  <2>2. \A i \in 1..n : T[i] = Share(Takes(after[i - 1], order[i]), s)
    BY <1>8
  <2>3. lines[s].received \in Nat /\ lines[s] \in Expecting
    BY ExpectingLine
  <2>4. 0 \in P
    <3>1. 1..0 = {}
      OBVIOUS
    <3>2. Total(T, 1..0) = 0
      BY <3>1, TotalOfNone
    <3>3. after[0] = lines
      BY <1>4 DEF Follow
    <3> QED
      BY <2>3, <3>2, <3>3
  <2> HIDE DEF T
  <2>5. ASSUME NEW k \in 1..n, k - 1 \in P PROVE k \in P
    <3>1. Total(T, 1..k) = Total(T, 1..(k - 1)) + T[k] /\ Total(T, 1..(k - 1)) \in Int
      <4>1. \A i \in 1..n : T[i] \in Int
        BY <2>1
      <4> QED
        BY <4>1, TotalUpTo
    <3>2. PICK L \in [O -> Expecting] : L = after[k - 1]
      BY <1>6, <1>7
    <3>3. order[k] \in Arrival
      BY <1>5
    <3>4. /\ Credited(L, Takes(L, order[k]))[s].received = L[s].received + Share(Takes(L, order[k]), s)
          /\ Credited(L, Takes(L, order[k]))[s].ordered = L[s].ordered
      BY <3>3, CreditedIs
    <3>5. after[k] = Credited(L, Takes(L, order[k])) /\ T[k] = Share(Takes(L, order[k]), s)
      BY <1>4, <2>2, <3>2 DEF Follow
    <3>6. after[k][s].received = L[s].received + T[k] /\ after[k][s].ordered = L[s].ordered
      BY <3>4, <3>5
    <3>7. L[s].ordered = lines[s].ordered /\ L[s].received = lines[s].received + Total(T, 1..(k - 1))
      BY <2>5, <3>2
    <3>8. k \in 0..n /\ T[k] \in Nat
      BY <2>1
    <3>9. after[k][s].received = lines[s].received + Total(T, 1..k)
      BY <2>3, <3>1, <3>6, <3>7, <3>8
    <3> QED
      BY <3>6, <3>7, <3>8, <3>9
  <2> HIDE DEF P
  <2>6. n \in P
    <3>1. \A k \in 0..n : k \in P
      BY <2>4, <2>5, UpTo
    <3> QED
      BY <3>1
  <2>7. Total(G, todo) = Total(T, 1..n)
    <3>1. \A i \in 1..n : G[order[i]] = T[i]
      BY <1>5 DEF T
    <3> HIDE DEF G
    <3>2. \A i \in 1..n : G[order[i]] \in Int /\ T[i] = G[order[i]]
      BY <2>1, <3>1
    <3> QED
      BY <3>2, TotalInOrder
  <2> QED
    BY <1>4, <2>6, <2>7 DEF P
<1>11. done.lines \in [O -> Expecting]
  <2>1. n \in 0..n
    OBVIOUS
  <2> QED
    BY <1>4, <1>7, <2>1
<1>12. CountsRight(todo, O, lines, done)
  BY <1>9, <1>10, <1>11 DEF CountsRight
<1> QED
  BY <1>3, <1>12

-----------------------------------------------------------------------------
SoundLine(l) ==
  /\ l \in ALine
  /\ l.received + l.dropped <= l.ordered
  /\ l.status # "Closed" => l.dropped = 0

SharesOf(arr, s) == [m \in Arrival |-> Share(arr[m], s)]

\* The lines and what the arrivals are counted for add up.
AddUp(ship, arr) ==
  /\ \A s \in Shipment : ship[s] = NoShipment \/ SoundLine(ship[s])
  /\ \A m \in Arrival :
       /\ arr[m] = [s \in DOMAIN arr[m] |-> arr[m][s]]
       /\ \A s \in DOMAIN arr[m] : arr[m][s] \in Nat
       /\ \A s \in DOMAIN arr[m] : s = "none" \/ (s \in Shipment /\ ship[s] # NoShipment)
       /\ Total(arr[m], DOMAIN arr[m]) <= Amount[m]
  /\ \A s \in Shipment : ship[s] # NoShipment => ship[s].received = Total(SharesOf(arr, s), Arrival)

LEMMA LineIsSomething ==
  ASSUME NEW l, SoundLine(l)
  PROVE  l # NoShipment
<1>1. l.status \in ShipmentStatus
  BY DEF SoundLine, ALine
<1>2. NoShipment.status \notin ShipmentStatus
  BY DEF NoShipment, ShipmentStatus
<1> QED
  BY <1>1, <1>2

\* Lines may be recorded, edited or closed, as long as they keep what they received.
LEMMA LinesMove ==
  ASSUME NEW ship, NEW arr, AddUp(ship, arr), NEW ship2,
         \A s \in Shipment :
           \/ ship2[s] = ship[s]
           \/ SoundLine(ship2[s]) /\ ship[s] # NoShipment /\ ship2[s].received = ship[s].received
           \/ SoundLine(ship2[s]) /\ ship[s] = NoShipment /\ ship2[s].received = 0
  PROVE  AddUp(ship2, arr)
<1>1. \A s \in Shipment : ship2[s] = NoShipment \/ SoundLine(ship2[s])
  BY DEF AddUp
<1>2. \A s \in Shipment : ship[s] # NoShipment => ship2[s] # NoShipment
  BY LineIsSomething
<1>3. ASSUME NEW s \in Shipment, ship2[s] # NoShipment
      PROVE  ship2[s].received = Total(SharesOf(arr, s), Arrival)
  <2>1. CASE ship[s] # NoShipment
    BY <1>3, <2>1 DEF AddUp
  <2>2. CASE ship[s] = NoShipment
    <3>1. \A m \in Arrival : s \notin DOMAIN arr[m]
      BY <2>2, UpcomingAssumption DEF AddUp
    <3>2. PICK f : f = SharesOf(arr, s)
      OBVIOUS
    <3>3. \A m \in Arrival : f[m] = 0
      BY <3>1, <3>2 DEF SharesOf, Share
    <3>4. Total(f, Arrival) = 0
      BY <3>3, TotalZero, UpcomingAssumption
    <3> QED
      BY <1>3, <2>2, <3>2, <3>4
  <2> QED
    BY <2>1, <2>2
<1> QED
  BY <1>1, <1>2, <1>3 DEF AddUp

\* The tally of a movement says what it took.
LEMMA TallyIs ==
  ASSUME NEW O \in SUBSET Shipment, NEW m \in Arrival, NEW t, SoundTakes(t, O, m)
  PROVE  /\ Tally(t) = [s \in DOMAIN Tally(t) |-> Tally(t)[s]]
         /\ \A s \in DOMAIN Tally(t) : Tally(t)[s] \in Nat
         /\ \A s \in DOMAIN Tally(t) : s = "none" \/ s \in O
         /\ Total(Tally(t), DOMAIN Tally(t)) <= Amount[m]
<1>1. DOMAIN t \subseteq O /\ (\A s \in DOMAIN t : t[s] \in Nat) /\ Total(t, DOMAIN t) <= Amount[m]
  BY DEF SoundTakes
<1>2. "none" \notin Shipment /\ "none" \notin DOMAIN t /\ IsFiniteSet(DOMAIN t)
  BY <1>1, UpcomingAssumption, FS_Subset
<1>3. PICK g : g = Tally(t)
  OBVIOUS
<1> DEFINE T == DOMAIN t
           S == T \cup {"none"}
<1>4. g = [s \in S |-> IF s \in T THEN t[s] ELSE 0]
  BY <1>3 DEF Tally
<1>5. DOMAIN g = S /\ g = [s \in S |-> g[s]] /\ (\A s \in T : g[s] = t[s]) /\ g["none"] = 0
  BY <1>2, <1>4
<1>6. IsFiniteSet(S) /\ T \in SUBSET S /\ S \ T = {"none"}
  BY <1>2, FS_AddElement
<1>7. (\A s \in T : t[s] \in Int /\ g[s] = t[s]) /\ \A s \in S \ T : g[s] = 0
  BY <1>1, <1>5, <1>6
<1>8. \A s \in S : g[s] \in Nat
  BY <1>1, <1>5
<1>10. \A s \in S : s = "none" \/ s \in O
  BY <1>1
<1> HIDE DEF S, T
<1>11. Total(g, S) = Total(t, T)
  BY <1>6, <1>7, TotalOver
<1> QED
  BY <1>1, <1>3, <1>5, <1>8, <1>10, <1>11 DEF T

LEMMA TallyShare ==
  ASSUME NEW t, NEW s \in Shipment
  PROVE  Share(Tally(t), s) = Share(t, s)
<1>1. s # "none"
  BY UpcomingAssumption
<1> QED
  BY <1>1 DEF Tally, Share

\* Lines and arrivals that a counting leaves.
LEMMA CountsAddUp ==
  ASSUME NEW ship, NEW arr, AddUp(ship, arr),
         NEW todo \in SUBSET Arrival, \A m \in todo : arr[m] = NotCounted,
         NEW O \in SUBSET Shipment, \A s \in O : ship[s] \in Expecting,
         NEW done, CountsRight(todo, O, [s \in O |-> ship[s]], done),
         NEW ship2, NEW arr2,
         ship2 = [s \in Shipment |-> IF s \in O THEN Credit(ship[s], done.lines[s].received - ship[s].received)
                                     ELSE ship[s]],
         arr2 = [m \in Arrival |-> IF m \in todo THEN Tally(done.takes[m]) ELSE arr[m]]
  PROVE  AddUp(ship2, arr2)
<1>1. /\ \A s \in O : /\ done.lines[s] \in Expecting
                      /\ done.lines[s].ordered = ship[s].ordered
                      /\ done.lines[s].received
                           = ship[s].received + Total([m \in todo |-> Share(done.takes[m], s)], todo)
      /\ \A m \in todo : SoundTakes(done.takes[m], O, m)
  BY DEF CountsRight
<1>2. IsFiniteSet(Arrival) /\ IsFiniteSet(todo) /\ "none" \notin Shipment
  BY UpcomingAssumption, FS_Subset
<1>3. \A m \in todo, s \in Shipment :
        Share(done.takes[m], s) \in Nat /\ (s \notin O => Share(done.takes[m], s) = 0)
  BY <1>1 DEF SoundTakes, Share
<1>4. \A m \in Arrival, s \in Shipment : Share(arr[m], s) \in Nat /\ (m \in todo => Share(arr[m], s) = 0)
  <2>1. \A s : s \notin DOMAIN NotCounted
    BY DEF NotCounted
  <2> QED
    BY <2>1 DEF AddUp, Share
<1>5. \A m \in Arrival, s \in Shipment :
        Share(arr2[m], s) = Share(arr[m], s) + (IF m \in todo THEN Share(done.takes[m], s) ELSE 0)
  <2> SUFFICES ASSUME NEW m \in Arrival, NEW s \in Shipment
               PROVE  Share(arr2[m], s) = Share(arr[m], s) + (IF m \in todo THEN Share(done.takes[m], s) ELSE 0)
    OBVIOUS
  <2>1. CASE m \in todo
    <3>1. PICK t : t = done.takes[m]
      OBVIOUS
    <3>2. SoundTakes(t, O, m) /\ arr2[m] = Tally(t)
      BY <1>1, <2>1, <3>1
    <3>3. Share(Tally(t), s) = Share(t, s)
      BY TallyShare
    <3>4. Share(arr2[m], s) = Share(done.takes[m], s)
      BY <3>1, <3>2, <3>3
    <3> QED
      BY <1>3, <1>4, <2>1, <3>4
  <2>2. CASE m \notin todo
    BY <1>4, <2>2
  <2> QED
    BY <2>1, <2>2
<1>6. ASSUME NEW s \in O
      PROVE  /\ SoundLine(ship2[s])
             /\ ship2[s].received = ship[s].received + Total([m \in todo |-> Share(done.takes[m], s)], todo)
  <2> DEFINE f == [m \in todo |-> Share(done.takes[m], s)]
             u == done.lines[s].received - ship[s].received
  <2>1. \A m \in todo : f[m] \in Nat
    BY <1>3
  <2>2. Total(f, todo) \in Nat
    <3> HIDE DEF f
    <3> QED
      BY <1>2, <2>1, TotalNat
  <2>3. done.lines[s].received = ship[s].received + Total(f, todo)
    BY <1>1
  <2>4. done.lines[s].received <= done.lines[s].ordered /\ done.lines[s].received \in Nat
    BY <1>1, ExpectingLine
  <2>5. ship[s] \in Expecting /\ ship[s].received \in Nat /\ ship[s].ordered \in Nat
        /\ Outstanding(ship[s]) = ship[s].ordered - ship[s].received
    BY ExpectingLine
  <2> HIDE DEF f
  <2>6. u \in Nat /\ u <= Outstanding(ship[s]) /\ u = Total(f, todo)
    <3>1. done.lines[s].ordered = ship[s].ordered
      BY <1>1
    <3> QED
      BY <2>2, <2>3, <2>4, <2>5, <3>1
  <2>7. ship2[s] = Credit(ship[s], u)
    OBVIOUS
  <2> HIDE DEF u
  <2>8. ship2[s] \in Expecting /\ ship2[s].received = ship[s].received + u
    BY <2>5, <2>6, <2>7, CreditIs
  <2>9. SoundLine(ship2[s])
    <3>1. ship2[s].received \in Nat /\ ship2[s].dropped = 0 /\ ship2[s].received <= ship2[s].ordered
      BY <2>8, ExpectingLine
    <3>2. ship2[s] \in ALine
      BY <2>8 DEF Expecting
    <3> QED
      BY <3>1, <3>2 DEF SoundLine
  <2> QED
    BY <2>6, <2>8, <2>9 DEF f
<1>7. \A s \in Shipment \ O : ship2[s] = ship[s]
  OBVIOUS
<1>8. \A s \in O : ship[s] # NoShipment /\ ship2[s] # NoShipment
  <2>1. \A s \in O : ship2[s] # NoShipment
    BY <1>6, LineIsSomething
  <2>2. \A s \in O : ship[s].status \in ShipmentStatus
    BY DEF Expecting, ALine
  <2>3. NoShipment.status \notin ShipmentStatus
    BY DEF NoShipment, ShipmentStatus
  <2> QED
    BY <2>1, <2>2, <2>3
<1>9. \A s \in Shipment : ship2[s] = NoShipment \/ SoundLine(ship2[s])
  BY <1>6, <1>7 DEF AddUp
<1>10. ASSUME NEW m \in Arrival
       PROVE  /\ arr2[m] = [s \in DOMAIN arr2[m] |-> arr2[m][s]]
              /\ \A s \in DOMAIN arr2[m] : arr2[m][s] \in Nat
              /\ \A s \in DOMAIN arr2[m] : s = "none" \/ (s \in Shipment /\ ship2[s] # NoShipment)
              /\ Total(arr2[m], DOMAIN arr2[m]) <= Amount[m]
  <2>1. CASE m \in todo
    <3>1. PICK t : t = done.takes[m]
      OBVIOUS
    <3>2. SoundTakes(t, O, m) /\ arr2[m] = Tally(t)
      BY <1>1, <2>1, <3>1
    <3>3. /\ Tally(t) = [s \in DOMAIN Tally(t) |-> Tally(t)[s]]
          /\ \A s \in DOMAIN Tally(t) : Tally(t)[s] \in Nat
          /\ \A s \in DOMAIN Tally(t) : s = "none" \/ s \in O
          /\ Total(Tally(t), DOMAIN Tally(t)) <= Amount[m]
      BY <3>2, TallyIs
    <3> QED
      BY <1>8, <3>2, <3>3
  <2>2. CASE m \notin todo
    <3>1. arr2[m] = arr[m]
      BY <2>2
    <3>2. \A s \in Shipment : ship[s] # NoShipment => ship2[s] # NoShipment
      BY <1>7, <1>8
    <3> QED
      BY <3>1, <3>2 DEF AddUp
  <2> QED
    BY <2>1, <2>2
<1>11. ASSUME NEW s \in Shipment, ship2[s] # NoShipment
       PROVE  ship2[s].received = Total(SharesOf(arr2, s), Arrival)
  <2> DEFINE f == SharesOf(arr, s)
             h == SharesOf(arr2, s)
             g == [m \in Arrival |-> IF m \in todo THEN Share(done.takes[m], s) ELSE 0]
             k == [m \in todo |-> Share(done.takes[m], s)]
  <2>1. \A m \in Arrival : f[m] \in Int /\ g[m] \in Int /\ h[m] = f[m] + g[m]
    BY <1>3, <1>4, <1>5 DEF SharesOf
  <2>2. (\A m \in todo : k[m] \in Int /\ g[m] = k[m]) /\ \A m \in Arrival \ todo : g[m] = 0
    BY <1>3
  <2>3. s \notin O => \A m \in Arrival : g[m] = 0
    BY <1>3
  <2>4. ship[s] # NoShipment
    BY <1>7, <1>8, <1>11
  <2>5. ship[s].received = Total(f, Arrival)
    BY <2>4 DEF AddUp
  <2>6. s \in O => ship2[s].received = ship[s].received + Total(k, todo)
    BY <1>6
  <2>7. s \notin O => ship2[s] = ship[s]
    BY <1>7
  <2> HIDE DEF f, g, h, k
  <2>8. Total(h, Arrival) = Total(f, Arrival) + Total(g, Arrival)
    BY <1>2, <2>1, TotalPlus
  <2>9. Total(g, Arrival) = Total(k, todo)
    BY <1>2, <2>2, TotalOver
  <2>10. s \notin O => Total(g, Arrival) = 0
    BY <1>2, <2>3, TotalZero
  <2>11. Total(f, Arrival) \in Int
    BY <1>2, <2>1, TotalInt
  <2>12. ship2[s].received = Total(h, Arrival)
    BY <2>5, <2>6, <2>7, <2>8, <2>9, <2>10, <2>11
  <2> QED
    BY <2>12 DEF h
<1> QED
  BY <1>9, <1>10, <1>11 DEF AddUp

SoundArrivals == AddUp(shipment, arrived)

LEMMA SharesAre ==
  ASSUME NEW s
  PROVE  [m \in Arrival |-> CountedFor(m, s)] = SharesOf(arrived, s)
  BY DEF CountedFor, SharesOf, Share

LEMMA AddsUp == SoundArrivals => ArrivalsAddUp
<1> SUFFICES ASSUME SoundArrivals PROVE ArrivalsAddUp
  OBVIOUS
<1>1. ASSUME NEW s \in Recorded
      PROVE  /\ shipment[s].received = Total([m \in Arrival |-> CountedFor(m, s)], Arrival)
             /\ shipment[s].received + shipment[s].dropped <= shipment[s].ordered
  <2>1. s \in Shipment /\ shipment[s] # NoShipment
    BY <1>1 DEF Recorded
  <2>2. shipment[s].received = Total(SharesOf(arrived, s), Arrival) /\ SoundLine(shipment[s])
    BY <2>1 DEF SoundArrivals, AddUp
  <2> QED
    BY <2>2, SharesAre DEF SoundLine
<1>2. \A m \in Arrival : Total(arrived[m], DOMAIN arrived[m]) <= Amount[m]
  BY DEF SoundArrivals, AddUp
<1> QED
  BY <1>1, <1>2 DEF ArrivalsAddUp

LEMMA OpenLineIs ==
  ASSUME SoundArrivals, NEW s \in OpenLines
  PROVE  s \in Shipment /\ shipment[s] # NoShipment /\ shipment[s] \in Expecting
<1>1. s \in Shipment /\ shipment[s] # NoShipment /\ shipment[s].status \in {"Open", "Partially Received"}
  BY DEF OpenLines, Recorded
<1>2. SoundLine(shipment[s])
  BY <1>1 DEF SoundArrivals, AddUp
<1>3. PICK l : l = shipment[s]
  OBVIOUS
<1>4. l \in ALine /\ l.status # "Closed" /\ l.dropped = 0 /\ l.received + l.dropped <= l.ordered
  BY <1>1, <1>2, <1>3 DEF SoundLine
<1>5. l.received \in Nat /\ l.ordered \in Nat
  BY <1>4 DEF ALine
<1>6. l.received <= l.ordered
  BY <1>4, <1>5
<1>7. l \in Expecting
  BY <1>4, <1>6 DEF Expecting
<1> QED
  BY <1>1, <1>3, <1>7

LEMMA NewLineIs ==
  ASSUME NEW s \in Shipment, NEW day \in Nat
  PROVE  SoundLine(NewLine(s, day)) /\ NewLine(s, day).received = 0
<1>1. Expected[s] \in Nat /\ Eta[s] \in Nat
  BY UpcomingAssumption
<1>2. PICK l : l = NewLine(s, day)
  OBVIOUS
<1>3. l \in ALine /\ l.received = 0 /\ l.dropped = 0 /\ l.ordered = Expected[s]
  BY <1>1, <1>2 DEF NewLine, ALine, ShipmentStatus
<1>4. SoundLine(l)
  BY <1>1, <1>3 DEF SoundLine
<1> QED
  BY <1>2, <1>3, <1>4

LEMMA RecordsAddUp ==
  ASSUME UpInv, SoundArrivals, NEW s \in Shipment, RecordsShipment(s)
  PROVE  SoundArrivals'
<1>1. shipment = [x \in Shipment |-> shipment[x]] /\ now \in Nat
  BY DEF UpInv, Lined, Clocked
<1>2. shipment' = [shipment EXCEPT ![s] = NewLine(s, now)] /\ shipment[s] = NoShipment /\ arrived' = arrived
  BY DEF RecordsShipment
<1>3. PICK l : l = NewLine(s, now)
  OBVIOUS
<1>4. SoundLine(l) /\ l.received = 0
  BY <1>1, <1>3, NewLineIs
<1>5. \A x \in Shipment : shipment'[x] = IF x = s THEN l ELSE shipment[x]
  BY <1>1, <1>2, <1>3
<1>6. PICK ship, ship2, arr : ship = shipment /\ ship2 = shipment' /\ arr = arrived
  OBVIOUS
<1>7. AddUp(ship, arr)
  BY <1>6 DEF SoundArrivals
<1>8. \A x \in Shipment :
           \/ ship2[x] = ship[x]
           \/ SoundLine(ship2[x]) /\ ship[x] # NoShipment /\ ship2[x].received = ship[x].received
           \/ SoundLine(ship2[x]) /\ ship[x] = NoShipment /\ ship2[x].received = 0
  BY <1>2, <1>4, <1>5, <1>6
<1>9. AddUp(ship2, arr)
  BY <1>7, <1>8, LinesMove
<1> QED
  BY <1>2, <1>6, <1>9 DEF SoundArrivals

LEMMA EditsAddUp ==
  ASSUME UpInv, SoundArrivals, NEW s \in Shipment, NEW q \in Edits, NEW eta \in {Eta[s], Unknown},
         EditsShipment(s, q, eta)
  PROVE  SoundArrivals'
<1>1. shipment = [x \in Shipment |-> shipment[x]]
  BY DEF UpInv, Lined
<1> DEFINE k == [shipment[s] EXCEPT !.ordered = q, !.eta = eta]
<1>2. shipment' = [shipment EXCEPT ![s] = [k EXCEPT !.status = StatusOf(k)]]
      /\ s \in OpenLines /\ q >= shipment[s].received /\ arrived' = arrived
  BY DEF EditsShipment
<1>3. PICK l : l = shipment[s]
  OBVIOUS
<1>4. l \in Expecting /\ l # NoShipment
  BY <1>2, <1>3, OpenLineIs
<1>5. l \in ALine /\ l.received \in Nat /\ l.dropped = 0
  BY <1>4, ExpectingLine DEF Expecting
<1>6. q \in Nat /\ eta \in Nat
  BY UpcomingAssumption
<1>7. k \in ALine /\ k.ordered = q /\ k.received = l.received /\ k.dropped = 0
  BY <1>3, <1>5, <1>6 DEF ALine
<1> HIDE DEF k
<1>8. PICK v \in ShipmentStatus : v = StatusOf(k) /\ v # "Closed"
  BY StatusIs
<1>9. PICK n : n = [k EXCEPT !.status = v]
  OBVIOUS
<1>10. n \in ALine /\ n.ordered = q /\ n.received = l.received /\ n.dropped = 0
  BY <1>7, <1>9 DEF ALine
<1>11. SoundLine(n)
  BY <1>2, <1>3, <1>5, <1>6, <1>10 DEF SoundLine
<1>12. \A x \in Shipment : shipment'[x] = IF x = s THEN n ELSE shipment[x]
  BY <1>1, <1>2, <1>8, <1>9
<1>13. PICK ship, ship2, arr : ship = shipment /\ ship2 = shipment' /\ arr = arrived
  OBVIOUS
<1>14. AddUp(ship, arr)
  BY <1>13 DEF SoundArrivals
<1>15. \A x \in Shipment :
           \/ ship2[x] = ship[x]
           \/ SoundLine(ship2[x]) /\ ship[x] # NoShipment /\ ship2[x].received = ship[x].received
           \/ SoundLine(ship2[x]) /\ ship[x] = NoShipment /\ ship2[x].received = 0
  BY <1>3, <1>4, <1>10, <1>11, <1>12, <1>13
<1>16. AddUp(ship2, arr)
  BY <1>14, <1>15, LinesMove
<1> QED
  BY <1>2, <1>13, <1>16 DEF SoundArrivals

LEMMA ClosedIs ==
  ASSUME NEW l \in Expecting
  PROVE  SoundLine(Closed(l)) /\ Closed(l).received = l.received
<1>1. /\ l \in ALine /\ l.ordered \in Nat /\ l.received \in Nat
      /\ l.dropped = 0 /\ l.received <= l.ordered
      /\ Outstanding(l) = l.ordered - l.received /\ Outstanding(l) \in Nat
  BY ExpectingLine DEF Expecting
<1>2. PICK u \in Nat : u = l.dropped + Outstanding(l)
  BY <1>1
<1>3. Closed(l) = [l EXCEPT !.dropped = u, !.status = "Closed"]
  BY <1>2 DEF Closed
<1>4. PICK k : k = [l EXCEPT !.dropped = u, !.status = "Closed"]
  OBVIOUS
<1>5. k \in ALine /\ k.dropped = u /\ k.received = l.received /\ k.ordered = l.ordered /\ k.status = "Closed"
  BY <1>1, <1>4 DEF ALine, ShipmentStatus
<1>6. l.received + u <= l.ordered
  BY <1>1, <1>2
<1>7. SoundLine(k)
  BY <1>5, <1>6 DEF SoundLine
<1> QED
  BY <1>3, <1>4, <1>5, <1>7

LEMMA ClosesAddUp ==
  ASSUME UpInv, SoundArrivals, NEW p \in Pass, ClosesShipments(p)
  PROVE  SoundArrivals'
<1>1. \A x \in Shipment : shipment'[x] = IF x \in pass[p].closing \cap OpenLines
                                         THEN Closed(shipment[x]) ELSE shipment[x]
  BY DEF ClosesShipments
<1>2. arrived' = arrived
  BY DEF ClosesShipments
<1>3. \A x \in OpenLines : shipment[x] # NoShipment /\ shipment[x] \in Expecting
  BY OpenLineIs
<1>4. PICK ship, ship2, arr : ship = shipment /\ ship2 = shipment' /\ arr = arrived
  OBVIOUS
<1>5. AddUp(ship, arr)
  BY <1>4 DEF SoundArrivals
<1>6. \A x \in Shipment :
           \/ ship2[x] = ship[x]
           \/ SoundLine(ship2[x]) /\ ship[x] # NoShipment /\ ship2[x].received = ship[x].received
           \/ SoundLine(ship2[x]) /\ ship[x] = NoShipment /\ ship2[x].received = 0
  BY <1>1, <1>3, <1>4, ClosedIs
<1>7. AddUp(ship2, arr)
  BY <1>5, <1>6, LinesMove
<1> QED
  BY <1>2, <1>4, <1>7 DEF SoundArrivals

LEMMA AppliesAddUp ==
  ASSUME UpInv, SoundArrivals, NEW p \in Pass, Applies(p)
  PROVE  SoundArrivals'
<1> DEFINE todo == {m \in pass[p].todo : arrived[m] = NotCounted}
           lines == [s \in OpenLines |-> shipment[s]]
           done == Counting(todo, lines)
<1>1. /\ shipment' = [s \in Shipment |->
           IF s \in OpenLines THEN Credit(shipment[s], done.lines[s].received - shipment[s].received)
                              ELSE shipment[s]]
      /\ arrived' = [m \in Arrival |->
           IF m \in todo THEN Tally(done.takes[m]) ELSE arrived[m]]
      /\ pass[p].step = "apply"
  BY DEF Applies, Counts
<1>2. pass[p].todo \subseteq Arrival
  BY <1>1 DEF UpInv, Passes, Reading, Clocked
<1>3. PICK O : O = OpenLines
  OBVIOUS
<1>4. O \in SUBSET Shipment /\ \A s \in O : shipment[s] \in Expecting
  BY <1>3, OpenLineIs
<1>5. Countable(O)
  <2>1. IsFiniteSet(O)
    BY <1>4, FS_Subset, UpcomingAssumption
  <2>2. stamp \in [Arrival -> Nat]
    BY DEF UpInv, Clocked
  <2>3. \A s \in O : shipment[s].eta \in Nat /\ shipment[s].born \in Nat
    BY <1>4, ExpectingLine
  <2> QED
    BY <2>1, <2>2, <2>3 DEF Countable
<1>6. PICK T : T = todo
  OBVIOUS
<1>7. T \in SUBSET Arrival /\ \A m \in T : arrived[m] = NotCounted
  BY <1>2, <1>6
<1>8. PICK L : L = [s \in O |-> shipment[s]]
  OBVIOUS
<1>9. L \in [O -> Expecting] /\ L = lines
  BY <1>3, <1>4, <1>8
<1>10. CountsRight(T, O, L, Counting(T, L))
  BY <1>5, <1>7, <1>9, CountingIs
<1>11. PICK d : d = Counting(T, L)
  OBVIOUS
<1>12. d = done
  BY <1>6, <1>9, <1>11
<1> HIDE DEF done, todo, lines
<1>13. PICK ship, arr, ship2, arr2 : ship = shipment /\ arr = arrived /\ ship2 = shipment' /\ arr2 = arrived'
  OBVIOUS
<1>14. ship2 = [s \in Shipment |-> IF s \in O THEN Credit(ship[s], d.lines[s].received - ship[s].received)
                                   ELSE ship[s]]
  BY <1>1, <1>3, <1>12, <1>13
<1>15. arr2 = [m \in Arrival |-> IF m \in T THEN Tally(d.takes[m]) ELSE arr[m]]
  BY <1>1, <1>6, <1>12, <1>13
<1>16. AddUp(ship, arr)
  BY <1>13 DEF SoundArrivals
<1>17. (\A m \in T : arr[m] = NotCounted) /\ \A s \in O : ship[s] \in Expecting
  BY <1>4, <1>7, <1>13
<1>18. CountsRight(T, O, [s \in O |-> ship[s]], d)
  BY <1>8, <1>10, <1>11, <1>13
<1>19. AddUp(ship2, arr2)
  BY <1>4, <1>7, <1>14, <1>15, <1>16, <1>17, <1>18, CountsAddUp
<1> QED
  BY <1>13, <1>19 DEF SoundArrivals

LEMMA ArrivalsBegin == UpcomingInit => SoundArrivals
<1> SUFFICES ASSUME UpcomingInit PROVE SoundArrivals
  OBVIOUS
<1>1. /\ \A s \in Shipment : shipment[s] = IF s \in Standing THEN NewLine(s, 1) ELSE NoShipment
      /\ \A m \in Arrival : arrived[m] = NotCounted
  BY DEF UpcomingInit
<1>2. 1 \in Nat
  OBVIOUS
<1>3. \A s \in Shipment : SoundLine(NewLine(s, 1)) /\ NewLine(s, 1).received = 0
  BY <1>2, NewLineIs
<1>4. DOMAIN NotCounted = {} /\ NotCounted = [s \in DOMAIN NotCounted |-> NotCounted[s]]
  BY DEF NotCounted
<1>5. Total(NotCounted, DOMAIN NotCounted) = 0
  BY <1>4, TotalOfNone
<1>6. \A s : Total(SharesOf(arrived, s), Arrival) = 0
  <2> SUFFICES ASSUME NEW s PROVE Total(SharesOf(arrived, s), Arrival) = 0
    OBVIOUS
  <2>1. PICK f : f = SharesOf(arrived, s)
    OBVIOUS
  <2>2. \A m \in Arrival : f[m] = 0
    BY <1>1, <1>4, <2>1 DEF SharesOf, Share
  <2>3. Total(f, Arrival) = 0
    BY <2>2, TotalZero, UpcomingAssumption
  <2> QED
    BY <2>1, <2>3
<1>7. \A m \in Arrival : 0 <= Amount[m]
  BY UpcomingAssumption
<1>8. \A s \in Shipment : shipment[s] = NoShipment \/ (SoundLine(shipment[s]) /\ shipment[s].received = 0)
  BY <1>1, <1>3
<1> QED
  BY <1>1, <1>4, <1>5, <1>6, <1>7, <1>8 DEF SoundArrivals, AddUp

LEMMA ArrivalsKeep == UpInv /\ SoundArrivals /\ [UpcomingNext]_upcomingVars => SoundArrivals'
<1> SUFFICES ASSUME UpInv, SoundArrivals, [UpcomingNext]_upcomingVars PROVE SoundArrivals'
  OBVIOUS
<1>1. ASSUME UNCHANGED <<shipment, arrived>> PROVE SoundArrivals'
  BY <1>1 DEF SoundArrivals
<1>2. ASSUME NEW s \in Shipment, RecordsShipment(s) PROVE SoundArrivals'
  BY <1>2, RecordsAddUp
<1>3. ASSUME NEW s \in Shipment, NEW q \in Edits, NEW eta \in {Eta[s], Unknown}, EditsShipment(s, q, eta)
      PROVE  SoundArrivals'
  BY <1>3, EditsAddUp
<1>4. ASSUME NEW p \in Pass, ClosesShipments(p) PROVE SoundArrivals'
  BY <1>4, ClosesAddUp
<1>5. ASSUME NEW p \in Pass, Applies(p) PROVE SoundArrivals'
  BY <1>5, AppliesAddUp
<1>6. CASE Ticks
  BY <1>1, <1>6 DEF Ticks
<1>7. ASSUME NEW m \in Arrival, BuildsMovement(m) \/ CommitsMovement(m) PROVE SoundArrivals'
  BY <1>1, <1>7 DEF BuildsMovement, CommitsMovement
<1>8. ASSUME NEW p \in Pass, NEW closing \in SUBSET Shipment, BeginsPass(p, closing) PROVE SoundArrivals'
  BY <1>1, <1>8 DEF BeginsPass
<1>9. ASSUME NEW p \in Pass, TakesSince(p) \/ Scans(p) \/ FinishesPass(p) \/ DropsPass(p)
      PROVE  SoundArrivals'
  BY <1>1, <1>9 DEF TakesSince, Scans, FinishesPass, DropsPass
<1>10. CASE UNCHANGED upcomingVars
  BY <1>1, <1>10 DEF upcomingVars
<1> QED
  BY <1>2, <1>3, <1>4, <1>5, <1>6, <1>7, <1>8, <1>9, <1>10 DEF UpcomingNext

Lesser(a, b) == IF a < b THEN a ELSE b

LEMMA LesserIs ==
  ASSUME NEW a \in Nat, NEW b \in Nat
  PROVE  Min({a, b}) = Lesser(a, b)
<1>1. {a, b} \in SUBSET Nat /\ {a, b} # {}
  OBVIOUS
<1>2. Min({a, b}) \in {a, b} /\ \A x \in {a, b} : Min({a, b}) <= x
  BY <1>1, MinOf
<1> QED
  BY <1>2 DEF Lesser

\* What comes after some of a sum.
LEMMA LesserAfter ==
  ASSUME NEW a \in Nat, NEW b \in Nat, NEW u \in Nat
  PROVE  Lesser(b, u - Lesser(a, u)) = Lesser(a + b, u) - Lesser(a, u)
<1>1. CASE a < u
  <2>1. Lesser(a, u) = a
    BY <1>1 DEF Lesser
  <2>2. CASE b < u - a
    BY <1>1, <2>1, <2>2 DEF Lesser
  <2>3. CASE ~(b < u - a)
    BY <1>1, <2>1, <2>3 DEF Lesser
  <2> QED
    BY <2>2, <2>3
<1>2. CASE ~(a < u)
  <2>1. Lesser(a, u) = u /\ ~(a + b < u) /\ u - u = 0 /\ ~(b < 0)
    BY <1>2 DEF Lesser
  <2> QED
    BY <2>1 DEF Lesser
<1> QED
  BY <1>1, <1>2

\* One indent gets what it needs or what there is, and the pool has that much less.
ServesRight(n, need, pool) ==
  /\ Serve(need, pool).pool \in [1..n -> Nat]
  /\ Serve(need, pool).got = Lesser(need, Total(pool, 1..n))
  /\ Total(Serve(need, pool).pool, 1..n) = Total(pool, 1..n) - Serve(need, pool).got
  /\ Total(pool, 1..n) \in Nat

LEMMA ServeIs ==
  ASSUME NEW n \in Nat, NEW pool \in [1..n -> Nat], NEW need \in Nat
  PROVE  ServesRight(n, need, pool)
<1>1. PICK left : left = Left(need, pool)
  OBVIOUS
<1> DEFINE taken == [i \in 1..n |-> left[i - 1] - left[i]]
           rest == [i \in 1..n |-> pool[i] - taken[i]]
<1>2. Len(pool) = n /\ DOMAIN pool = 1..n /\ n \in 0..n /\ IsFiniteSet(1..n)
  BY LengthOf, FS_Interval
<1>3. left \in [0..n -> Nat] /\ left[n] \in Nat
  <2>1. left \in [0..n -> Nat]
    BY <1>1, LeftSteps
  <2> QED
    BY <1>2, <2>1
<1>4. \A i \in 1..n : taken[i] \in Nat /\ taken[i] <= pool[i] /\ pool[i] \in Nat
  <2> SUFFICES ASSUME NEW i \in 1..n PROVE taken[i] \in Nat /\ taken[i] <= pool[i] /\ pool[i] \in Nat
    OBVIOUS
  <2>1. /\ Left(need, pool)[i - 1] - Left(need, pool)[i] \in Nat
        /\ Left(need, pool)[i - 1] - Left(need, pool)[i] <= pool[i]
    BY LeftTaken
  <2> QED
    BY <1>1, <2>1
<1>5. Serve(need, pool).pool = rest /\ Serve(need, pool).got = need - left[n]
  BY <1>1, <1>2 DEF Serve
<1>6. \A i \in 1..n : rest[i] \in Nat /\ pool[i] = rest[i] + taken[i]
  BY <1>4
<1>7. rest \in [1..n -> Nat]
  BY <1>6
<1>8. PICK r, t : r = rest /\ t = taken
  OBVIOUS
<1>9. \A i \in 1..n : r[i] \in Int /\ t[i] \in Int /\ pool[i] = r[i] + t[i]
  BY <1>4, <1>6, <1>8
<1>10. Total(pool, 1..n) = Total(r, 1..n) + Total(t, 1..n)
  BY <1>2, <1>9, TotalPlus
<1>11. Total(pool, 1..n) \in Nat /\ Total(r, 1..n) \in Int /\ Total(t, 1..n) \in Int
  <2>1. \A i \in 1..n : pool[i] \in Nat
    BY <1>4
  <2> QED
    BY <1>2, <1>9, <2>1, TotalNat, TotalInt
<1>12. Splits(left, need, t, pool, n)
  <2>1. \A i \in 1..n : t[i] = Left(need, pool)[i - 1] - Left(need, pool)[i]
    BY <1>1, <1>8
  <2>2. \A k \in 0..n : Splits(Left(need, pool), need, t, pool, k)
    BY <2>1, LeftTotal
  <2> QED
    BY <1>1, <1>2, <2>2
<1>13. left[n] = need - Total(t, 1..n)
       /\ left[n] = IF need > Total(pool, 1..n) THEN need - Total(pool, 1..n) ELSE 0
  BY <1>12 DEF Splits
<1> HIDE DEF rest, taken
<1>14. Serve(need, pool).got = Lesser(need, Total(pool, 1..n))
  BY <1>3, <1>5, <1>11, <1>13 DEF Lesser
<1>15. Total(Serve(need, pool).pool, 1..n) = Total(pool, 1..n) - Serve(need, pool).got
  <2>1. Serve(need, pool).pool = r
    BY <1>5, <1>8
  <2>2. Serve(need, pool).got = Total(t, 1..n)
    BY <1>5, <1>11, <1>13
  <2> QED
    BY <1>10, <1>11, <2>1, <2>2
<1> QED
  BY <1>5, <1>7, <1>11, <1>14, <1>15 DEF ServesRight

Covered(needs, upcoming, i) == Lesser(Total(needs, 1..i), upcoming)

\* The indents are served in order.
FifoRight(n, pool, needs, fifo) ==
  /\ \A i \in 1..Len(needs) :
       fifo.shares[i] = Covered(needs, Total(pool, 1..n), i) - Covered(needs, Total(pool, 1..n), i - 1)
  /\ DOMAIN fifo.pool = 1..n
  /\ Total(fifo.pool, 1..n) = Total(pool, 1..n) - Covered(needs, Total(pool, 1..n), Len(needs))

LEMMA FifoIs ==
  ASSUME NEW n \in Nat, NEW pool \in [1..n -> Nat], NEW needs \in Seq(Nat)
  PROVE  FifoRight(n, pool, needs, AllocateFifo(pool, needs))
<1> DEFINE k == Len(needs)
           V == [1..n -> Nat]
           Rec(f) == [i \in 0..Len(needs) |-> IF i = 0 THEN pool ELSE Serve(needs[i], f[i - 1]).pool]
           after == CHOOSE f : f = Rec(f)
           step == [x \in (1..k) \X V |-> Serve(needs[x[1]], x[2]).pool]
           upcoming == Total(pool, 1..n)
<1>1. k \in Nat /\ DOMAIN needs = 1..k /\ \A i \in 1..k : needs[i] \in Nat
  OBVIOUS
<1>2. AllocateFifo(pool, needs)
        = [pool |-> after[k], shares |-> [i \in DOMAIN needs |-> Serve(needs[i], after[i - 1]).got]]
  BY DEF AllocateFifo
<1>3. \A i \in 1..k, p \in V : ServesRight(n, needs[i], p)
  BY <1>1, ServeIs
<1>4. \A i \in 1..k, p \in V : step[<<i, p>>] = Serve(needs[i], p).pool /\ step[<<i, p>>] \in V
  BY <1>3 DEF ServesRight
<1>5. step \in [(1..k) \X V -> V]
  <2>1. \A x \in (1..k) \X V : x[1] \in 1..k /\ x[2] \in V /\ x = <<x[1], x[2]>>
    OBVIOUS
  <2>2. \A x \in (1..k) \X V : step[x] \in V
    BY <1>4, <2>1
  <2>3. step = [x \in (1..k) \X V |-> step[x]]
    OBVIOUS
  <2> HIDE DEF step
  <2> QED
    BY <2>2, <2>3
<1> HIDE DEF step
<1>6. \E f : f = Rec(f)
  <2>1. pool \in V
    OBVIOUS
  <2> HIDE DEF V
  <2>2. PICK f \in [0..k -> V] : GoesBy(f, k, pool, step)
    BY <1>1, <1>5, <2>1, StepsLead
  <2>3. \A i \in 0..k : f[i] = IF i = 0 THEN pool ELSE step[<<i, f[i - 1]>>]
    BY <2>2 DEF GoesBy
  <2>4. \A i \in 0..k : i # 0 => i \in 1..k /\ i - 1 \in 0..k
    BY <1>1
  <2>5. \A i \in 0..k : i # 0 => step[<<i, f[i - 1]>>] = Serve(needs[i], f[i - 1]).pool
    <3> SUFFICES ASSUME NEW i \in 0..k, i # 0
                 PROVE  step[<<i, f[i - 1]>>] = Serve(needs[i], f[i - 1]).pool
      OBVIOUS
    <3>1. i \in 1..k /\ f[i - 1] \in V
      BY <2>2, <2>4
    <3> QED
      BY <1>4, <3>1
  <2>6. \A i \in 0..k : f[i] = IF i = 0 THEN pool ELSE Serve(needs[i], f[i - 1]).pool
    BY <2>3, <2>5
  <2>7. f = [i \in 0..k |-> f[i]]
    BY <2>2
  <2>8. f = [i \in 0..Len(needs) |-> IF i = 0 THEN pool ELSE Serve(needs[i], f[i - 1]).pool]
    BY <2>6, <2>7
  <2> QED
    BY <2>8
<1>7. after = Rec(after)
  BY <1>6
<1> HIDE DEF after
<1>8. after[0] = pool /\ \A i \in 1..k : after[i] = Serve(needs[i], after[i - 1]).pool
  <2>1. 0 \in 0..k /\ \A i \in 1..k : i \in 0..k /\ i # 0
    BY <1>1
  <2> QED
    BY <1>7, <2>1
<1>9. upcoming \in Nat
  <2>1. \A i \in 1..n : pool[i] \in Nat
    OBVIOUS
  <2> QED
    BY <2>1, FS_Interval, TotalNat
<1>10. \A i \in 1..k : Total(needs, 1..i) = Total(needs, 1..(i - 1)) + needs[i]
                       /\ Total(needs, 1..(i - 1)) \in Int
  <2>1. \A i \in 1..k : needs[i] \in Int
    BY <1>1
  <2> HIDE DEF k
  <2> QED
    BY <1>1, <2>1, TotalUpTo
<1>11. Total(needs, 1..0) = 0
  <2>1. 1..0 = {}
    OBVIOUS
  <2> QED
    BY <2>1, TotalOfNone
<1> HIDE DEF V, k, upcoming, Rec
<1> DEFINE Ok(i) == /\ after[i] \in V /\ Total(after[i], 1..n) = upcoming - Covered(needs, upcoming, i)
                    /\ Total(needs, 1..i) \in Nat
           P == {i \in 0..k : Ok(i)}
<1>12. 0 \in P
  BY <1>1, <1>8, <1>9, <1>11 DEF Covered, Lesser, V, upcoming
<1>13. \A i \in 1..k : i - 1 \in P => /\ Ok(i)
          /\ Serve(needs[i], after[i - 1]).got = Covered(needs, upcoming, i) - Covered(needs, upcoming, i - 1)
  <2> SUFFICES ASSUME NEW i \in 1..k, i - 1 \in P
               PROVE  /\ Ok(i)
          /\ Serve(needs[i], after[i - 1]).got = Covered(needs, upcoming, i) - Covered(needs, upcoming, i - 1)
    OBVIOUS
  <2>1. Ok(i - 1)
    OBVIOUS
  <2>2. PICK p \in V : p = after[i - 1]
    BY <2>1
  <2>3. ServesRight(n, needs[i], p) /\ needs[i] \in Nat
    BY <1>1, <1>3
  <2>4. PICK have : have = Total(p, 1..n)
    OBVIOUS
  <2>5. PICK before, sum : before = Total(needs, 1..(i - 1)) /\ sum = Total(needs, 1..i)
    OBVIOUS
  <2>6. PICK got : got = Serve(needs[i], p).got
    OBVIOUS
  <2>7. /\ before \in Nat /\ sum = before + needs[i] /\ sum \in Nat
    BY <1>10, <2>1, <2>3, <2>5
  <2>8. have = upcoming - Lesser(before, upcoming) /\ have \in Nat
    BY <2>1, <2>2, <2>3, <2>4, <2>5 DEF Covered, ServesRight
  <2>9. got = Lesser(needs[i], have)
    BY <2>3, <2>4, <2>6 DEF ServesRight
  <2>10. after[i] \in V /\ Total(after[i], 1..n) = have - got
    BY <1>8, <2>2, <2>3, <2>4, <2>6 DEF ServesRight, V
  <2>11. got = Lesser(sum, upcoming) - Lesser(before, upcoming)
    <3>1. Lesser(needs[i], upcoming - Lesser(before, upcoming))
            = Lesser(before + needs[i], upcoming) - Lesser(before, upcoming)
      BY <1>9, <2>3, <2>7, LesserAfter
    <3> QED
      BY <2>7, <2>8, <2>9, <3>1
  <2>12. have - got = upcoming - Lesser(sum, upcoming)
    <3>1. Lesser(before, upcoming) \in Nat /\ Lesser(sum, upcoming) \in Nat
      BY <1>9, <2>7 DEF Lesser
    <3> QED
      BY <1>9, <2>8, <2>11, <3>1
  <2> QED
    BY <2>2, <2>5, <2>6, <2>7, <2>10, <2>11, <2>12 DEF Covered
<1> HIDE DEF Ok
<1>14. \A i \in 0..k : i \in P
  <2>1. \A i \in 1..k : i - 1 \in P => i \in P
    <3>1. \A i \in 1..k : i \in 0..k
      BY <1>1
    <3> QED
      BY <1>13, <3>1
  <2> HIDE DEF P
  <2> QED
    BY <1>1, <1>12, <2>1, UpTo
<1>15. \A i \in 1..k :
         Serve(needs[i], after[i - 1]).got = Covered(needs, upcoming, i) - Covered(needs, upcoming, i - 1)
  <2>1. \A i \in 1..k : i - 1 \in 0..k
    BY <1>1
  <2> QED
    BY <1>13, <1>14, <2>1
<1>16. after[k] \in V /\ Total(after[k], 1..n) = upcoming - Covered(needs, upcoming, k)
  <2>1. k \in 0..k
    BY <1>1
  <2> QED
    BY <1>14, <2>1 DEF Ok
<1>17. PICK fifo : fifo = AllocateFifo(pool, needs)
  OBVIOUS
<1>18. fifo.pool = after[k] /\ \A i \in 1..k : fifo.shares[i] = Serve(needs[i], after[i - 1]).got
  BY <1>1, <1>2, <1>17
<1>19. FifoRight(n, pool, needs, fifo)
  BY <1>15, <1>16, <1>18 DEF FifoRight, V, k, upcoming
<1> QED
  BY <1>17, <1>19

LEMMA SharesInOrder == UpInv /\ SoundArrivals => FifoShares
<1> SUFFICES ASSUME UpInv, SoundArrivals PROVE FifoShares
  OBVIOUS
<1>1. PICK O : O = OpenLines
  OBVIOUS
<1>2. O \in SUBSET Shipment /\ \A s \in O : shipment[s] \in Expecting
  BY <1>1, OpenLineIs
<1>3. IsFiniteSet(O) /\ Cardinality(O) \in Nat
  BY <1>2, UpcomingAssumption, FS_Subset, FS_CardinalityType
<1>4. PICK n \in Nat : n = Cardinality(O)
  BY <1>3
<1>5. PICK key, tie : key = [s \in O |-> shipment[s].eta] /\ tie = [s \in O |-> shipment[s].born]
  OBVIOUS
<1>6. \A s \in O : key[s] \in Nat /\ tie[s] \in Nat
  BY <1>2, <1>5, ExpectingLine
<1>7. PICK lines : lines = ByEta(OpenLines)
  OBVIOUS
<1>8. lines \in Bijection(1..n, O)
  <2>1. InOrder(O, key, tie) \in Bijection(1..n, O)
    BY <1>3, <1>4, <1>6, OrderIs
  <2>2. lines = InOrder(O, key, tie)
    BY <1>1, <1>5, <1>7 DEF ByEta
  <2> QED
    BY <2>1, <2>2
<1>9. DOMAIN lines = 1..n /\ \A i \in 1..n : lines[i] \in O
  BY <1>8, PositionIs
<1>10. PICK pool, units : /\ pool = [i \in DOMAIN lines |-> Outstanding(shipment[lines[i]])]
                          /\ units = [s \in OpenLines |-> Outstanding(shipment[s])]
  OBVIOUS
<1>11. \A s \in O : Outstanding(shipment[s]) \in Nat
  BY <1>2, ExpectingLine
<1>12. pool \in [1..n -> Nat] /\ \A i \in 1..n : units[lines[i]] \in Int /\ pool[i] = units[lines[i]]
  BY <1>1, <1>9, <1>10, <1>11
<1>13. Total(units, O) = Total(pool, 1..n)
  BY <1>8, <1>12, TotalInOrder
<1>14. PICK upcoming : upcoming = Total(units, OpenLines)
  OBVIOUS
<1>15. upcoming = Total(pool, 1..n) /\ upcoming \in Nat
  <2>1. \A i \in 1..n : pool[i] \in Nat
    BY <1>12
  <2>2. Total(pool, 1..n) \in Nat
    <3>1. IsFiniteSet(1..n)
      BY FS_Interval
    <3> QED
      BY <2>1, <3>1, TotalNat
  <2> QED
    BY <1>1, <1>13, <1>14, <2>2
<1>16. ASSUME NEW needs \in Waiting
       PROVE  LET fifo == AllocateFifo(pool, needs)
                  covered(i) == Min({Total(needs, 1..i), upcoming})
              IN  /\ \A i \in DOMAIN needs : fifo.shares[i] = covered(i) - covered(i - 1)
                  /\ Total(fifo.pool, DOMAIN fifo.pool) = upcoming - covered(Len(needs))
  <2>1. needs \in Seq(Nat)
    BY UpcomingAssumption
  <2>2. Len(needs) \in Nat /\ DOMAIN needs = 1..Len(needs) /\ \A i \in 1..Len(needs) : needs[i] \in Nat
    BY <2>1
  <2>3. PICK fifo : fifo = AllocateFifo(pool, needs)
    OBVIOUS
  <2>4. FifoRight(n, pool, needs, fifo)
    BY <1>12, <2>1, <2>3, FifoIs
  <2>5. \A i \in 0..Len(needs) : Min({Total(needs, 1..i), upcoming}) = Covered(needs, upcoming, i)
    <3> SUFFICES ASSUME NEW i \in 0..Len(needs)
                 PROVE  Min({Total(needs, 1..i), upcoming}) = Covered(needs, upcoming, i)
      OBVIOUS
    <3>1. \A j \in 1..i : needs[j] \in Nat
      BY <2>2
    <3>2. Total(needs, 1..i) \in Nat
      <4>1. IsFiniteSet(1..i)
        BY FS_Interval
      <4> QED
        BY <3>1, <4>1, TotalNat
    <3> QED
      BY <1>15, <3>2, LesserIs DEF Covered
  <2>6. (\A i \in 1..Len(needs) : i \in 0..Len(needs) /\ i - 1 \in 0..Len(needs)) /\ Len(needs) \in 0..Len(needs)
    BY <2>2
  <2>7. \A i \in DOMAIN needs : fifo.shares[i] = Min({Total(needs, 1..i), upcoming})
                                                  - Min({Total(needs, 1..(i - 1)), upcoming})
    BY <1>15, <2>2, <2>4, <2>5, <2>6 DEF FifoRight
  <2>8. Total(fifo.pool, DOMAIN fifo.pool) = upcoming - Min({Total(needs, 1..Len(needs)), upcoming})
    BY <1>15, <2>4, <2>5, <2>6 DEF FifoRight
  <2> QED
    BY <2>3, <2>7, <2>8
<1> QED
  BY <1>7, <1>10, <1>14, <1>16 DEF FifoShares

\* Each increase of stock counts once: a line has received what the arrivals credited to
\* it and no more than was expected of it, and no arrival credits more than came in,
\* however many passes, edits and closings overlap.
THEOREM ArrivalsAlwaysAddUp == UpcomingSpec => []ArrivalsAddUp
<1> QED
  BY UpcomingBegins, UpcomingKeeps, ArrivalsBegin, ArrivalsKeep, AddsUp, PTL DEF UpcomingSpec

\* The simulated allocation serves the indents strictly in order and shares out all that
\* is on its way and nothing else, for any open lines and any needs.
THEOREM ServedInOrder == UpcomingSpec => []FifoShares
<1> QED
  BY UpcomingBegins, UpcomingKeeps, ArrivalsBegin, ArrivalsKeep, SharesInOrder, PTL DEF UpcomingSpec

-----------------------------------------------------------------------------
(* Types.                                                                  *)

PassStep == {"none", "since", "scan", "apply", "finish", "close"}

\* What the types say beyond what the lines, the arrivals and the passes rest on.
UpcomingRest == now \in 1..MaxTime /\ \A p \in Pass : pass[p].step \in PassStep

LEMMA PassGoesOn ==
  ASSUME UpInv, UpcomingRest, NEW p \in Pass, NEW q, q.step \in PassStep,
         pass' = [pass EXCEPT ![p] = q]
  PROVE  \A r \in Pass : pass'[r].step \in PassStep
<1>1. pass = [r \in Pass |-> pass[r]]
  BY DEF UpInv, Passes
<1>2. pass'[p] = q /\ \A r \in Pass : r # p => pass'[r] = pass[r]
  BY <1>1
<1> QED
  BY <1>2 DEF UpcomingRest

LEMMA UpcomingRestStep == UpInv /\ UpcomingRest /\ [UpcomingNext]_upcomingVars => UpcomingRest'
<1> SUFFICES ASSUME UpInv, UpcomingRest, [UpcomingNext]_upcomingVars PROVE UpcomingRest'
  OBVIOUS
<1>1. ASSUME UNCHANGED <<now, pass>> PROVE UpcomingRest'
  BY <1>1 DEF UpcomingRest
<1>2. ASSUME NEW p \in Pass, NEW q, q.step \in PassStep, now' = now, pass' = [pass EXCEPT ![p] = q]
      PROVE  UpcomingRest'
  <2>1. \A r \in Pass : pass'[r].step \in PassStep
    BY <1>2, PassGoesOn
  <2> QED
    BY <1>2, <2>1 DEF UpcomingRest
<1>3. CASE Ticks
  BY <1>3, UpcomingAssumption DEF Ticks, UpcomingRest
<1>4. ASSUME NEW m \in Arrival, BuildsMovement(m) \/ CommitsMovement(m) PROVE UpcomingRest'
  BY <1>1, <1>4 DEF BuildsMovement, CommitsMovement
<1>5. ASSUME NEW s \in Shipment, NEW q, NEW eta, RecordsShipment(s) \/ EditsShipment(s, q, eta)
      PROVE  UpcomingRest'
  BY <1>1, <1>5 DEF RecordsShipment, EditsShipment
<1>6. ASSUME NEW p \in Pass, NEW closing \in SUBSET Shipment, BeginsPass(p, closing) PROVE UpcomingRest'
  <2>1. PICK q : q = [step |-> "since", closing |-> closing,
                      first |-> Min({shipment[s].born : s \in OpenLines})]
    OBVIOUS
  <2>2. now' = now /\ pass' = [pass EXCEPT ![p] = q]
    BY <1>6, <2>1 DEF BeginsPass
  <2>3. q.step \in PassStep
    BY <2>1 DEF PassStep
  <2> QED
    BY <1>2, <2>2, <2>3
<1>7. ASSUME NEW p \in Pass, TakesSince(p) PROVE UpcomingRest'
  <2>1. PICK since : since = (IF pass[p].first > synced THEN pass[p].first ELSE synced) - Lookback
    OBVIOUS
  <2>2. PICK q : q = [step |-> "scan", closing |-> pass[p].closing, started |-> now, since |-> since]
    OBVIOUS
  <2>3. now' = now /\ pass' = [pass EXCEPT ![p] = q]
    BY <1>7, <2>1, <2>2 DEF TakesSince
  <2>4. q.step \in PassStep
    BY <2>2 DEF PassStep
  <2> QED
    BY <1>2, <2>3, <2>4
<1>8. ASSUME NEW p \in Pass, Scans(p) PROVE UpcomingRest'
  <2>1. PICK found : found = {m \in seen : stamp[m] >= pass[p].since /\ arrived[m] = NotCounted}
    OBVIOUS
  <2>2. PICK q : q = IF found = {} THEN Finishing(p)
                     ELSE [step |-> "apply", closing |-> pass[p].closing, started |-> pass[p].started,
                           todo |-> found]
    OBVIOUS
  <2>3. now' = now /\ pass' = [pass EXCEPT ![p] = q]
    BY <1>8, <2>1, <2>2 DEF Scans
  <2>4. q.step \in PassStep
    BY <2>2 DEF PassStep, Finishing
  <2> QED
    BY <1>2, <2>3, <2>4
<1>9. ASSUME NEW p \in Pass, Applies(p) PROVE UpcomingRest'
  <2>1. Finishing(p).step \in PassStep
    BY DEF PassStep, Finishing
  <2>2. now' = now /\ pass' = [pass EXCEPT ![p] = Finishing(p)]
    BY <1>9 DEF Applies
  <2> QED
    BY <1>2, <2>1, <2>2
<1>10. ASSUME NEW p \in Pass, FinishesPass(p) PROVE UpcomingRest'
  <2>1. PICK q : q = IF pass[p].closing = {} THEN NoPass ELSE [step |-> "close", closing |-> pass[p].closing]
    OBVIOUS
  <2>2. now' = now /\ pass' = [pass EXCEPT ![p] = q]
    BY <1>10, <2>1 DEF FinishesPass, EndsPass
  <2>3. q.step \in PassStep
    BY <2>1 DEF PassStep, NoPass
  <2> QED
    BY <1>2, <2>2, <2>3
<1>11. ASSUME NEW p \in Pass, ClosesShipments(p) \/ DropsPass(p) PROVE UpcomingRest'
  <2>1. now' = now /\ pass' = [pass EXCEPT ![p] = NoPass]
    BY <1>11 DEF ClosesShipments, DropsPass
  <2>2. NoPass.step \in PassStep
    BY DEF PassStep, NoPass
  <2> QED
    BY <1>2, <2>1, <2>2
<1>12. CASE UNCHANGED upcomingVars
  BY <1>1, <1>12 DEF upcomingVars
<1> QED
  BY <1>3, <1>4, <1>5, <1>6, <1>7, <1>8, <1>9, <1>10, <1>11, <1>12 DEF UpcomingNext

LEMMA UpcomingRestBegins == UpcomingInit => UpcomingRest
<1> SUFFICES ASSUME UpcomingInit PROVE UpcomingRest
  OBVIOUS
<1>1. now = 1 /\ \A p \in Pass : pass[p] = NoPass
  BY DEF UpcomingInit
<1>2. 1 \in 1..MaxTime
  BY UpcomingAssumption
<1> QED
  BY <1>1, <1>2 DEF UpcomingRest, NoPass, PassStep

LEMMA UpcomingFits == UpInv /\ SoundArrivals /\ UpcomingRest => UpcomingTypeOK
<1> SUFFICES ASSUME UpInv, SoundArrivals, UpcomingRest PROVE UpcomingTypeOK
  OBVIOUS
<1>1. now \in 1..MaxTime /\ MaxTime \in Nat
  BY UpcomingAssumption DEF UpcomingRest
<1>2. stamp \in [Arrival -> 0..MaxTime] /\ seen \subseteq Arrival /\ synced \in 0..MaxTime
  BY <1>1 DEF UpInv, Clocked
<1>3. \A s \in Recorded : shipment[s].status \in ShipmentStatus /\ shipment[s].received \in Nat
  BY DEF Recorded, SoundArrivals, AddUp, SoundLine, ALine
<1>4. \A m \in Arrival : DOMAIN arrived[m] \subseteq Shipment \cup {"none"}
  BY DEF SoundArrivals, AddUp
<1> QED
  BY <1>1, <1>2, <1>3, <1>4 DEF UpcomingTypeOK, UpcomingRest, PassStep

\* The clock, the lines, what arrived and the passes hold what they may.
LEMMA UpcomingTypesHold == UpcomingSpec => []UpcomingTypeOK
<1> QED
  BY UpcomingBegins, UpcomingKeeps, ArrivalsBegin, ArrivalsKeep, UpcomingRestBegins, UpcomingRestStep,
     UpcomingFits, PTL DEF UpcomingSpec
=================================================================================
