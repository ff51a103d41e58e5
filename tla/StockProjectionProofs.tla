------------------------- MODULE StockProjectionProofs -------------------------
(***************************************************************************)
(* Folding postings one by one and rebuilding from the ledger lead to the  *)
(* same balance, for any number of lines, adjustments, faults and          *)
(* rebuilds.  The argument: unless the balance has drifted, a movement is  *)
(* counted once if its fold is behind it and not at all before.            *)
(*                                                                         *)
(* And the copy of that balance over the counters undoes nothing: each     *)
(* line is where its two movements put it, so a copy read from a balance   *)
(* that held all that had happened says what the counters should, until    *)
(* something else happens.                                                 *)
(***************************************************************************)
EXTENDS StockProjection, TotalsProofs

USE DEF projectionVars

\* What the actions need to know of the state's shape: where a line's movements
\* are before the line has been booked or settled, and that a rebuild saw only
\* movements of the ledger.
Shape ==
  /\ at \in [Movement -> MovementStage]
  /\ counted \in [Movement -> Nat]
  /\ drift \in BOOLEAN
  /\ \A l \in Line :
       /\ held[l] = "none" => at[<<l, "reserve">>] = "none"
       /\ held[l] \in {"none", "reserved"} => at[<<l, "settle">>] = "none"

Settled(m) == at[m] \in {"folded", "unfolded"}

CountedOnce == ~drift => \A m \in Movement : counted[m] = IF Settled(m) THEN 1 ELSE 0

LineInv ==
  /\ held \in [Line -> {"none", "reserved", "consumed", "released"}]
  /\ Shape
  /\ CountedOnce

-----------------------------------------------------------------------------
\* A movement is never both a line's and an adjustment's, and a line's two are two.
LEMMA MovementsDiffer ==
  /\ \A l \in Line : <<l, "reserve">> \in Movement /\ <<l, "settle">> \in Movement
  /\ \A l, k \in Line : <<l, "reserve">> # <<k, "settle">>
  /\ \A l, k \in Line : l # k => <<l, "reserve">> # <<k, "reserve">> /\ <<l, "settle">> # <<k, "settle">>
  /\ \A a \in Adjustment : a \in Movement /\ \A l \in Line : a # <<l, "reserve">> /\ a # <<l, "settle">>
BY ProjectionAssumption, SMTT(30) DEF Movement

\* Initially no movement has happened and none is counted.
LEMMA InitLineInv == ProjectionInit => LineInv
<1> SUFFICES ASSUME ProjectionInit PROVE LineInv
  OBVIOUS
<1>1. /\ at = [m \in Movement |-> "none"] /\ counted = [m \in Movement |-> 0]
      /\ held = [l \in Line |-> "none"] /\ drift = FALSE
  BY DEF ProjectionInit
<1>2. \A m \in Movement : at[m] = "none" /\ counted[m] = 0
  BY <1>1
<1>3. Shape
  BY <1>1, <1>2, MovementsDiffer DEF Shape, MovementStage
<1>4. CountedOnce
  BY <1>2 DEF CountedOnce, Settled
<1> QED BY <1>1, <1>3, <1>4 DEF LineInv

\* Queueing a movement that was not there keeps the counting right.
LEMMA QueuedKeeps ==
  ASSUME LineInv, NEW m \in Movement, at[m] = "none", NEW e, Queued(m, e),
         counted' = counted, drift' = drift
  PROVE  /\ at' \in [Movement -> MovementStage]
         /\ CountedOnce'
         /\ \A n \in Movement : n # m => at'[n] = at[n]
<1>1. at' = [at EXCEPT ![m] = IF e = NoEffect THEN "none" ELSE "queued"]
  BY DEF Queued
<1>2. PICK s \in {"none", "queued"} : at' = [at EXCEPT ![m] = s]
  BY <1>1
<1>3. at' \in [Movement -> MovementStage]
  BY <1>2 DEF LineInv, Shape, MovementStage
<1>4. \A n \in Movement : n # m => at'[n] = at[n]
  BY <1>2 DEF LineInv, Shape
<1>5. ~Settled(m) /\ ~(Settled(m))'
  BY <1>2 DEF Settled, LineInv, Shape
<1>6. \A n \in Movement : (Settled(n))' <=> Settled(n)
  BY <1>4, <1>5 DEF Settled
<1>7. CountedOnce'
  BY <1>6 DEF CountedOnce, LineInv
<1> QED BY <1>3, <1>4, <1>7

\* A movement that moves on without settling, while nothing is counted, keeps the
\* counting right.
LEMMA MovesOn ==
  ASSUME LineInv, NEW m \in Movement, NEW s \in MovementStage, at[m] # "none", s # "none",
         ~Settled(m), s \notin {"folded", "unfolded"},
         at' = [at EXCEPT ![m] = s], counted' = counted, drift' = drift, held' = held
  PROVE  LineInv'
<1>1. at' \in [Movement -> MovementStage]
  BY DEF LineInv, Shape
<1>2. \A n \in Movement : n # m => at'[n] = at[n]
  BY DEF LineInv, Shape
<1>3. at'[m] = s
  BY DEF LineInv, Shape
<1>4. \A n \in Movement : (Settled(n))' <=> Settled(n)
  BY <1>2, <1>3 DEF Settled
<1>5. CountedOnce'
  BY <1>4 DEF CountedOnce, LineInv
<1>6. Shape'
  BY <1>1, <1>2, <1>3, MovementsDiffer DEF LineInv, Shape
<1> QED BY <1>5, <1>6 DEF LineInv

-----------------------------------------------------------------------------
\* Every step keeps the counting right.
LEMMA StepLineInv == LineInv /\ [ProjectionNext]_projectionVars => LineInv'
<1> SUFFICES ASSUME LineInv, [ProjectionNext]_projectionVars PROVE LineInv'
  OBVIOUS
<1>1. ASSUME NEW l \in Line, Books(l) PROVE LineInv'
  <2>1. at[<<l, "reserve">>] = "none" /\ <<l, "reserve">> \in Movement
    BY <1>1, MovementsDiffer DEF Books, LineInv, Shape
  <2>2. Queued(<<l, "reserve">>, [hand |-> 0, reserved |-> Units[l]]) /\ counted' = counted /\ drift' = drift
    BY <1>1 DEF Books
  <2>3. /\ at' \in [Movement -> MovementStage]
        /\ CountedOnce'
        /\ \A n \in Movement : n # <<l, "reserve">> => at'[n] = at[n]
    BY <2>1, <2>2, QueuedKeeps
  <2>4. held' = [held EXCEPT ![l] = "reserved"] /\ held[l] = "none"
    BY <1>1 DEF Books
  <2>5. Shape'
    BY <2>2, <2>3, <2>4, MovementsDiffer DEF LineInv, Shape
  <2> QED BY <2>3, <2>4, <2>5 DEF LineInv
<1>2. ASSUME NEW l \in Line, Releases(l) \/ Consumes(l) PROVE LineInv'
  <2>1. at[<<l, "settle">>] = "none" /\ <<l, "settle">> \in Movement
    BY <1>2, MovementsDiffer DEF Releases, Consumes, LineInv, Shape
  <2>2. PICK e : Queued(<<l, "settle">>, e)
    BY <1>2 DEF Releases, Consumes
  <2>3. counted' = counted /\ drift' = drift
    BY <1>2 DEF Releases, Consumes
  <2>4. /\ at' \in [Movement -> MovementStage]
        /\ CountedOnce'
        /\ \A n \in Movement : n # <<l, "settle">> => at'[n] = at[n]
    BY <2>1, <2>2, <2>3, QueuedKeeps
  <2>5. PICK s \in {"released", "consumed"} : held' = [held EXCEPT ![l] = s]
    BY <1>2 DEF Releases, Consumes
  <2>6. held[l] = "reserved"
    BY <1>2 DEF Releases, Consumes
  <2>7. Shape'
    BY <2>3, <2>4, <2>5, <2>6, MovementsDiffer DEF LineInv, Shape
  <2> QED BY <2>4, <2>5, <2>7 DEF LineInv
<1>3. ASSUME NEW m \in Movement, PostsQueued(m) \/ SkipsPosting(m) PROVE LineInv'
  <2>1. PICK s \in {"posted", "skipped"} : at' = [at EXCEPT ![m] = s]
    BY <1>3 DEF PostsQueued, SkipsPosting
  <2>2. at[m] = "queued" /\ counted' = counted /\ drift' = drift /\ held' = held
    BY <1>3 DEF PostsQueued, SkipsPosting
  <2> QED BY <2>1, <2>2, MovesOn DEF Settled, MovementStage
<1>4. ASSUME NEW m \in Movement, Folds(m) PROVE LineInv'
  <2>1. /\ at[m] = "posted" /\ drift' = drift /\ held' = held
        /\ at' = [at EXCEPT ![m] = "folded"]
        /\ counted' = [counted EXCEPT ![m] = @ + 1]
    BY <1>4 DEF Folds
  <2>2. \A n \in Movement : n # m => at'[n] = at[n] /\ counted'[n] = counted[n]
    BY <2>1 DEF LineInv, Shape
  <2>3. at'[m] = "folded" /\ counted'[m] = counted[m] + 1
    BY <2>1 DEF LineInv, Shape
  <2>4. ~drift => counted[m] = 0
    BY <2>1 DEF LineInv, CountedOnce, Settled
  <2>5. CountedOnce'
    BY <2>1, <2>2, <2>3, <2>4 DEF LineInv, CountedOnce, Settled
  <2>6. at' \in [Movement -> MovementStage] /\ counted' \in [Movement -> Nat]
    BY <2>1 DEF LineInv, Shape, MovementStage
  <2>7. Shape'
    BY <2>1, <2>2, <2>3, <2>6, MovementsDiffer DEF LineInv, Shape
  <2> QED BY <2>1, <2>5, <2>7 DEF LineInv
<1>5. ASSUME NEW m \in Movement, LosesFold(m) PROVE LineInv'
  <2>1. at[m] = "posted" /\ drift' = TRUE /\ at' = [at EXCEPT ![m] = "unfolded"]
        /\ counted' = counted /\ held' = held
    BY <1>5 DEF LosesFold
  <2>2. at' \in [Movement -> MovementStage]
    BY <2>1 DEF LineInv, Shape, MovementStage
  <2>3. at'[m] = "unfolded" /\ \A n \in Movement : n # m => at'[n] = at[n]
    BY <2>1 DEF LineInv, Shape
  <2>4. Shape'
    BY <2>1, <2>2, <2>3, MovementsDiffer DEF LineInv, Shape
  <2> QED BY <2>1, <2>4 DEF LineInv, CountedOnce
<1>6. CASE RebuildWrites
  <2>1. /\ counted' = [m \in Movement |-> IF m \in rebuild.seen THEN 1 ELSE 0]
        /\ drift' = (rebuild.seen # {m \in Movement : at[m] \in {"folded", "unfolded"}})
        /\ at' = at /\ held' = held
    BY <1>6 DEF RebuildWrites
  <2>2. counted' \in [Movement -> Nat] /\ drift' \in BOOLEAN
    BY <2>1
  <2>3. ASSUME ~drift' PROVE \A m \in Movement : counted'[m] = IF (Settled(m))' THEN 1 ELSE 0
    <3>1. rebuild.seen = {m \in Movement : at[m] \in {"folded", "unfolded"}}
      BY <2>1, <2>3
    <3> QED BY <2>1, <3>1 DEF Settled
  <2>4. Shape'
    BY <2>1, <2>2 DEF LineInv, Shape
  <2> QED BY <2>1, <2>3, <2>4 DEF LineInv, CountedOnce
<1>7. ASSUME NEW a \in Adjustment, AdjustDecides(a) PROVE LineInv'
  <2>1. at[a] = "none" /\ at' = [at EXCEPT ![a] = "decided"] /\ counted' = counted
        /\ drift' = drift /\ held' = held
    BY <1>7 DEF AdjustDecides
  <2>2. a \in Movement /\ \A l \in Line : a # <<l, "reserve">> /\ a # <<l, "settle">>
    BY MovementsDiffer
  <2>3. at' \in [Movement -> MovementStage]
    BY <2>1 DEF LineInv, Shape, MovementStage
  <2>4. at'[a] = "decided" /\ \A n \in Movement : n # a => at'[n] = at[n]
    BY <2>1, <2>2 DEF LineInv, Shape
  <2>5. \A n \in Movement : (Settled(n))' <=> Settled(n)
    BY <2>1, <2>4 DEF Settled
  <2>6. CountedOnce'
    BY <2>1, <2>5 DEF LineInv, CountedOnce
  <2>7. Shape'
    BY <2>1, <2>2, <2>3, <2>4, MovementsDiffer DEF LineInv, Shape
  <2> QED BY <2>1, <2>6, <2>7 DEF LineInv
<1>8. ASSUME NEW a \in Adjustment, AdjustPosts(a) PROVE LineInv'
  <2>1. at[a] = "decided" /\ at' = [at EXCEPT ![a] = "posted"] /\ counted' = counted
        /\ drift' = drift /\ held' = held /\ a \in Movement
    BY <1>8, MovementsDiffer DEF AdjustPosts
  <2> QED BY <2>1, MovesOn DEF Settled, MovementStage
<1>9. ASSUME UNCHANGED <<at, counted, drift, held>> PROVE LineInv'
  BY <1>9 DEF LineInv, Shape, CountedOnce, Settled
<1>10. CASE RebuildReads
  BY <1>10, <1>9 DEF RebuildReads
<1>11. ASSUME NEW a \in Adjustment, MirrorReads(a) \/ MirrorWrites(a) \/ AdjustDies(a) PROVE LineInv'
  BY <1>11, <1>9 DEF MirrorReads, MirrorWrites, AdjustDies
<1>12. CASE UNCHANGED projectionVars
  BY <1>12, <1>9
<1> QED
  BY <1>1, <1>2, <1>3, <1>4, <1>5, <1>6, <1>7, <1>8, <1>10, <1>11, <1>12 DEF ProjectionNext

\* The balance is the ledger folded up, unless a fold was lost or crossed a rebuild
\* (balance.service.js: applyMovements against rebuildBalances).
THEOREM BalanceFollowsLedger == ProjectionSpec => []BalanceIsLedger
<1>1. LineInv => BalanceIsLedger
  <2> SUFFICES ASSUME LineInv, ~drift, \A m \in Movement : at[m] # "posted", NEW m \in Movement
      PROVE counted[m] = (IF m \in Ledger THEN 1 ELSE 0)
    BY DEF BalanceIsLedger
  <2>1. m \in Ledger <=> Settled(m)
    BY DEF Ledger, Settled
  <2> QED BY <2>1 DEF LineInv, CountedOnce
<1> QED BY <1>1, InitLineInv, StepLineInv, PTL DEF ProjectionSpec

-----------------------------------------------------------------------------
(* The copy of the balance over the counters.                              *)

Copy ==
  {NoCopy, [step |-> "done"]}
    \cup [step : {"read"}, hand : Int, reserved : Int, behind : BOOLEAN, asOf : SUBSET Movement]

CopyTypes ==
  /\ counters \in Counters
  /\ effect \in [Movement -> Effect]
  /\ mirror \in [Adjustment -> Copy]
  /\ stale \in BOOLEAN

\* What a line has come to is what its two movements say.
LineIsMoved(l) ==
  /\ held[l] = "none" <=> <<l, "reserve">> \notin Happened
  /\ held[l] \in {"none", "reserved"} <=> <<l, "settle">> \notin Happened
  /\ effect[<<l, "reserve">>].hand = 0
  /\ effect[<<l, "reserve">>].reserved = IF held[l] = "none" THEN 0 ELSE Units[l]
  /\ effect[<<l, "settle">>].hand = IF held[l] = "consumed" THEN -Units[l] ELSE 0
  /\ effect[<<l, "settle">>].reserved = IF held[l] \in {"consumed", "released"} THEN -Units[l] ELSE 0

LinesAreMoved == ~stale => \A l \in Line : LineIsMoved(l)

\* An adjustment reserves nothing, is not queued, and copies once it is posted.
AdjustmentsPost ==
  \A a \in Adjustment :
    /\ effect[a].reserved = 0
    /\ at[a] \notin {"queued", "skipped"}
    /\ at[a] \in {"none", "decided"} => mirror[a] = NoCopy

\* What is on hand once everything that happened is counted.
HandNow == Opening + Adjusted - SoldUnits

\* A copy read from a balance that held everything is right until something happens.
CopyIsRight(c) ==
  c.step = "read" =>
    /\ c.asOf \subseteq Happened
    /\ ~stale /\ ~c.behind /\ c.asOf = Happened => c.hand = HandNow /\ c.reserved = LiveUnits

CopiesAreRight == \A a \in Adjustment : CopyIsRight(mirror[a])

CopyInv ==
  /\ LineInv
  /\ CopyTypes
  /\ LinesAreMoved
  /\ AdjustmentsPost
  /\ CopiesAreRight
  /\ CopyKeepsCounters

\* The sums are over finite sets of integers.
LEMMA SumsAreInt ==
  ASSUME CopyTypes
  PROVE  /\ \A T \in SUBSET Line : IsFiniteSet(T) /\ Total(Units, T) \in Int
         /\ LiveUnits \in Int /\ SoldUnits \in Int /\ Adjusted \in Int /\ HandNow \in Int
<1>1. \A T \in SUBSET Line : IsFiniteSet(T) /\ \A l \in T : Units[l] \in Int
  BY ProjectionAssumption, FS_Subset
<1>2. \A T \in SUBSET Line : Total(Units, T) \in Int
  BY <1>1, TotalInt
<1>3. LiveUnits \in Int /\ SoldUnits \in Int
  BY <1>2 DEF LiveUnits, SoldUnits
<1>4. Adjusted \in Int
  <2> DEFINE f == [a \in Adjustment |-> effect[a].hand]
             T == Adjustment \cap Ledger
  <2>1. IsFiniteSet(T)
    BY ProjectionAssumption, FS_Subset
  <2>2. \A a \in T : f[a] \in Int
    BY MovementsDiffer DEF CopyTypes, Effect
  <2> HIDE DEF f, T
  <2>3. Total(f, T) \in Int
    BY <2>1, <2>2, TotalInt
  <2> QED
    BY <2>3 DEF f, T, Adjusted
<1> QED
  BY <1>1, <1>2, <1>3, <1>4, ProjectionAssumption DEF HandNow

\* A sum over the movements: what each line's two come to, and the adjustments.
LEMMA MovementTotal ==
  ASSUME NEW f, \A m \in Movement : f[m] \in Int,
         NEW g, \A l \in Line : g[l] = f[<<l, "reserve">>] + f[<<l, "settle">>]
  PROVE  Total(f, Movement) = Total(g, Line) + Total(f, Adjustment)
<1> DEFINE re == [l \in Line |-> <<l, "reserve">>]
           se == [l \in Line |-> <<l, "settle">>]
           r == [l \in Line |-> f[<<l, "reserve">>]]
           s == [l \in Line |-> f[<<l, "settle">>]]
           R == {re[l] : l \in Line}
           S == {se[l] : l \in Line}
<1>1. /\ \A l \in Line, k \in Line : re[l] = re[k] => l = k
      /\ \A l \in Line : f[re[l]] \in Int /\ r[l] = f[re[l]]
  BY MovementsDiffer
<1>2. /\ \A l \in Line, k \in Line : se[l] = se[k] => l = k
      /\ \A l \in Line : f[se[l]] \in Int /\ s[l] = f[se[l]]
  BY MovementsDiffer
<1>3. \A l \in Line : r[l] \in Int /\ s[l] \in Int /\ g[l] = r[l] + s[l]
  BY MovementsDiffer
<1>4. R \cap S = {} /\ (R \cup S) \cap Adjustment = {}
  BY MovementsDiffer
<1>5. Movement = (R \cup S) \cup Adjustment
  BY DEF Movement
<1>6. IsFiniteSet(Line) /\ IsFiniteSet(Adjustment)
  BY ProjectionAssumption
<1>7. (\A m \in R \cup S : f[m] \in Int) /\ \A m \in (R \cup S) \cup Adjustment : f[m] \in Int
  BY <1>5
<1> HIDE DEF re, se, r, s
<1>8. IsFiniteSet(R) /\ Total(f, R) = Total(r, Line)
  BY <1>1, <1>6, TotalNamed
<1>9. IsFiniteSet(S) /\ Total(f, S) = Total(s, Line)
  BY <1>2, <1>6, TotalNamed
<1> HIDE DEF R, S
<1>10. Total(g, Line) = Total(r, Line) + Total(s, Line)
  BY <1>3, <1>6, TotalPlus
<1>11. IsFiniteSet(R \cup S)
  BY <1>8, <1>9, FS_Union
<1>12. Total(f, R \cup S) = Total(f, R) + Total(f, S)
  BY <1>4, <1>7, <1>8, <1>9, TotalBoth
<1>13. Total(f, (R \cup S) \cup Adjustment) = Total(f, R \cup S) + Total(f, Adjustment)
  BY <1>4, <1>6, <1>7, <1>11, TotalBoth
<1> QED
  BY <1>5, <1>8, <1>9, <1>10, <1>12, <1>13

\* An adjustment happens when the ledger has it.
AdjustmentsAreIn ==
  /\ Adjustment \cap Ledger = Adjustment \cap Happened
  /\ \A a \in Adjustment : a \notin Happened <=> at[a] \in {"none", "decided"}

LEMMA AdjustmentsHappen == LineInv /\ AdjustmentsPost => AdjustmentsAreIn
BY MovementsDiffer
   DEF LineInv, Shape, AdjustmentsPost, Ledger, Happened, MovementStage, AdjustmentsAreIn

LEMMA AdjustmentsHappenNext == (LineInv /\ AdjustmentsPost)' => AdjustmentsAreIn'
BY AdjustmentsHappen, PTL

\* A balance that is not behind shows what is on hand and what is reserved.
LEMMA BalanceIsRight ==
  ASSUME CopyInv, ~stale, ~BalanceIsBehind
  PROVE  HandOf(counted) = HandNow /\ ReservedOf(counted) = LiveUnits
<1>1. \A m \in Movement : counted[m] = IF m \in Happened THEN 1 ELSE 0
  BY DEF CopyInv, LineInv, CountedOnce, Settled, BalanceIsBehind, Happened
<1>2. \A m \in Movement : effect[m].hand \in Int /\ effect[m].reserved \in Int
  BY DEF CopyInv, CopyTypes, Effect
<1>3. \A l \in Line : LineIsMoved(l) /\ Units[l] \in Nat
  BY ProjectionAssumption DEF CopyInv, LinesAreMoved
<1>4. IsFiniteSet(Line) /\ IsFiniteSet(Adjustment) /\ Opening \in Int
  BY ProjectionAssumption
<1>5. \A l \in Line : held[l] \in {"none", "reserved", "consumed", "released"}
  BY DEF CopyInv, LineInv
<1>6. HandOf(counted) = HandNow
  <2> DEFINE f == [m \in Movement |-> counted[m] * effect[m].hand]
             h == [a \in Adjustment |-> effect[a].hand]
             g == [l \in Line |-> f[<<l, "reserve">>] + f[<<l, "settle">>]]
             sold == [l \in Line |-> IF held[l] = "consumed" THEN Units[l] ELSE 0]
             zero == [l \in Line |-> 0]
             T == {l \in Line : held[l] = "consumed"}
  <2>1. \A m \in Movement : f[m] = IF m \in Happened THEN effect[m].hand ELSE 0
    BY <1>1, <1>2
  <2>2. \A m \in Movement : f[m] \in Int
    BY <1>2, <2>1
  <2>3. \A l \in Line : g[l] = IF held[l] = "consumed" THEN -Units[l] ELSE 0
    <3> HIDE DEF f
    <3> SUFFICES ASSUME NEW l \in Line
                 PROVE  f[<<l, "reserve">>] + f[<<l, "settle">>]
                          = IF held[l] = "consumed" THEN -Units[l] ELSE 0
      OBVIOUS
    <3>1. f[<<l, "reserve">>] = 0
      <4>1. <<l, "reserve">> \in Movement
        BY MovementsDiffer
      <4>2. effect[<<l, "reserve">>].hand = 0
        BY <1>3 DEF LineIsMoved
      <4> QED
        BY <2>1, <4>1, <4>2
    <3>2. f[<<l, "settle">>] = IF held[l] = "consumed" THEN -Units[l] ELSE 0
      BY <1>3, <1>5, <2>1, MovementsDiffer DEF LineIsMoved
    <3> QED
      BY <1>3, <3>1, <3>2
  <2>4. \A l \in Line : g[l] \in Int /\ sold[l] \in Int /\ zero[l] = g[l] + sold[l] /\ zero[l] = 0
    <3> HIDE DEF g
    <3> QED
      BY <1>3, <2>3
  <2>5. \A l \in Line : g[l] = f[<<l, "reserve">>] + f[<<l, "settle">>]
    OBVIOUS
  <2>6. T \in SUBSET Line /\ \A l \in T : Units[l] \in Int /\ sold[l] = Units[l]
    BY <1>3
  <2>7. \A l \in Line \ T : sold[l] = 0
    OBVIOUS
  <2>8. \A a \in Adjustment \cap Ledger : h[a] \in Int /\ f[a] = h[a]
    <3> HIDE DEF f
    <3> QED
      BY <1>2, <2>1, MovementsDiffer, AdjustmentsHappen DEF CopyInv, AdjustmentsAreIn
  <2>9. \A a \in Adjustment \ (Adjustment \cap Ledger) : f[a] = 0
    <3> HIDE DEF f
    <3> QED
      BY <2>1, MovementsDiffer, AdjustmentsHappen DEF CopyInv, AdjustmentsAreIn
  <2>10. HandOf(counted) = Opening + Total(f, Movement) /\ Adjusted = Total(h, Adjustment \cap Ledger)
         /\ SoldUnits = Total(Units, T)
    BY DEF HandOf, Adjusted, SoldUnits
  <2> HIDE DEF f, g, h, sold, zero, T
  <2>11. Total(f, Movement) = Total(g, Line) + Total(f, Adjustment)
    BY <2>2, <2>5, MovementTotal
  <2>12. Total(zero, Line) = 0
    BY <1>4, <2>4, TotalZero
  <2>13. Total(zero, Line) = Total(g, Line) + Total(sold, Line)
    BY <1>4, <2>4, TotalPlus
  <2>14. Total(sold, Line) = Total(Units, T)
    BY <1>4, <2>6, <2>7, TotalOver
  <2>15. Total(f, Adjustment) = Total(h, Adjustment \cap Ledger)
    <3>1. Adjustment \cap Ledger \in SUBSET Adjustment
      OBVIOUS
    <3> QED
      BY <1>4, <2>8, <2>9, <3>1, TotalOver
  <2>16. Total(g, Line) \in Int
    BY <1>4, <2>4, TotalInt
  <2>17. SoldUnits \in Int /\ Adjusted \in Int
    BY SumsAreInt DEF CopyInv
  <2> QED
    BY <1>4, <2>10, <2>11, <2>12, <2>13, <2>14, <2>15, <2>16, <2>17 DEF HandNow
<1>7. ReservedOf(counted) = LiveUnits
  <2> DEFINE f == [m \in Movement |-> counted[m] * effect[m].reserved]
             g == [l \in Line |-> f[<<l, "reserve">>] + f[<<l, "settle">>]]
             T == {l \in Line : held[l] = "reserved"}
  <2>1. \A m \in Movement : f[m] = IF m \in Happened THEN effect[m].reserved ELSE 0
    BY <1>1, <1>2
  <2>2. \A m \in Movement : f[m] \in Int
    BY <1>2, <2>1
  <2>3. \A l \in Line : g[l] = IF held[l] = "reserved" THEN Units[l] ELSE 0
    <3> HIDE DEF f
    <3> SUFFICES ASSUME NEW l \in Line
                 PROVE  f[<<l, "reserve">>] + f[<<l, "settle">>]
                          = IF held[l] = "reserved" THEN Units[l] ELSE 0
      OBVIOUS
    <3>1. f[<<l, "reserve">>] = IF held[l] = "none" THEN 0 ELSE Units[l]
      BY <1>3, <2>1, MovementsDiffer DEF LineIsMoved
    <3>2. f[<<l, "settle">>] = IF held[l] \in {"consumed", "released"} THEN -Units[l] ELSE 0
      BY <1>3, <1>5, <2>1, MovementsDiffer DEF LineIsMoved
    <3> QED
      BY <1>3, <1>5, <3>1, <3>2
  <2>4. \A l \in Line : g[l] = f[<<l, "reserve">>] + f[<<l, "settle">>]
    OBVIOUS
  <2>5. T \in SUBSET Line /\ (\A l \in T : Units[l] \in Int /\ g[l] = Units[l]) /\ \A l \in Line \ T : g[l] = 0
    <3> HIDE DEF g
    <3> QED
      BY <1>3, <2>3
  <2>6. \A a \in Adjustment : f[a] = 0
    <3> HIDE DEF f
    <3> QED
      BY <2>1, MovementsDiffer DEF CopyInv, AdjustmentsPost
  <2>7. ReservedOf(counted) = Total(f, Movement) /\ LiveUnits = Total(Units, T)
    BY DEF ReservedOf, LiveUnits
  <2> HIDE DEF f, g, T
  <2>8. Total(f, Movement) = Total(g, Line) + Total(f, Adjustment)
    BY <2>2, <2>4, MovementTotal
  <2>9. Total(g, Line) = Total(Units, T)
    BY <1>4, <2>5, TotalOver
  <2>10. Total(f, Adjustment) = 0
    BY <1>4, <2>6, TotalZero
  <2>11. LiveUnits \in Int
    BY SumsAreInt DEF CopyInv
  <2> QED
    BY <2>7, <2>8, <2>9, <2>10, <2>11
<1> QED
  BY <1>6, <1>7

\* Initially nothing has been booked, adjusted or copied.
LEMMA InitCopyInv == ProjectionInit => CopyInv
<1> SUFFICES ASSUME ProjectionInit PROVE CopyInv
  OBVIOUS
<1>1. /\ counters = Shelf(Opening) /\ stale = FALSE
      /\ held = [l \in Line |-> "none"] /\ effect = [m \in Movement |-> NoEffect]
      /\ at = [m \in Movement |-> "none"] /\ mirror = [a \in Adjustment |-> NoCopy]
  BY DEF ProjectionInit
<1>2. CopyTypes
  <2>1. counters \in Counters
    BY <1>1, ProjectionAssumption DEF Counters, Shelf
  <2>2. NoEffect \in Effect /\ NoCopy \in Copy
    BY DEF Effect, NoEffect, Copy
  <2> QED
    BY <1>1, <2>1, <2>2 DEF CopyTypes
<1>3. Happened = {} /\ Ledger = {}
  BY <1>1 DEF Happened, Ledger
<1>4. \A m \in Movement : effect[m].hand = 0 /\ effect[m].reserved = 0
  BY <1>1 DEF NoEffect
<1>5. LinesAreMoved
  <2> SUFFICES ASSUME NEW l \in Line PROVE LineIsMoved(l)
    BY DEF LinesAreMoved
  <2>1. held[l] = "none" /\ <<l, "reserve">> \in Movement /\ <<l, "settle">> \in Movement
    BY <1>1, MovementsDiffer
  <2> QED
    BY <1>3, <1>4, <2>1 DEF LineIsMoved
<1>6. AdjustmentsPost
  BY <1>1, <1>4, MovementsDiffer DEF AdjustmentsPost
<1>7. CopiesAreRight
  BY <1>1 DEF CopiesAreRight, CopyIsRight, NoCopy
<1>8. LiveUnits = 0 /\ SoldUnits = 0 /\ Adjusted = 0
  <2>1. {l \in Line : held[l] = "reserved"} = {} /\ {l \in Line : held[l] = "consumed"} = {}
        /\ Adjustment \cap Ledger = {}
    BY <1>1, <1>3
  <2> QED
    BY <2>1, TotalOfNone DEF LiveUnits, SoldUnits, Adjusted
<1>9. CopyKeepsCounters
  BY <1>1, <1>8, ProjectionAssumption DEF CopyKeepsCounters, CopyKeepsBookings, CopyKeepsStock, Shelf
<1> QED
  BY <1>2, <1>5, <1>6, <1>7, <1>9, InitLineInv DEF CopyInv

\* A step that leaves the counters, the lines, what is read and what happened alone.
LEMMA QuietStep ==
  ASSUME CopyInv, LineInv', UNCHANGED <<counters, held, mirror, stale>>, Happened' = Happened,
         effect' \in [Movement -> Effect], AdjustmentsPost',
         \A m \in Movement : effect'[m] = effect[m] \/ m \in Adjustment \ Happened
  PROVE  CopyInv'
<1>1. CopyTypes'
  BY DEF CopyInv, CopyTypes
<1>2. LinesAreMoved'
  <2> SUFFICES ASSUME ~stale, NEW l \in Line PROVE LineIsMoved(l)'
    BY DEF LinesAreMoved
  <2>1. LineIsMoved(l)
    BY DEF CopyInv, LinesAreMoved
  <2>2. effect'[<<l, "reserve">>] = effect[<<l, "reserve">>] /\ effect'[<<l, "settle">>] = effect[<<l, "settle">>]
    BY MovementsDiffer
  <2> QED
    BY <2>1, <2>2 DEF LineIsMoved
<1>3. SoldUnits' = SoldUnits /\ LiveUnits' = LiveUnits
  BY DEF SoldUnits, LiveUnits
<1>4. Adjusted' = Adjusted
  <2> DEFINE T == Adjustment \cap Happened
             f == [a \in Adjustment |-> effect[a].hand]
             g == [a \in Adjustment |-> effect'[a].hand]
  <2>1. Adjustment \cap Ledger = T /\ Adjustment \cap Ledger' = T
    BY AdjustmentsHappen, AdjustmentsHappenNext DEF CopyInv, AdjustmentsAreIn
  <2>2. \A a \in T : f[a] \in Int /\ g[a] = f[a]
    BY MovementsDiffer DEF CopyInv, CopyTypes, Effect
  <2>3. IsFiniteSet(T)
    BY ProjectionAssumption, FS_Subset
  <2>4. Adjusted = Total(f, T) /\ Adjusted' = Total(g, T)
    BY <2>1 DEF Adjusted
  <2> HIDE DEF f, g, T
  <2> QED
    BY <2>2, <2>3, <2>4, TotalSame
<1>5. CopiesAreRight'
  BY <1>3, <1>4 DEF CopyInv, CopiesAreRight, CopyIsRight, HandNow
<1>6. CopyKeepsCounters'
  <2>1. \A a \in Adjustment : at'[a] \in {"none", "decided"} <=> at[a] \in {"none", "decided"}
    BY AdjustmentsHappen, AdjustmentsHappenNext DEF CopyInv, AdjustmentsAreIn
  <2> QED
    BY <1>3, <1>4, <2>1 DEF CopyInv, CopyKeepsCounters, CopyKeepsBookings, CopyKeepsStock
<1> QED
  BY <1>1, <1>2, <1>5, <1>6 DEF CopyInv

\* A step that moves one line, queues what it did and keeps the counters with the lines.
LEMMA LineStep ==
  ASSUME CopyInv, LineInv', NEW l \in Line, NEW k \in {"reserve", "settle"}, NEW s, NEW e \in Effect,
         at[<<l, k>>] = "none", Queued(<<l, k>>, e), held' = [held EXCEPT ![l] = s],
         UNCHANGED <<mirror, stale>>, counters' \in Counters,
         ~stale => e # NoEffect,
         ~stale => LineIsMoved(l)',
         ~stale => counters'.booked = LiveUnits',
         ~stale => counters'.total + SoldUnits' = counters.total + SoldUnits
  PROVE  CopyInv'
<1> DEFINE m == <<l, k>>
<1>1. m \in Movement /\ m \notin Adjustment
  BY MovementsDiffer
<1>2. effect' = [effect EXCEPT ![m] = e] /\ effect \in [Movement -> Effect]
  BY DEF Queued, CopyInv, CopyTypes
<1>3. effect' \in [Movement -> Effect] /\ \A n \in Movement : n # m => effect'[n] = effect[n]
  BY <1>1, <1>2
<1>4. PICK t \in {"none", "queued"} : at' = [at EXCEPT ![m] = t] /\ (e # NoEffect => t = "queued")
  BY DEF Queued
<1>5. at'[m] = t /\ \A n \in Movement : n # m => at'[n] = at[n]
  BY <1>1, <1>4 DEF CopyInv, LineInv, Shape
<1>6. m \notin Happened /\ Happened \subseteq Happened' /\ (~stale => Happened' = Happened \cup {m})
  BY <1>1, <1>4, <1>5 DEF Happened
<1>7. CopyTypes'
  BY <1>3 DEF CopyInv, CopyTypes
<1>8. LinesAreMoved'
  <2> SUFFICES ASSUME ~stale, NEW j \in Line, j # l PROVE LineIsMoved(j)'
    BY DEF LinesAreMoved
  <2>1. LineIsMoved(j)
    BY DEF CopyInv, LinesAreMoved
  <2>2. <<j, "reserve">> \in Movement \ {m} /\ <<j, "settle">> \in Movement \ {m}
    BY MovementsDiffer
  <2>3. held'[j] = held[j]
    BY DEF CopyInv, LineInv
  <2>4. /\ effect'[<<j, "reserve">>] = effect[<<j, "reserve">>]
        /\ effect'[<<j, "settle">>] = effect[<<j, "settle">>]
    BY <1>3, <2>2
  <2>5. /\ <<j, "reserve">> \in Happened' <=> <<j, "reserve">> \in Happened
        /\ <<j, "settle">> \in Happened' <=> <<j, "settle">> \in Happened
    BY <1>6, <2>2
  <2> HIDE DEF m
  <2> QED
    BY <2>1, <2>3, <2>4, <2>5 DEF LineIsMoved
<1>9. \A a \in Adjustment : a \in Movement /\ at'[a] = at[a] /\ effect'[a] = effect[a]
  BY <1>1, <1>3, <1>5, MovementsDiffer
<1>10. AdjustmentsPost'
  BY <1>9 DEF CopyInv, AdjustmentsPost
<1>11. CopiesAreRight'
  <2> SUFFICES ASSUME NEW a \in Adjustment, mirror[a].step = "read"
               PROVE  /\ mirror[a].asOf \subseteq Happened'
                      /\ ~stale => mirror[a].asOf # Happened'
    BY DEF CopiesAreRight, CopyIsRight
  <2>1. mirror[a].asOf \subseteq Happened
    BY DEF CopyInv, CopiesAreRight, CopyIsRight
  <2> QED
    BY <1>6, <2>1
<1>12. Adjusted' = Adjusted
  <2> DEFINE T == Adjustment \cap Ledger
             f == [a \in Adjustment |-> effect[a].hand]
             g == [a \in Adjustment |-> effect'[a].hand]
  <2>1. Adjustment \cap Ledger' = T
    BY <1>9 DEF Ledger
  <2>2. \A a \in T : f[a] \in Int /\ g[a] = f[a]
    BY <1>9, MovementsDiffer DEF CopyInv, CopyTypes, Effect
  <2>3. IsFiniteSet(T)
    BY ProjectionAssumption, FS_Subset
  <2>4. Adjusted = Total(f, T) /\ Adjusted' = Total(g, T)
    BY <2>1 DEF Adjusted
  <2> HIDE DEF f, g, T
  <2> QED
    BY <2>2, <2>3, <2>4, TotalSame
<1>13. CopyKeepsCounters'
  BY <1>9, <1>12 DEF CopyInv, CopyKeepsCounters, CopyKeepsBookings, CopyKeepsStock
<1> QED
  BY <1>7, <1>8, <1>10, <1>11, <1>13 DEF CopyInv

\* A line of a set adds its units, and takes them when it leaves.
LEMMA UnitsMove ==
  ASSUME NEW l \in Line, NEW T \in SUBSET Line
  PROVE  /\ l \notin T => Total(Units, T \cup {l}) = Total(Units, T) + Units[l]
         /\ l \in T => Total(Units, T) = Units[l] + Total(Units, T \ {l})
         /\ Total(Units, T) \in Nat
         /\ l \in T => Units[l] <= Total(Units, T)
<1>1. IsFiniteSet(T) /\ Units[l] \in Nat /\ \A j \in T \cup {l} : Units[j] \in Nat /\ Units[j] \in Int
  BY ProjectionAssumption, FS_Subset
<1>2. l \notin T => Total(Units, T \cup {l}) = Total(Units, T) + Units[l]
  BY <1>1, TotalAdds
<1>3. l \in T => Total(Units, T) = Units[l] + Total(Units, T \ {l})
  BY <1>1, TotalAny
<1>4. Total(Units, T) \in Nat /\ \A j \in T : Units[j] <= Total(Units, T)
  BY <1>1, TotalNat
<1> QED
  BY <1>2, <1>3, <1>4

\* A booking takes from the shelf and holds for its line.
LEMMA BooksCopyInv ==
  ASSUME CopyInv, LineInv', NEW l \in Line, Books(l)
  PROVE  CopyInv'
<1> DEFINE e == [hand |-> 0, reserved |-> Units[l]]
           T == {j \in Line : held[j] = "reserved"}
<1>1. /\ held[l] = "none" /\ held' = [held EXCEPT ![l] = "reserved"]
      /\ counters' = Reserve(counters, Units[l])
      /\ Queued(<<l, "reserve">>, e)
      /\ UNCHANGED <<mirror, stale>>
  BY DEF Books
<1>2. Units[l] \in Nat \ {0} /\ Units[l] \in Int
  BY ProjectionAssumption
<1>3. e \in Effect /\ e # NoEffect /\ e.hand = 0 /\ e.reserved = Units[l]
  BY <1>2 DEF Effect, NoEffect
<1>4. at[<<l, "reserve">>] = "none" /\ at[<<l, "settle">>] = "none"
  BY <1>1 DEF CopyInv, LineInv, Shape
<1>5. counters' \in Counters /\ counters'.booked = counters.booked + Units[l] /\ counters'.total = counters.total
  BY <1>1, <1>2 DEF Reserve, Counters, CopyInv, CopyTypes
<1>6. held'[l] = "reserved" /\ \A j \in Line : j # l => held'[j] = held[j]
  BY <1>1 DEF CopyInv, LineInv
<1>7. ASSUME ~stale PROVE LineIsMoved(l)'
  <2>1. LineIsMoved(l)
    BY <1>7 DEF CopyInv, LinesAreMoved
  <2>2. /\ effect'[<<l, "reserve">>] = e
        /\ effect'[<<l, "settle">>] = effect[<<l, "settle">>]
    BY <1>1, MovementsDiffer DEF Queued, CopyInv, CopyTypes
  <2>3. at'[<<l, "reserve">>] = "queued" /\ at'[<<l, "settle">>] = at[<<l, "settle">>]
    BY <1>1, <1>3, MovementsDiffer DEF Queued, CopyInv, LineInv, Shape
  <2>4. <<l, "reserve">> \in Happened' /\ <<l, "settle">> \notin Happened'
    BY <1>4, <2>3, MovementsDiffer DEF Happened
  <2> HIDE DEF e
  <2>5. effect[<<l, "settle">>].hand = 0 /\ effect[<<l, "settle">>].reserved = 0
    BY <1>1, <2>1 DEF LineIsMoved
  <2> QED
    BY <1>3, <1>6, <2>2, <2>4, <2>5 DEF LineIsMoved
<1>8. LiveUnits' = LiveUnits + Units[l] /\ SoldUnits' = SoldUnits
  <2>1. {j \in Line : held'[j] = "reserved"} = T \cup {l} /\ l \notin T
    BY <1>1, <1>6
  <2>2. {j \in Line : held'[j] = "consumed"} = {j \in Line : held[j] = "consumed"}
    BY <1>1, <1>6
  <2>3. Total(Units, T \cup {l}) = Total(Units, T) + Units[l]
    <3> HIDE DEF T
    <3>1. T \in SUBSET Line
      BY DEF T
    <3> QED
      BY <2>1, <3>1, UnitsMove
  <2> QED
    BY <2>1, <2>2, <2>3 DEF LiveUnits, SoldUnits
<1>9. ~stale => counters'.booked = LiveUnits' /\ counters'.total + SoldUnits' = counters.total + SoldUnits
  BY <1>5, <1>8 DEF CopyInv, CopyKeepsCounters, CopyKeepsBookings
<1> HIDE DEF e
<1> QED
  BY <1>1, <1>3, <1>4, <1>5, <1>7, <1>9, LineStep

\* A release or a sale takes from what is held for its line exactly what it holds.
LEMMA SettlesCopyInv ==
  ASSUME CopyInv, LineInv', NEW l \in Line, Releases(l) \/ Consumes(l)
  PROVE  CopyInv'
<1> DEFINE take == BookedPart(counters, Units[l])
           T == {j \in Line : held[j] = "reserved"}
           C == {j \in Line : held[j] = "consumed"}
<1>1. Units[l] \in Nat \ {0} /\ Units[l] \in Int
  BY ProjectionAssumption
<1>2. counters.booked \in Int /\ counters.avail \in Int /\ counters.total \in Int
  BY DEF CopyInv, CopyTypes, Counters
<1>3. take \in Int
  BY <1>1, <1>2 DEF BookedPart, LesserOf, GreaterOf
<1>4. PICK s \in {"released", "consumed"}, e \in Effect :
        /\ held[l] = "reserved" /\ held' = [held EXCEPT ![l] = s]
        /\ Queued(<<l, "settle">>, e)
        /\ e.hand = (IF s = "consumed" THEN -take ELSE 0) /\ e.reserved = -take
        /\ counters' \in Counters
        /\ counters'.booked = counters.booked - take
        /\ counters'.total = counters.total - (IF s = "consumed" THEN take ELSE 0)
        /\ UNCHANGED <<mirror, stale>>
  <2>1. CASE Releases(l)
    <3> DEFINE e == [hand |-> 0, reserved |-> -take]
    <3>1. e \in Effect /\ e.hand = 0 /\ e.reserved = -take
      BY <1>3 DEF Effect
    <3>2. /\ held[l] = "reserved" /\ held' = [held EXCEPT ![l] = "released"]
          /\ Queued(<<l, "settle">>, e) /\ UNCHANGED <<mirror, stale>>
          /\ counters' = Release(counters, Units[l])
      BY <2>1 DEF Releases
    <3>3. /\ counters' \in Counters
          /\ counters'.booked = counters.booked - take
          /\ counters'.total = counters.total
      BY <1>1, <1>2, <1>3, <3>2 DEF Release, Counters
    <3> HIDE DEF e, take
    <3> QED
      BY <1>2, <3>1, <3>2, <3>3
  <2>2. CASE Consumes(l)
    <3> DEFINE e == [hand |-> -take, reserved |-> -take]
    <3>1. e \in Effect /\ e.hand = -take /\ e.reserved = -take
      BY <1>3 DEF Effect
    <3>2. /\ held[l] = "reserved" /\ held' = [held EXCEPT ![l] = "consumed"]
          /\ Queued(<<l, "settle">>, e) /\ UNCHANGED <<mirror, stale>>
          /\ counters' = Consume(counters, Units[l])
      BY <2>2 DEF Consumes
    <3>3. /\ counters' \in Counters
          /\ counters'.booked = counters.booked - take
          /\ counters'.total = counters.total - take
      BY <1>1, <1>2, <1>3, <3>2 DEF Consume, Counters
    <3> HIDE DEF e, take
    <3> QED
      BY <1>2, <3>1, <3>2, <3>3
  <2> QED
    BY <2>1, <2>2
<1>5. T \in SUBSET Line /\ C \in SUBSET Line /\ l \in T /\ l \notin C
  BY <1>4
<1>6. held'[l] = s /\ \A j \in Line : j # l => held'[j] = held[j]
  BY <1>4 DEF CopyInv, LineInv
<1>7. at[<<l, "settle">>] = "none"
  BY <1>4 DEF CopyInv, LineInv, Shape
<1>8. ~stale => take = Units[l]
  <2> SUFFICES ASSUME ~stale PROVE take = Units[l]
    OBVIOUS
  <2>1. counters.booked = Total(Units, T)
    BY DEF CopyInv, CopyKeepsCounters, CopyKeepsBookings, LiveUnits
  <2> HIDE DEF T
  <2>2. Units[l] <= counters.booked
    BY <1>5, <2>1, UnitsMove
  <2> QED
    BY <1>1, <1>2, <2>2 DEF BookedPart, LesserOf, GreaterOf
<1>9. LiveUnits' = LiveUnits - Units[l]
  <2>1. {j \in Line : held'[j] = "reserved"} = T \ {l}
    BY <1>4, <1>6
  <2>2. LiveUnits' = Total(Units, T \ {l}) /\ LiveUnits = Total(Units, T)
    BY <2>1 DEF LiveUnits
  <2> HIDE DEF T
  <2>3. T \ {l} \in SUBSET Line
    BY <1>5
  <2>4. Total(Units, T) = Units[l] + Total(Units, T \ {l}) /\ Total(Units, T \ {l}) \in Nat
    BY <1>5, <2>3, UnitsMove
  <2> QED
    BY <1>1, <2>2, <2>4
<1>10. SoldUnits' = SoldUnits + (IF s = "consumed" THEN Units[l] ELSE 0) /\ SoldUnits \in Int
  <2>1. {j \in Line : held'[j] = "consumed"} = IF s = "consumed" THEN C \cup {l} ELSE C
    BY <1>4, <1>6
  <2>2. SoldUnits' = Total(Units, IF s = "consumed" THEN C \cup {l} ELSE C) /\ SoldUnits = Total(Units, C)
    BY <2>1 DEF SoldUnits
  <2> HIDE DEF C
  <2>3. Total(Units, C \cup {l}) = Total(Units, C) + Units[l] /\ Total(Units, C) \in Nat
    BY <1>5, UnitsMove
  <2> QED
    BY <1>1, <2>2, <2>3
<1> HIDE DEF take, T, C
<1>11. ASSUME ~stale PROVE e # NoEffect /\ LineIsMoved(l)'
  <2>1. LineIsMoved(l)
    BY <1>11 DEF CopyInv, LinesAreMoved
  <2>2. e.reserved = -Units[l] /\ e.hand = IF s = "consumed" THEN -Units[l] ELSE 0
    BY <1>4, <1>8, <1>11
  <2>3. e # NoEffect
    BY <1>1, <2>2 DEF NoEffect
  <2>4. /\ effect'[<<l, "settle">>] = e
        /\ effect'[<<l, "reserve">>] = effect[<<l, "reserve">>]
    BY <1>4, MovementsDiffer DEF Queued, CopyInv, CopyTypes
  <2>5. at'[<<l, "settle">>] = "queued" /\ at'[<<l, "reserve">>] = at[<<l, "reserve">>]
    BY <1>4, <2>3, MovementsDiffer DEF Queued, CopyInv, LineInv, Shape
  <2>6. <<l, "settle">> \in Happened' /\ (<<l, "reserve">> \in Happened' <=> <<l, "reserve">> \in Happened)
    BY <2>5, MovementsDiffer DEF Happened
  <2>7. LineIsMoved(l)'
    BY <1>4, <1>6, <2>1, <2>2, <2>4, <2>6 DEF LineIsMoved
  <2> QED
    BY <2>3, <2>7
<1>12. ~stale => counters'.booked = LiveUnits'
  BY <1>4, <1>8, <1>9 DEF CopyInv, CopyKeepsCounters, CopyKeepsBookings
<1>13. ~stale => counters'.total + SoldUnits' = counters.total + SoldUnits
  BY <1>1, <1>2, <1>4, <1>8, <1>10
<1> QED
  BY <1>4, <1>7, <1>11, <1>12, <1>13, LineStep

\* A posting, a skipped one, a fold and a lost fold: the movement had happened before.
LEMMA MovementCopyInv ==
  ASSUME CopyInv, LineInv', NEW m \in Movement,
         PostsQueued(m) \/ SkipsPosting(m) \/ Folds(m) \/ LosesFold(m)
  PROVE  CopyInv'
<1>1. UNCHANGED <<counters, held, mirror, stale, effect>>
  BY DEF PostsQueued, SkipsPosting, Folds, LosesFold
<1>2. PICK s \in MovementStage \ {"none", "decided", "queued"} :
        /\ at' = [at EXCEPT ![m] = s]
        /\ at[m] \in {"queued", "posted"}
        /\ s = "skipped" => at[m] = "queued"
  BY DEF PostsQueued, SkipsPosting, Folds, LosesFold, MovementStage
<1>3. at'[m] = s /\ \A n \in Movement : n # m => at'[n] = at[n]
  BY <1>2 DEF CopyInv, LineInv, Shape
<1>4. Happened' = Happened
  BY <1>2, <1>3 DEF Happened, MovementStage
<1>5. AdjustmentsPost'
  BY <1>1, <1>2, <1>3, MovementsDiffer DEF CopyInv, AdjustmentsPost, MovementStage
<1>6. effect' \in [Movement -> Effect] /\ \A n \in Movement : effect'[n] = effect[n] \/ n \in Adjustment \ Happened
  BY <1>1 DEF CopyInv, CopyTypes
<1> QED
  BY <1>1, <1>4, <1>5, <1>6, QuietStep

\* A rebuild, and a step that does nothing.
LEMMA NothingHappens ==
  ASSUME CopyInv, LineInv', UNCHANGED <<counters, held, mirror, stale, effect, at>>
  PROVE  CopyInv'
<1>1. Happened' = Happened
  BY DEF Happened
<1>2. AdjustmentsPost'
  BY DEF CopyInv, AdjustmentsPost
<1>3. effect' \in [Movement -> Effect] /\ \A n \in Movement : effect'[n] = effect[n] \/ n \in Adjustment \ Happened
  BY DEF CopyInv, CopyTypes
<1> QED
  BY <1>1, <1>2, <1>3, QuietStep

\* What a balance shows is a number.
LEMMA BalanceIsInt ==
  ASSUME CopyInv
  PROVE  HandOf(counted) \in Int /\ ReservedOf(counted) \in Int
<1> DEFINE f == [m \in Movement |-> counted[m] * effect[m].hand]
           r == [m \in Movement |-> counted[m] * effect[m].reserved]
<1>1. \A m \in Movement : f[m] \in Int /\ r[m] \in Int
  <2> SUFFICES ASSUME NEW m \in Movement
               PROVE  counted[m] * effect[m].hand \in Int /\ counted[m] * effect[m].reserved \in Int
    OBVIOUS
  <2>1. counted[m] \in Int /\ effect[m].hand \in Int /\ effect[m].reserved \in Int
    BY DEF CopyInv, LineInv, Shape, CopyTypes, Effect
  <2> QED
    BY <2>1
<1>2. HandOf(counted) = Opening + Total(f, Movement) /\ ReservedOf(counted) = Total(r, Movement)
  BY DEF HandOf, ReservedOf
<1> HIDE DEF f, r
<1>3. IsFiniteSet(Movement)
  <2>1. IsFiniteSet({"reserve", "settle"})
    <3>1. IsFiniteSet({"reserve"}) /\ {"reserve", "settle"} = {"reserve"} \cup {"settle"}
      BY FS_Singleton
    <3> QED
      BY <3>1, FS_AddElement
  <2>2. IsFiniteSet(Line \X {"reserve", "settle"})
    BY <2>1, ProjectionAssumption, FS_Product
  <2> QED
    BY <2>2, ProjectionAssumption, FS_Union DEF Movement
<1>4. Total(f, Movement) \in Int /\ Total(r, Movement) \in Int
  BY <1>1, <1>3, TotalInt
<1> QED
  BY <1>2, <1>4, ProjectionAssumption

\* The decision of an adjustment changes nothing yet.
LEMMA DecidesCopyInv ==
  ASSUME CopyInv, LineInv', NEW a \in Adjustment, AdjustDecides(a)
  PROVE  CopyInv'
<1>1. a \in Movement /\ at[a] = "none" /\ a \notin Happened
  BY MovementsDiffer DEF AdjustDecides, Happened
<1>2. HandOf(counted) \in Int
  BY BalanceIsInt
<1>3. PICK d \in Int : effect' = [effect EXCEPT ![a] = [hand |-> d, reserved |-> 0]]
  <2> DEFINE d == IF Change[a].mode = "set" THEN Change[a].quantity - HandOf(counted) ELSE Change[a].quantity
  <2>1. Change[a].quantity \in Int
    BY ProjectionAssumption
  <2>2. d \in Int
    BY <1>2, <2>1
  <2>3. effect' = [effect EXCEPT ![a] = [hand |-> d, reserved |-> 0]]
    BY DEF AdjustDecides
  <2> HIDE DEF d
  <2> QED
    BY <2>2, <2>3
<1>4. /\ at' = [at EXCEPT ![a] = "decided"]
      /\ UNCHANGED <<counters, held, mirror>>
      /\ stale' = (stale \/ BalanceIsBehind)
  BY DEF AdjustDecides
<1>5. [hand |-> d, reserved |-> 0] \in Effect
  BY <1>3 DEF Effect
<1>6. /\ effect' \in [Movement -> Effect] /\ effect'[a].reserved = 0
      /\ \A n \in Movement : n # a => effect'[n] = effect[n]
  BY <1>1, <1>3, <1>5 DEF CopyInv, CopyTypes
<1>7. at'[a] = "decided" /\ \A n \in Movement : n # a => at'[n] = at[n]
  BY <1>1, <1>4 DEF CopyInv, LineInv, Shape
<1>8. Happened' = Happened
  BY <1>1, <1>7 DEF Happened
<1>9. AdjustmentsPost'
  BY <1>1, <1>4, <1>6, <1>7, MovementsDiffer DEF CopyInv, AdjustmentsPost
<1>10. \A n \in Movement : effect'[n] = effect[n] \/ n \in Adjustment \ Happened
  BY <1>1, <1>6
<1>11. CASE stale' = stale
  BY <1>4, <1>6, <1>8, <1>9, <1>10, <1>11, QuietStep
<1>12. CASE stale' # stale
  <2>1. stale' = TRUE
    BY <1>4, <1>12 DEF CopyInv, CopyTypes
  <2>2. CopyTypes'
    BY <1>4, <1>6, <2>1 DEF CopyInv, CopyTypes
  <2>3. CopiesAreRight'
    BY <1>4, <1>8, <2>1 DEF CopyInv, CopiesAreRight, CopyIsRight
  <2> QED
    BY <1>9, <2>1, <2>2, <2>3 DEF CopyInv, LinesAreMoved, CopyKeepsCounters
<1> QED
  BY <1>11, <1>12

\* An adjustment that is posted is still to be copied.
LEMMA PostsCopyInv ==
  ASSUME CopyInv, LineInv', NEW a \in Adjustment, AdjustPosts(a)
  PROVE  CopyInv'
<1>1. /\ a \in Movement /\ at[a] = "decided" /\ at' = [at EXCEPT ![a] = "posted"]
      /\ UNCHANGED <<counters, held, effect, mirror, stale>>
  BY MovementsDiffer DEF AdjustPosts
<1>2. at'[a] = "posted" /\ \A n \in Movement : n # a => at'[n] = at[n]
  BY <1>1 DEF CopyInv, LineInv, Shape
<1>3. a \notin Happened /\ Happened' = Happened \cup {a}
  BY <1>1, <1>2 DEF Happened
<1>4. CopyTypes'
  BY <1>1 DEF CopyInv, CopyTypes
<1>5. LinesAreMoved'
  <2> SUFFICES ASSUME ~stale, NEW l \in Line PROVE LineIsMoved(l)'
    BY <1>1 DEF LinesAreMoved
  <2>1. LineIsMoved(l)
    BY DEF CopyInv, LinesAreMoved
  <2>2. /\ <<l, "reserve">> \in Happened' <=> <<l, "reserve">> \in Happened
        /\ <<l, "settle">> \in Happened' <=> <<l, "settle">> \in Happened
    BY <1>3, MovementsDiffer
  <2> QED
    BY <1>1, <2>1, <2>2 DEF LineIsMoved
<1>6. AdjustmentsPost'
  BY <1>1, <1>2, MovementsDiffer DEF CopyInv, AdjustmentsPost
<1>7. CopiesAreRight'
  <2> SUFFICES ASSUME NEW b \in Adjustment, mirror[b].step = "read"
               PROVE  mirror[b].asOf \subseteq Happened' /\ mirror[b].asOf # Happened'
    BY <1>1 DEF CopiesAreRight, CopyIsRight
  <2>1. mirror[b].asOf \subseteq Happened
    BY DEF CopyInv, CopiesAreRight, CopyIsRight
  <2> QED
    BY <1>3, <2>1
<1>8. LiveUnits' = LiveUnits
  BY <1>1 DEF LiveUnits
<1>9. ~(at'[a] \in {"none", "decided"} \/ mirror'[a].step = "done")
  <2>1. mirror[a] = NoCopy
    BY <1>1 DEF CopyInv, AdjustmentsPost
  <2> QED
    BY <1>1, <1>2, <2>1 DEF NoCopy
<1>10. CopyKeepsCounters'
  BY <1>1, <1>8, <1>9 DEF CopyInv, CopyKeepsCounters, CopyKeepsBookings, CopyKeepsStock
<1> QED
  BY <1>4, <1>5, <1>6, <1>7, <1>10 DEF CopyInv

\* A copy that reads a balance that is not behind reads what is right.
LEMMA ReadsCopyInv ==
  ASSUME CopyInv, LineInv', NEW a \in Adjustment, MirrorReads(a)
  PROVE  CopyInv'
<1> DEFINE c == [step |-> "read", hand |-> HandOf(counted), reserved |-> ReservedOf(counted),
                 behind |-> BalanceIsBehind, asOf |-> Happened]
<1>1. /\ at[a] = "folded" /\ mirror[a] = NoCopy /\ mirror' = [mirror EXCEPT ![a] = c]
      /\ UNCHANGED <<counters, held, effect, at, counted, stale>>
  BY DEF MirrorReads
<1>2. HandOf(counted) \in Int /\ ReservedOf(counted) \in Int
  BY BalanceIsInt
<1>3. Happened \subseteq Movement /\ BalanceIsBehind \in BOOLEAN
  BY DEF Happened, BalanceIsBehind
<1>4. c \in Copy
  BY <1>2, <1>3 DEF Copy
<1>5. ~stale /\ ~c.behind => c.hand = HandNow /\ c.reserved = LiveUnits
  BY BalanceIsRight
<1>6. c.asOf = Happened
  OBVIOUS
<1> HIDE DEF c
<1>7. mirror'[a] = c /\ \A b \in Adjustment : b # a => mirror'[b] = mirror[b]
  BY <1>1 DEF CopyInv, CopyTypes
<1>8. CopyTypes'
  BY <1>1, <1>4 DEF CopyInv, CopyTypes
<1>9. UNCHANGED <<Happened, HandNow, LiveUnits, SoldUnits, Adjusted>>
  BY <1>1 DEF Happened, HandNow, LiveUnits, SoldUnits, Adjusted, Ledger
<1>10. LinesAreMoved'
  BY <1>1, <1>9 DEF CopyInv, LinesAreMoved, LineIsMoved
<1>11. AdjustmentsPost'
  BY <1>1, <1>7 DEF CopyInv, AdjustmentsPost
<1>12. CopiesAreRight'
  BY <1>1, <1>5, <1>6, <1>7, <1>9 DEF CopyInv, CopiesAreRight, CopyIsRight
<1>13. CopyKeepsCounters'
  <2>1. c.step = "read"
    BY DEF c
  <2> QED
    BY <1>1, <1>7, <1>9, <2>1 DEF CopyInv, CopyKeepsCounters, CopyKeepsBookings, CopyKeepsStock, NoCopy
<1> QED
  BY <1>8, <1>10, <1>11, <1>12, <1>13 DEF CopyInv

\* A copy that is written sets the counters to what is right, or something is stale.
LEMMA WritesCopyInv ==
  ASSUME CopyInv, LineInv', NEW a \in Adjustment, MirrorWrites(a) \/ AdjustDies(a)
  PROVE  CopyInv'
<1>1. mirror' = [mirror EXCEPT ![a] = [step |-> "done"]] /\ UNCHANGED <<held, effect, at>>
  BY DEF MirrorWrites, AdjustDies
<1>2. [step |-> "done"] \in Copy /\ [step |-> "done"].step = "done"
  BY DEF Copy
<1>3. mirror'[a].step = "done" /\ \A b \in Adjustment : b # a => mirror'[b] = mirror[b]
  BY <1>1 DEF CopyInv, CopyTypes
<1>4. UNCHANGED <<Happened, HandNow, LiveUnits, SoldUnits, Adjusted>>
  BY <1>1 DEF Happened, HandNow, LiveUnits, SoldUnits, Adjusted, Ledger
<1>5. AdjustmentsPost'
  <2>1. at[a] \notin {"none", "decided"}
    <3>1. CASE MirrorWrites(a)
      BY <3>1 DEF MirrorWrites, CopyInv, AdjustmentsPost, NoCopy
    <3>2. CASE AdjustDies(a)
      BY <3>2 DEF AdjustDies
    <3> QED
      BY <3>1, <3>2
  <2> QED
    BY <1>1, <1>3, <2>1 DEF CopyInv, AdjustmentsPost
<1>6. mirror' \in [Adjustment -> Copy]
  BY <1>1, <1>2 DEF CopyInv, CopyTypes
<1>7. CASE AdjustDies(a)
  <2>1. stale' = TRUE /\ counters' = counters
    BY <1>7 DEF AdjustDies
  <2>2. CopyTypes'
    BY <1>1, <1>6, <2>1 DEF CopyInv, CopyTypes
  <2>3. CopiesAreRight'
    BY <1>3, <1>4, <2>1 DEF CopyInv, CopiesAreRight, CopyIsRight
  <2> QED
    BY <1>5, <2>1, <2>2, <2>3 DEF CopyInv, LinesAreMoved, CopyKeepsCounters
<1>8. CASE MirrorWrites(a)
  <2>1. /\ mirror[a].step = "read"
        /\ counters' = [total |-> mirror[a].hand, booked |-> mirror[a].reserved,
                        avail |-> mirror[a].hand - mirror[a].reserved]
        /\ stale' = (stale \/ mirror[a].behind \/ mirror[a].asOf # Happened)
    BY <1>8 DEF MirrorWrites
  <2>2. mirror[a].hand \in Int /\ mirror[a].reserved \in Int /\ mirror[a].behind \in BOOLEAN
    <3>1. mirror[a] \in Copy
      BY DEF CopyInv, CopyTypes
    <3> QED
      BY <2>1, <3>1 DEF Copy, NoCopy
  <2>3. counters' \in Counters /\ counters'.booked = mirror[a].reserved /\ counters'.total = mirror[a].hand
    BY <2>1, <2>2 DEF Counters
  <2>4. stale' \in BOOLEAN
    BY <2>1
  <2>5. CopyTypes'
    BY <1>1, <1>6, <2>3, <2>4 DEF CopyInv, CopyTypes
  <2>6. ASSUME ~stale' PROVE ~stale /\ mirror[a].hand = HandNow /\ mirror[a].reserved = LiveUnits
    <3>1. ~stale /\ ~mirror[a].behind /\ mirror[a].asOf = Happened
      BY <2>1, <2>6
    <3> QED
      BY <2>1, <3>1 DEF CopyInv, CopiesAreRight, CopyIsRight
  <2>7. CopiesAreRight'
    BY <1>3, <1>4, <2>6 DEF CopyInv, CopiesAreRight, CopyIsRight
  <2>8. LinesAreMoved'
    BY <1>1, <1>4, <2>6 DEF CopyInv, LinesAreMoved, LineIsMoved
  <2>9. ASSUME ~stale' PROVE counters'.booked = LiveUnits' /\ counters'.total + SoldUnits' = Opening + Adjusted'
    <3>1. counters'.booked = LiveUnits /\ counters'.total = HandNow
      BY <2>3, <2>6, <2>9
    <3>2. SoldUnits \in Int /\ Adjusted \in Int /\ Opening \in Int
      BY SumsAreInt, ProjectionAssumption DEF CopyInv
    <3> QED
      BY <1>4, <3>1, <3>2 DEF HandNow
  <2>10. CopyKeepsCounters'
    BY <2>9 DEF CopyKeepsCounters, CopyKeepsBookings, CopyKeepsStock
  <2> QED
    BY <1>5, <2>5, <2>7, <2>8, <2>10 DEF CopyInv
<1> QED
  BY <1>7, <1>8

\* Every step keeps the copies right.
LEMMA StepCopyInv == CopyInv /\ [ProjectionNext]_projectionVars => CopyInv'
<1> SUFFICES ASSUME CopyInv, [ProjectionNext]_projectionVars PROVE CopyInv'
  OBVIOUS
<1>1. LineInv'
  BY StepLineInv DEF CopyInv
<1>2. ASSUME NEW l \in Line, Books(l) PROVE CopyInv'
  BY <1>1, <1>2, BooksCopyInv
<1>3. ASSUME NEW l \in Line, Releases(l) \/ Consumes(l) PROVE CopyInv'
  BY <1>1, <1>3, SettlesCopyInv
<1>4. ASSUME NEW m \in Movement, PostsQueued(m) \/ SkipsPosting(m) \/ Folds(m) \/ LosesFold(m) PROVE CopyInv'
  BY <1>1, <1>4, MovementCopyInv
<1>5. CASE RebuildReads \/ RebuildWrites
  BY <1>1, <1>5, NothingHappens DEF RebuildReads, RebuildWrites
<1>6. ASSUME NEW a \in Adjustment, AdjustDecides(a) PROVE CopyInv'
  BY <1>1, <1>6, DecidesCopyInv
<1>7. ASSUME NEW a \in Adjustment, AdjustPosts(a) PROVE CopyInv'
  BY <1>1, <1>7, PostsCopyInv
<1>8. ASSUME NEW a \in Adjustment, MirrorReads(a) PROVE CopyInv'
  BY <1>1, <1>8, ReadsCopyInv
<1>9. ASSUME NEW a \in Adjustment, MirrorWrites(a) \/ AdjustDies(a) PROVE CopyInv'
  BY <1>1, <1>9, WritesCopyInv
<1>10. CASE UNCHANGED projectionVars
  BY <1>1, <1>10, NothingHappens
<1> QED
  BY <1>2, <1>3, <1>4, <1>5, <1>6, <1>7, <1>8, <1>9, <1>10 DEF ProjectionNext

\* The copy of the balance over the counters (syncLegacyStock) undoes no booking,
\* release, sale or adjustment, unless it was made from a balance that was behind, or
\* something happened between its reading and its writing.
THEOREM CopyKeepsTheCounters == ProjectionSpec => []CopyKeepsCounters
<1>1. CopyInv => CopyKeepsCounters
  BY DEF CopyInv
<1> QED
  BY <1>1, InitCopyInv, StepCopyInv, PTL DEF ProjectionSpec

-----------------------------------------------------------------------------
(* The types of the copies.                                                *)

Rebuilding == {NoRebuild} \cup [running : {TRUE}, seen : SUBSET Movement]

\* A movement is in the balance once if a rebuild has put it there, and once more if it
\* has been folded.
CountedAtMost == \A m \in Movement : counted[m] \in 0..(IF Settled(m) THEN 2 ELSE 1)

ProjectionRest ==
  /\ CountedAtMost
  /\ rebuild \in Rebuilding
  /\ faults \in 0..MaxFaults /\ rebuilds \in 0..MaxRebuilds

LEMMA InitProjectionRest == ProjectionInit => ProjectionRest
BY ProjectionAssumption DEF ProjectionInit, ProjectionRest, CountedAtMost, Rebuilding

\* A movement that is folded or lost has been so for good, and nothing else counts it.
LEMMA CountedAtMostStep ==
  ASSUME CountedAtMost,
         \A m \in Movement : /\ counted'[m] = counted[m]
                             /\ Settled(m) => at'[m] \in {"folded", "unfolded"}
  PROVE  CountedAtMost'
BY DEF CountedAtMost, Settled

LEMMA ProjectionRestStep == LineInv /\ ProjectionRest /\ [ProjectionNext]_projectionVars => ProjectionRest'
<1> SUFFICES ASSUME LineInv, ProjectionRest, [ProjectionNext]_projectionVars PROVE ProjectionRest'
  OBVIOUS
<1>1. /\ at \in [Movement -> MovementStage] /\ counted \in [Movement -> Nat]
      /\ \A l \in Line :
           /\ <<l, "reserve">> \in Movement /\ <<l, "settle">> \in Movement
           /\ held[l] = "none" => at[<<l, "reserve">>] = "none"
           /\ held[l] \in {"none", "reserved"} => at[<<l, "settle">>] = "none"
  BY MovementsDiffer DEF LineInv, Shape
<1>2. /\ CountedAtMost /\ rebuild \in Rebuilding
      /\ faults \in 0..MaxFaults /\ rebuilds \in 0..MaxRebuilds
  BY DEF ProjectionRest
<1>3. ASSUME faults' = faults, rebuilds' = rebuilds, rebuild' = rebuild, CountedAtMost'
      PROVE  ProjectionRest'
  BY <1>2, <1>3 DEF ProjectionRest
<1>4. ASSUME Fault, rebuilds' = rebuilds, rebuild' = rebuild, CountedAtMost'
      PROVE  ProjectionRest'
  BY <1>2, <1>4, ProjectionAssumption DEF ProjectionRest, Fault
<1>5. ASSUME NEW m \in Movement, NEW s, at[m] \notin {"folded", "unfolded"},
             at' = [at EXCEPT ![m] = s], counted' = counted
      PROVE  CountedAtMost'
  BY <1>1, <1>2, <1>5, CountedAtMostStep DEF Settled
<1>6. CASE UNCHANGED projectionVars
  BY <1>2, <1>3, <1>6, CountedAtMostStep DEF Settled
<1>7. ASSUME NEW l \in Line, Books(l) \/ Releases(l) \/ Consumes(l) PROVE ProjectionRest'
  <2>1. PICK m \in Movement : at[m] = "none" /\ \E s : at' = [at EXCEPT ![m] = s]
    <3>1. CASE Books(l)
      BY <1>1, <3>1 DEF Books, Queued
    <3>2. CASE Releases(l)
      BY <1>1, <3>2 DEF Releases, Queued
    <3>3. CASE Consumes(l)
      BY <1>1, <3>3 DEF Consumes, Queued
    <3> QED
      BY <1>7, <3>1, <3>2, <3>3
  <2>2. UNCHANGED <<counted, rebuild, rebuilds, faults>>
    BY <1>7 DEF Books, Releases, Consumes
  <2> QED
    BY <1>3, <1>5, <2>1, <2>2
<1>8. ASSUME NEW m \in Movement, PostsQueued(m) PROVE ProjectionRest'
  BY <1>3, <1>5, <1>8 DEF PostsQueued
<1>9. ASSUME NEW m \in Movement, SkipsPosting(m) PROVE ProjectionRest'
  BY <1>4, <1>5, <1>9 DEF SkipsPosting
<1>10. ASSUME NEW m \in Movement, Folds(m) PROVE ProjectionRest'
  <2>1. /\ at[m] = "posted" /\ at' = [at EXCEPT ![m] = "folded"]
        /\ counted' = [counted EXCEPT ![m] = @ + 1]
        /\ UNCHANGED <<rebuild, rebuilds, faults>>
    BY <1>10 DEF Folds
  <2>2. counted[m] \in 0..1
    BY <1>2, <2>1 DEF CountedAtMost, Settled
  <2>3. CountedAtMost'
    BY <1>1, <1>2, <2>1, <2>2 DEF CountedAtMost, Settled
  <2> QED
    BY <1>3, <2>1, <2>3
<1>11. ASSUME NEW m \in Movement, LosesFold(m) PROVE ProjectionRest'
  <2>1. /\ Fault /\ UNCHANGED <<counted, rebuild, rebuilds>>
        /\ at[m] = "posted" /\ at' = [at EXCEPT ![m] = "unfolded"]
    BY <1>11 DEF LosesFold
  <2> QED
    BY <1>4, <1>5, <2>1
<1>12. CASE RebuildReads
  <2>1. /\ rebuilds < MaxRebuilds /\ rebuilds' = rebuilds + 1
        /\ rebuild' = [running |-> TRUE, seen |-> Ledger]
        /\ UNCHANGED <<at, counted, faults>>
    BY <1>12 DEF RebuildReads
  <2>2. rebuild' \in Rebuilding
    BY <2>1 DEF Rebuilding, Ledger
  <2>3. CountedAtMost'
    BY <1>2, <2>1, CountedAtMostStep DEF Settled
  <2> QED
    BY <1>2, <2>1, <2>2, <2>3, ProjectionAssumption DEF ProjectionRest
<1>13. CASE RebuildWrites
  <2>1. /\ counted' = [m \in Movement |-> IF m \in rebuild.seen THEN 1 ELSE 0]
        /\ rebuild' = NoRebuild /\ UNCHANGED <<rebuilds, faults>>
    BY <1>13 DEF RebuildWrites
  <2>2. CountedAtMost'
    BY <2>1 DEF CountedAtMost
  <2> QED
    BY <1>2, <2>1, <2>2 DEF ProjectionRest, Rebuilding
<1>14. ASSUME NEW a \in Adjustment, AdjustDecides(a) \/ AdjustPosts(a) PROVE ProjectionRest'
  <2>1. a \in Movement
    BY DEF Movement
  <2>2. /\ at[a] \in {"none", "decided"} /\ \E s : at' = [at EXCEPT ![a] = s]
        /\ UNCHANGED <<counted, rebuild, rebuilds, faults>>
    BY <1>14 DEF AdjustDecides, AdjustPosts
  <2> QED
    BY <1>3, <1>5, <2>1, <2>2
<1>15. ASSUME NEW a \in Adjustment, MirrorReads(a) \/ MirrorWrites(a) PROVE ProjectionRest'
  <2>1. UNCHANGED <<at, counted, rebuild, rebuilds, faults>>
    BY <1>15 DEF MirrorReads, MirrorWrites
  <2> QED
    BY <1>2, <1>3, <2>1, CountedAtMostStep DEF Settled
<1>16. ASSUME NEW a \in Adjustment, AdjustDies(a) PROVE ProjectionRest'
  <2>1. Fault /\ UNCHANGED <<at, counted, rebuild, rebuilds>>
    BY <1>16 DEF AdjustDies
  <2> QED
    BY <1>2, <1>4, <2>1, CountedAtMostStep DEF Settled
<1> QED
  BY <1>6, <1>7, <1>8, <1>9, <1>10, <1>11, <1>12, <1>13, <1>14, <1>15, <1>16 DEF ProjectionNext

LEMMA CopiesAreTyped == CopyInv /\ ProjectionRest => ProjectionTypeOK
<1> SUFFICES ASSUME CopyInv, ProjectionRest PROVE ProjectionTypeOK
  OBVIOUS
<1>1. /\ counters \in Counters /\ effect \in [Movement -> Effect] /\ stale \in BOOLEAN
      /\ held \in [Line -> {"none", "reserved", "consumed", "released"}]
      /\ at \in [Movement -> MovementStage] /\ drift \in BOOLEAN
  BY DEF CopyInv, CopyTypes, LineInv, Shape
<1>2. counted \in [Movement -> 0..2]
  BY DEF CopyInv, LineInv, Shape, ProjectionRest, CountedAtMost
<1>3. \A a \in Adjustment : mirror[a].step \in {"none", "read", "done"}
  BY DEF CopyInv, CopyTypes, Copy, NoCopy
<1>4. rebuild # NoRebuild => rebuild.seen \subseteq Movement
  BY DEF ProjectionRest, Rebuilding
<1> QED
  BY <1>1, <1>2, <1>3, <1>4 DEF ProjectionTypeOK, ProjectionRest

\* The counters, the movements and the balance hold what they may, for any lines and
\* adjustments: in particular no movement is in the balance more than twice (the product
\* document, stockmovements and stockbalances).
THEOREM CopiesTyped == ProjectionSpec => []ProjectionTypeOK
<1>1. CopyInv => LineInv
  BY DEF CopyInv
<1>2. ProjectionRest /\ CopyInv /\ [ProjectionNext]_projectionVars => ProjectionRest'
  BY <1>1, ProjectionRestStep
<1>3. CopyInv /\ ProjectionRest => ProjectionTypeOK
  BY CopiesAreTyped
<1> QED
  BY <1>2, <1>3, InitCopyInv, StepCopyInv, InitProjectionRest, PTL DEF ProjectionSpec
================================================================================
