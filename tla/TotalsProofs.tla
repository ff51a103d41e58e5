----------------------------- MODULE TotalsProofs -----------------------------
(***************************************************************************)
(* What a sum over a finite set does when the set or one value changes.    *)
(* The community module defines the sum by a fold; here it is shown that   *)
(* there is a function over the subsets of the set that follows the fold,  *)
(* and every lemma is then shown of a smallest subset it might fail for:   *)
(* induction over finite sets, for sets and functions that are constants.  *)
(***************************************************************************)
EXTENDS Totals, FiniteSetTheorems, WellFoundedInduction, TLAPS

\* A nonempty set of numbers has a least one.
LEMMA LeastOf ==
  ASSUME NEW S \in SUBSET Nat, S # {}
  PROVE  \E n \in S : \A m \in S : n <= m
<1>1. PICK n \in S : \A m \in S : ~(<<m, n>> \in OpToRel(<, Nat))
  BY NatLessThanWellFounded, WFMin
<1>2. \A m \in S : ~(m < n)
  BY <1>1 DEF OpToRel
<1> QED BY <1>2

\* Induction over the subsets of a finite set: those that lack a property include one
\* of which no smaller does.
LEMMA SmallestSet ==
  ASSUME NEW S, IsFiniteSet(S), NEW C \in SUBSET SUBSET S, C # {}
  PROVE  \E T \in C : \A U \in C : U \subseteq T => U = T
<1>1. \A T \in C : IsFiniteSet(T) /\ Cardinality(T) \in Nat
  BY FS_Subset, FS_CardinalityType
<1> DEFINE sizes == {Cardinality(T) : T \in C}
<1>2. sizes \in SUBSET Nat /\ sizes # {}
  BY <1>1
<1>3. PICK n \in sizes : \A m \in sizes : n <= m
  BY <1>2, LeastOf
<1>4. PICK T \in C : Cardinality(T) = n
  BY <1>3
<1>5. ASSUME NEW U \in C, U \subseteq T, U # T PROVE FALSE
  <2>1. Cardinality(U) < Cardinality(T)
    BY <1>1, <1>5, FS_Subset
  <2> QED
    BY <1>1, <1>3, <1>4, <2>1
<1> QED
  BY <1>5

\* f obeys a recursion at T: what it is there follows from what it is of T without pick[T].
Obeys(f, base, pick, step, T) ==
  f[T] = IF T = {} THEN base ELSE step[<<T, f[T \ {pick[T]}]>>]

Recursion(f, base, pick, step, S) ==
  f = [T \in SUBSET S |-> IF T = {} THEN base ELSE step[<<T, f[T \ {pick[T]}]>>]]

\* A function over the subsets of a finite set may be defined by such a recursion.
LEMMA SetRecursion ==
  ASSUME NEW S, IsFiniteSet(S), NEW base, NEW pick, NEW step,
         \A T \in SUBSET S : T # {} => pick[T] \in T
  PROVE  \E f : Recursion(f, base, pick, step, S)
<1> DEFINE Upto(f, n) == \A T \in SUBSET S : Cardinality(T) <= n => Obeys(f, base, pick, step, T)
<1>1. \A T \in SUBSET S : IsFiniteSet(T) /\ Cardinality(T) \in Nat
  BY FS_Subset, FS_CardinalityType
<1>2. \A T \in SUBSET S : T # {} => /\ T \ {pick[T]} \in SUBSET S
                                    /\ Cardinality(T \ {pick[T]}) = Cardinality(T) - 1
  BY <1>1, FS_RemoveElement
<1>3. \A T \in SUBSET S : Cardinality(T) <= 0 => T = {}
  BY <1>1, FS_EmptySet
<1> DEFINE bad == {n \in Nat : ~\E f : Upto(f, n)}
<1>4. bad = {}
  <2> SUFFICES ASSUME bad # {} PROVE FALSE
    OBVIOUS
  <2>1. PICK n \in bad : \A m \in bad : n <= m
    <3>1. bad \in SUBSET Nat
      OBVIOUS
    <3> HIDE DEF bad
    <3> QED
      BY <3>1, LeastOf
  <2>2. n \in Nat /\ \A f : ~Upto(f, n)
    BY <2>1
  <2>3. CASE n = 0
    <3> DEFINE f == [T \in SUBSET S |-> base]
    <3>1. \A T \in SUBSET S : Cardinality(T) <= 0 => Obeys(f, base, pick, step, T)
      BY <1>3 DEF Obeys
    <3>2. Upto(f, 0)
      BY <3>1
    <3> QED
      BY <2>2, <2>3, <3>2
  <2>4. CASE n # 0
    <3>1. n - 1 \in Nat /\ ~(n <= n - 1)
      BY <2>2, <2>4
    <3>2. n - 1 \notin bad
      <4> HIDE DEF bad
      <4> QED
        BY <2>1, <3>1
    <3>3. PICK g : Upto(g, n - 1)
      BY <3>1, <3>2
    <3> DEFINE f == [T \in SUBSET S |-> IF Cardinality(T) <= n - 1 THEN g[T] ELSE
                                        IF T = {} THEN base ELSE step[<<T, g[T \ {pick[T]}]>>]]
    <3>4. ASSUME NEW T \in SUBSET S, Cardinality(T) <= n PROVE Obeys(f, base, pick, step, T)
      <4>1. CASE T = {}
        <5>1. Cardinality(T) <= n - 1
          BY <3>1, <4>1, FS_EmptySet
        <5>2. f[T] = g[T] /\ Obeys(g, base, pick, step, T)
          BY <3>3, <5>1
        <5> HIDE DEF f
        <5> QED
          BY <4>1, <5>2 DEF Obeys
      <4>2. CASE T # {}
        <5>1. Cardinality(T \ {pick[T]}) <= n - 1 /\ T \ {pick[T]} \in SUBSET S
          BY <1>1, <1>2, <2>2, <3>4, <4>2
        <5>2. f[T \ {pick[T]}] = g[T \ {pick[T]}]
          BY <5>1
        <5>3. CASE Cardinality(T) <= n - 1
          <6>1. f[T] = g[T] /\ Obeys(g, base, pick, step, T)
            BY <3>3, <5>3
          <6> HIDE DEF f
          <6> QED
            BY <4>2, <5>2, <6>1 DEF Obeys
        <5>4. CASE ~(Cardinality(T) <= n - 1)
          <6>1. f[T] = step[<<T, g[T \ {pick[T]}]>>]
            BY <4>2, <5>4
          <6> HIDE DEF f
          <6> QED
            BY <4>2, <5>2, <6>1 DEF Obeys
        <5> QED
          BY <5>3, <5>4
      <4> QED
        BY <4>1, <4>2
    <3>5. Upto(f, n)
      BY <3>4
    <3> HIDE DEF f
    <3> QED
      BY <2>2, <3>5
  <2> QED
    BY <2>3, <2>4
<1>5. Cardinality(S) \in Nat
  BY FS_CardinalityType
<1>6. PICK g : Upto(g, Cardinality(S))
  BY <1>4, <1>5
<1>7. \A T \in SUBSET S : Obeys(g, base, pick, step, T)
  BY <1>6, FS_Subset
<1> DEFINE f == [T \in SUBSET S |-> g[T]]
<1>8. \A T \in SUBSET S : f[T] = g[T]
  OBVIOUS
<1>9. \A T \in SUBSET S : f[T] = IF T = {} THEN base ELSE step[<<T, f[T \ {pick[T]}]>>]
  BY <1>2, <1>7, <1>8 DEF Obeys
<1>10. Recursion(f, base, pick, step, S)
  BY <1>9 DEF Recursion
<1> QED
  BY <1>10

-----------------------------------------------------------------------------
(* Sums.                                                                   *)

\* The recursion a sum is computed by.
Sums(iter, f, S) ==
  iter = [T \in SUBSET S |-> IF T = {} THEN 0
                             ELSE f[CHOOSE x \in T : TRUE] + iter[T \ {CHOOSE x \in T : TRUE}]]

\* A sum is computed by it, and there is one.
LEMMA TotalRecursion ==
  ASSUME NEW S, IsFiniteSet(S), NEW f, \A x \in S : f[x] \in Int
  PROVE  \E sum \in [SUBSET S -> Int] : Sums(sum, f, S) /\ Total(f, S) = sum[S]
<1> DEFINE iter[T \in SUBSET S] == IF T = {} THEN 0 ELSE f[CHOOSE x \in T : TRUE] + iter[T \ {CHOOSE x \in T : TRUE}]
           pick == [T \in SUBSET S |-> CHOOSE x \in T : TRUE]
           step == [p \in (SUBSET S) \X Int |-> f[pick[p[1]]] + p[2]]
           Rec(g, T) == IF T = {} THEN 0 ELSE step[<<T, g[T \ {pick[T]}]>>]
           NotInt(g) == {T \in SUBSET S : g[T] \notin Int}
<1>1. Total(f, S) = iter[S]
  BY DEF Total, MapThenSumSet, MapThenFoldSet
<1>2. \A T \in SUBSET S : T # {} => pick[T] \in T /\ pick[T] = CHOOSE x \in T : TRUE
  OBVIOUS
<1>5. \A T \in SUBSET S, n \in Int : step[<<T, n>>] = f[pick[T]] + n
  OBVIOUS
<1> HIDE DEF pick, step
<1>3. PICK g : Recursion(g, 0, pick, step, S)
  <2>1. \A T \in SUBSET S : T # {} => pick[T] \in T
    BY <1>2
  <2> QED
    BY <2>1, SetRecursion
<1>4. \A T \in SUBSET S : g[T] = Rec(g, T)
  BY <1>3 DEF Recursion
<1>13. g[{}] = 0
  BY <1>4
<1>6. NotInt(g) = {}
  <2> SUFFICES ASSUME NotInt(g) # {} PROVE FALSE
    OBVIOUS
  <2>1. PICK T \in NotInt(g) : \A U \in NotInt(g) : U \subseteq T => U = T
    <3>1. NotInt(g) \in SUBSET SUBSET S
      OBVIOUS
    <3> HIDE DEF NotInt
    <3> QED
      BY <3>1, SmallestSet
  <2>2. T \in SUBSET S /\ g[T] \notin Int
    BY <2>1
  <2>3. T # {}
    BY <1>13, <2>2
  <2>4. pick[T] \in T /\ pick[T] \in S /\ f[pick[T]] \in Int
    BY <1>2, <2>2, <2>3
  <2>5. g[T \ {pick[T]}] \in Int
    <3>1. T \ {pick[T]} \notin NotInt(g)
      <4> HIDE DEF NotInt
      <4> QED
        BY <2>1, <2>4
    <3> QED
      BY <2>2, <3>1
  <2>6. g[T] = f[pick[T]] + g[T \ {pick[T]}]
    BY <1>4, <1>5, <2>2, <2>3, <2>5
  <2> QED
    BY <2>2, <2>4, <2>5, <2>6
<1>7. \A T \in SUBSET S : g[T] \in Int
  BY <1>6
<1>8. \A T \in SUBSET S : g[T] = IF T = {} THEN 0 ELSE f[CHOOSE x \in T : TRUE] + g[T \ {CHOOSE x \in T : TRUE}]
  <2> SUFFICES ASSUME NEW T \in SUBSET S, T # {}
               PROVE  g[T] = f[CHOOSE x \in T : TRUE] + g[T \ {CHOOSE x \in T : TRUE}]
    BY <1>4
  <2>1. g[T \ {pick[T]}] \in Int
    BY <1>7
  <2>2. g[T] = f[pick[T]] + g[T \ {pick[T]}]
    BY <1>4, <1>5, <2>1
  <2> QED
    BY <1>2, <2>2
<1>9. Sums(g, f, S)
  <2>1. \E h : g = [T \in SUBSET S |-> h[T]]
    <3> DEFINE h == [T \in SUBSET S |-> Rec(g, T)]
    <3>1. g = [T \in SUBSET S |-> h[T]]
      BY <1>3 DEF Recursion
    <3> QED
      BY <3>1
  <2>2. g = [T \in SUBSET S |-> g[T]]
    BY <2>1
  <2> QED
    BY <1>8, <2>2 DEF Sums
<1>10. Sums(iter, f, S)
  <2>1. iter = CHOOSE h : Sums(h, f, S)
    BY DEF Sums
  <2> HIDE DEF iter
  <2> QED
    BY <1>9, <2>1
<1> HIDE DEF iter
<1>11. iter = g
  <2> DEFINE Differ == {T \in SUBSET S : iter[T] # g[T]}
  <2>1. Differ = {}
    <3> SUFFICES ASSUME Differ # {} PROVE FALSE
      OBVIOUS
    <3>1. PICK T \in Differ : \A U \in Differ : U \subseteq T => U = T
      <4>1. Differ \in SUBSET SUBSET S
        OBVIOUS
      <4> HIDE DEF Differ
      <4> QED
        BY <4>1, SmallestSet
    <3>2. T \in SUBSET S /\ iter[T] # g[T]
      BY <3>1
    <3>3. iter[T] = IF T = {} THEN 0 ELSE f[CHOOSE x \in T : TRUE] + iter[T \ {CHOOSE x \in T : TRUE}]
      BY <1>10, <3>2 DEF Sums
    <3>4. T # {}
      BY <1>8, <3>2, <3>3
    <3>5. T \ {CHOOSE x \in T : TRUE} \notin Differ
      <4>1. T \ {CHOOSE x \in T : TRUE} \subseteq T /\ T \ {CHOOSE x \in T : TRUE} # T
        BY <3>4
      <4> HIDE DEF Differ
      <4> QED
        BY <3>1, <4>1
    <3> QED
      BY <1>8, <3>2, <3>3, <3>4, <3>5
  <2>2. \A T \in SUBSET S : iter[T] = g[T]
    BY <2>1
  <2>3. iter = [T \in SUBSET S |-> iter[T]] /\ g = [T \in SUBSET S |-> g[T]]
    BY <1>9, <1>10 DEF Sums
  <2> QED
    BY <2>2, <2>3
<1>12. g \in [SUBSET S -> Int]
  <2>1. g = [T \in SUBSET S |-> g[T]]
    BY <1>9 DEF Sums
  <2> QED
    BY <1>7, <2>1
<1> QED
  BY <1>1, <1>9, <1>11, <1>12

\* Two sums of one function over two sets agree on the subsets of both.
LEMMA SumsAgree ==
  ASSUME NEW S, IsFiniteSet(S), NEW T \in SUBSET S, NEW f, NEW r, NEW q, Sums(r, f, S), Sums(q, f, T)
  PROVE  r[T] = q[T]
<1> DEFINE Differ == {U \in SUBSET T : r[U] # q[U]}
<1>1. Differ = {}
  <2> SUFFICES ASSUME Differ # {} PROVE FALSE
    OBVIOUS
  <2>1. PICK U \in Differ : \A V \in Differ : V \subseteq U => V = U
    <3>1. Differ \in SUBSET SUBSET T /\ IsFiniteSet(T)
      BY FS_Subset
    <3> HIDE DEF Differ
    <3> QED
      BY <3>1, SmallestSet
  <2>2. U \in SUBSET T /\ U \in SUBSET S /\ r[U] # q[U]
    BY <2>1
  <2>3. r[U] = IF U = {} THEN 0 ELSE f[CHOOSE x \in U : TRUE] + r[U \ {CHOOSE x \in U : TRUE}]
    BY <2>2 DEF Sums
  <2>4. q[U] = IF U = {} THEN 0 ELSE f[CHOOSE x \in U : TRUE] + q[U \ {CHOOSE x \in U : TRUE}]
    BY <2>2 DEF Sums
  <2>5. U # {}
    BY <2>2, <2>3, <2>4
  <2>6. U \ {CHOOSE x \in U : TRUE} \notin Differ
    <3>1. U \ {CHOOSE x \in U : TRUE} \subseteq U /\ U \ {CHOOSE x \in U : TRUE} # U
      BY <2>5
    <3> HIDE DEF Differ
    <3> QED
      BY <2>1, <3>1
  <2>7. r[U \ {CHOOSE x \in U : TRUE}] = q[U \ {CHOOSE x \in U : TRUE}]
    BY <2>2, <2>6
  <2> QED
    BY <2>2, <2>3, <2>4, <2>5, <2>7
<1> QED
  BY <1>1

\* The sum over nothing is zero.
LEMMA TotalOfNone ==
  ASSUME NEW f
  PROVE  Total(f, {}) = 0
<1>1. IsFiniteSet({})
  BY FS_EmptySet
<1>2. PICK sum \in [SUBSET {} -> Int] : Sums(sum, f, {}) /\ Total(f, {}) = sum[{}]
  BY <1>1, TotalRecursion
<1>3. sum[{}] = 0
  BY <1>2 DEF Sums
<1> QED
  BY <1>2, <1>3

\* A sum of integers is one.
LEMMA TotalInt ==
  ASSUME NEW S, IsFiniteSet(S), NEW f, \A x \in S : f[x] \in Int
  PROVE  Total(f, S) \in Int
<1>1. PICK sum \in [SUBSET S -> Int] : Sums(sum, f, S) /\ Total(f, S) = sum[S]
  BY TotalRecursion
<1> QED
  BY <1>1

\* Some element may be taken first.
LEMMA TotalSome ==
  ASSUME NEW S, IsFiniteSet(S), NEW f, \A x \in S : f[x] \in Int, S # {}
  PROVE  \E x \in S : Total(f, S) = f[x] + Total(f, S \ {x})
<1> DEFINE c == CHOOSE x \in S : TRUE
           R == S \ {c}
<1>1. c \in S
  OBVIOUS
<1>2. PICK sum \in [SUBSET S -> Int] : Sums(sum, f, S) /\ Total(f, S) = sum[S]
  BY TotalRecursion
<1>3. IsFiniteSet(R) /\ R \in SUBSET S
  BY FS_Subset
<1>4. sum[S] = f[c] + sum[R]
  BY <1>2 DEF Sums
<1> HIDE DEF c, R
<1>5. PICK less \in [SUBSET R -> Int] : Sums(less, f, R) /\ Total(f, R) = less[R]
  <2>1. \A x \in R : f[x] \in Int
    BY <1>3
  <2> QED
    BY <1>3, <2>1, TotalRecursion
<1>6. sum[R] = less[R]
  BY <1>2, <1>3, <1>5, SumsAgree
<1>7. Total(f, S) = f[c] + Total(f, S \ {c})
  BY <1>2, <1>4, <1>5, <1>6 DEF R
<1> QED
  BY <1>1, <1>7

\* And any other.
LEMMA TotalAny ==
  ASSUME NEW S, IsFiniteSet(S), NEW f, \A x \in S : f[x] \in Int, NEW y \in S
  PROVE  Total(f, S) = f[y] + Total(f, S \ {y})
<1> DEFINE Bad == {T \in SUBSET S : \E x \in T : Total(f, T) # f[x] + Total(f, T \ {x})}
<1>1. Bad = {}
  <2> SUFFICES ASSUME Bad # {} PROVE FALSE
    OBVIOUS
  <2>1. PICK T \in Bad : \A U \in Bad : U \subseteq T => U = T
    <3>1. Bad \in SUBSET SUBSET S
      OBVIOUS
    <3> HIDE DEF Bad
    <3> QED
      BY <3>1, SmallestSet
  <2>2. T \in SUBSET S
    BY <2>1
  <2>3. PICK x \in T : Total(f, T) # f[x] + Total(f, T \ {x})
    BY <2>1
  <2>4. \A U \in SUBSET S : IsFiniteSet(U) /\ (\A z \in U : f[z] \in Int) /\ Total(f, U) \in Int
    <3> SUFFICES ASSUME NEW U \in SUBSET S
                 PROVE  IsFiniteSet(U) /\ (\A z \in U : f[z] \in Int) /\ Total(f, U) \in Int
      OBVIOUS
    <3>1. IsFiniteSet(U)
      BY FS_Subset
    <3>2. \A z \in U : f[z] \in Int
      OBVIOUS
    <3> QED
      BY <3>1, <3>2, TotalInt
  <2>5. PICK c \in T : Total(f, T) = f[c] + Total(f, T \ {c})
    <3>1. IsFiniteSet(T) /\ (\A z \in T : f[z] \in Int) /\ T # {}
      BY <2>2, <2>3, <2>4
    <3> QED
      BY <3>1, TotalSome
  <2>6. c # x /\ c \in T \ {x} /\ x \in T \ {c}
    BY <2>3, <2>5
  <2>7. \A z \in T : \A w \in T \ {z} : Total(f, T \ {z}) = f[w] + Total(f, (T \ {z}) \ {w})
    <3> SUFFICES ASSUME NEW z \in T, NEW w \in T \ {z}
                 PROVE  Total(f, T \ {z}) = f[w] + Total(f, (T \ {z}) \ {w})
      OBVIOUS
    <3>1. T \ {z} \notin Bad
      <4>1. T \ {z} \subseteq T /\ T \ {z} # T
        OBVIOUS
      <4> HIDE DEF Bad
      <4> QED
        BY <2>1, <4>1
    <3>2. T \ {z} \in SUBSET S
      BY <2>2
    <3> QED
      BY <3>1, <3>2
  <2>8. Total(f, T \ {c}) = f[x] + Total(f, (T \ {c}) \ {x})
    BY <2>6, <2>7
  <2>9. Total(f, T \ {x}) = f[c] + Total(f, (T \ {x}) \ {c})
    BY <2>6, <2>7
  <2>10. (T \ {x}) \ {c} = (T \ {c}) \ {x}
    OBVIOUS
  <2>11. f[c] \in Int /\ f[x] \in Int /\ Total(f, (T \ {c}) \ {x}) \in Int
    BY <2>2, <2>4, <2>6
  <2> HIDE DEF Bad
  <2>12. Total(f, T \ {x}) = f[c] + Total(f, (T \ {c}) \ {x})
    BY <2>9, <2>10
  <2> QED
    BY <2>3, <2>5, <2>8, <2>11, <2>12
<1>2. S \in SUBSET S
  OBVIOUS
<1> QED
  BY <1>1, <1>2

\* What two functions agree on has one sum.
LEMMA TotalSame ==
  ASSUME NEW S, IsFiniteSet(S), NEW f, NEW g, \A x \in S : f[x] \in Int /\ g[x] = f[x]
  PROVE  Total(g, S) = Total(f, S)
<1> DEFINE Bad == {T \in SUBSET S : Total(g, T) # Total(f, T)}
<1>1. Bad = {}
  <2> SUFFICES ASSUME Bad # {} PROVE FALSE
    OBVIOUS
  <2>1. PICK T \in Bad : \A U \in Bad : U \subseteq T => U = T
    <3>1. Bad \in SUBSET SUBSET S
      OBVIOUS
    <3> HIDE DEF Bad
    <3> QED
      BY <3>1, SmallestSet
  <2>2. T \in SUBSET S /\ Total(g, T) # Total(f, T)
    BY <2>1
  <2>3. T # {}
    BY <2>2, TotalOfNone
  <2>4. PICK x \in T : TRUE
    BY <2>3
  <2>5. IsFiniteSet(T) /\ \A z \in T : f[z] \in Int /\ g[z] \in Int /\ g[z] = f[z]
    BY <2>2, FS_Subset
  <2>6. Total(f, T) = f[x] + Total(f, T \ {x})
    BY <2>5, TotalAny
  <2>7. Total(g, T) = g[x] + Total(g, T \ {x})
    BY <2>5, TotalAny
  <2>8. T \ {x} \notin Bad
    <3>1. T \ {x} \subseteq T /\ T \ {x} # T
      OBVIOUS
    <3> HIDE DEF Bad
    <3> QED
      BY <2>1, <3>1
  <2>9. Total(g, T \ {x}) = Total(f, T \ {x})
    BY <2>2, <2>8
  <2> QED
    BY <2>2, <2>5, <2>6, <2>7, <2>9
<1> QED
  BY <1>1

\* Sums are taken value by value.
LEMMA TotalPlus ==
  ASSUME NEW S, IsFiniteSet(S), NEW f, NEW g, NEW h,
         \A x \in S : f[x] \in Int /\ g[x] \in Int /\ h[x] = f[x] + g[x]
  PROVE  Total(h, S) = Total(f, S) + Total(g, S)
<1> DEFINE Bad == {T \in SUBSET S : Total(h, T) # Total(f, T) + Total(g, T)}
<1>1. Bad = {}
  <2> SUFFICES ASSUME Bad # {} PROVE FALSE
    OBVIOUS
  <2>1. PICK T \in Bad : \A U \in Bad : U \subseteq T => U = T
    <3>1. Bad \in SUBSET SUBSET S
      OBVIOUS
    <3> HIDE DEF Bad
    <3> QED
      BY <3>1, SmallestSet
  <2>2. T \in SUBSET S /\ Total(h, T) # Total(f, T) + Total(g, T)
    BY <2>1
  <2>3. T # {}
    <3>1. Total(h, {}) = 0 /\ Total(f, {}) = 0 /\ Total(g, {}) = 0
      BY TotalOfNone
    <3> QED
      BY <2>2, <3>1
  <2>4. PICK x \in T : TRUE
    BY <2>3
  <2>5. IsFiniteSet(T) /\ \A z \in T : f[z] \in Int /\ g[z] \in Int /\ h[z] \in Int /\ h[z] = f[z] + g[z]
    BY <2>2, FS_Subset
  <2>6. Total(f, T) = f[x] + Total(f, T \ {x})
    BY <2>5, TotalAny
  <2>7. Total(g, T) = g[x] + Total(g, T \ {x})
    BY <2>5, TotalAny
  <2>8. Total(h, T) = h[x] + Total(h, T \ {x})
    BY <2>5, TotalAny
  <2>9. T \ {x} \notin Bad
    <3>1. T \ {x} \subseteq T /\ T \ {x} # T
      OBVIOUS
    <3> HIDE DEF Bad
    <3> QED
      BY <2>1, <3>1
  <2>10. Total(h, T \ {x}) = Total(f, T \ {x}) + Total(g, T \ {x})
    BY <2>2, <2>9
  <2>11. IsFiniteSet(T \ {x}) /\ Total(f, T \ {x}) \in Int /\ Total(g, T \ {x}) \in Int
    BY <2>5, FS_Subset, TotalInt
  <2> HIDE DEF Bad
  <2> QED
    BY <2>2, <2>5, <2>6, <2>7, <2>8, <2>10, <2>11
<1> QED
  BY <1>1

\* A larger function has a larger sum.
LEMMA TotalAtMost ==
  ASSUME NEW S, IsFiniteSet(S), NEW f, NEW g,
         \A x \in S : f[x] \in Int /\ g[x] \in Int /\ f[x] <= g[x]
  PROVE  Total(f, S) <= Total(g, S)
<1> DEFINE Bad == {T \in SUBSET S : ~(Total(f, T) <= Total(g, T))}
<1>1. Bad = {}
  <2> SUFFICES ASSUME Bad # {} PROVE FALSE
    OBVIOUS
  <2>1. PICK T \in Bad : \A U \in Bad : U \subseteq T => U = T
    <3>1. Bad \in SUBSET SUBSET S
      OBVIOUS
    <3> HIDE DEF Bad
    <3> QED
      BY <3>1, SmallestSet
  <2>2. T \in SUBSET S /\ ~(Total(f, T) <= Total(g, T))
    BY <2>1
  <2>3. T # {}
    BY <2>2, TotalOfNone
  <2>4. PICK x \in T : TRUE
    BY <2>3
  <2>5. IsFiniteSet(T) /\ \A z \in T : f[z] \in Int /\ g[z] \in Int /\ f[z] <= g[z]
    BY <2>2, FS_Subset
  <2>6. Total(f, T) = f[x] + Total(f, T \ {x})
    BY <2>5, TotalAny
  <2>7. Total(g, T) = g[x] + Total(g, T \ {x})
    BY <2>5, TotalAny
  <2>8. T \ {x} \notin Bad
    <3>1. T \ {x} \subseteq T /\ T \ {x} # T
      OBVIOUS
    <3> HIDE DEF Bad
    <3> QED
      BY <2>1, <3>1
  <2>9. Total(f, T \ {x}) <= Total(g, T \ {x})
    BY <2>2, <2>8
  <2>10. IsFiniteSet(T \ {x}) /\ Total(f, T \ {x}) \in Int /\ Total(g, T \ {x}) \in Int
    BY <2>5, FS_Subset, TotalInt
  <2> HIDE DEF Bad
  <2> QED
    BY <2>2, <2>5, <2>6, <2>7, <2>9, <2>10
<1> QED
  BY <1>1

\* The sum of zeros is zero.
LEMMA TotalZero ==
  ASSUME NEW S, IsFiniteSet(S), NEW f, \A x \in S : f[x] = 0
  PROVE  Total(f, S) = 0
<1>1. Total(f, S) \in Int
  BY TotalInt
<1>2. \A x \in S : f[x] \in Int /\ f[x] \in Int /\ f[x] = f[x] + f[x]
  OBVIOUS
<1>3. Total(f, S) = Total(f, S) + Total(f, S)
  BY <1>2, TotalPlus
<1>4. \A n \in Int : n = n + n => n = 0
  OBVIOUS
<1> QED
  BY <1>1, <1>3, <1>4

\* A sum of natural numbers is one, and no smaller than any of them.
LEMMA TotalNat ==
  ASSUME NEW S, IsFiniteSet(S), NEW f, \A x \in S : f[x] \in Nat
  PROVE  Total(f, S) \in Nat /\ \A x \in S : f[x] <= Total(f, S)
<1> DEFINE Zero == [x \in S |-> 0]
<1>1. \A x \in S : f[x] \in Int /\ Zero[x] = 0 /\ Zero[x] <= f[x]
  OBVIOUS
<1> HIDE DEF Zero
<1>2. \A T \in SUBSET S : IsFiniteSet(T) /\ Total(f, T) \in Int /\ 0 <= Total(f, T)
  <2> SUFFICES ASSUME NEW T \in SUBSET S
               PROVE  IsFiniteSet(T) /\ Total(f, T) \in Int /\ 0 <= Total(f, T)
    OBVIOUS
  <2>1. IsFiniteSet(T)
    BY FS_Subset
  <2>2. Total(Zero, T) = 0
    BY <1>1, <2>1, TotalZero
  <2>3. Total(Zero, T) <= Total(f, T)
    <3>1. \A x \in T : Zero[x] \in Int /\ f[x] \in Int /\ Zero[x] <= f[x]
      BY <1>1
    <3> QED
      BY <2>1, <3>1, TotalAtMost
  <2>4. Total(f, T) \in Int
    BY <1>1, <2>1, TotalInt
  <2> QED
    BY <2>1, <2>2, <2>3, <2>4
<1>3. ASSUME NEW x \in S PROVE f[x] <= Total(f, S)
  <2>1. Total(f, S) = f[x] + Total(f, S \ {x})
    BY <1>1, TotalAny
  <2>2. Total(f, S \ {x}) \in Int /\ 0 <= Total(f, S \ {x})
    BY <1>2
  <2> QED
    BY <1>1, <2>1, <2>2
<1> QED
  BY <1>2, <1>3

\* When one value changes, the sum changes by as much.
LEMMA TotalChange ==
  ASSUME NEW S, IsFiniteSet(S), NEW f, NEW g, NEW y \in S, \A x \in S : f[x] \in Int /\ g[x] \in Int,
         \A x \in S : x # y => g[x] = f[x]
  PROVE  Total(g, S) = Total(f, S) - f[y] + g[y]
<1>1. Total(f, S) = f[y] + Total(f, S \ {y})
  BY TotalAny
<1>2. Total(g, S) = g[y] + Total(g, S \ {y})
  BY TotalAny
<1>3. IsFiniteSet(S \ {y})
  BY FS_Subset
<1>4. Total(g, S \ {y}) = Total(f, S \ {y})
  BY <1>3, TotalSame
<1>5. Total(f, S \ {y}) \in Int
  BY <1>3, TotalInt
<1> QED
  BY <1>1, <1>2, <1>4, <1>5

\* An element more adds its value.
LEMMA TotalAdds ==
  ASSUME NEW S, IsFiniteSet(S), NEW f, NEW y, y \notin S, \A x \in S \cup {y} : f[x] \in Int
  PROVE  Total(f, S \cup {y}) = Total(f, S) + f[y]
<1>1. IsFiniteSet(S \cup {y})
  BY FS_AddElement
<1>2. (S \cup {y}) \ {y} = S
  OBVIOUS
<1>3. Total(f, S \cup {y}) = f[y] + Total(f, (S \cup {y}) \ {y})
  BY <1>1, TotalAny
<1>4. Total(f, S) \in Int /\ f[y] \in Int
  BY TotalInt
<1>5. Total(f, S \cup {y}) = f[y] + Total(f, S)
  BY <1>2, <1>3
<1>6. \A m, n \in Int : m + n = n + m
  OBVIOUS
<1> QED
  BY <1>4, <1>5, <1>6

\* What lies outside a part counts as zero.
LEMMA TotalOver ==
  ASSUME NEW S, IsFiniteSet(S), NEW T \in SUBSET S, NEW f, NEW g,
         \A x \in T : f[x] \in Int /\ g[x] = f[x], \A x \in S \ T : g[x] = 0
  PROVE  Total(g, S) = Total(f, T)
<1> DEFINE Bad == {U \in SUBSET S : Total(g, U) # Total(f, U \cap T)}
<1>1. Bad = {}
  <2> SUFFICES ASSUME Bad # {} PROVE FALSE
    OBVIOUS
  <2>1. PICK U \in Bad : \A V \in Bad : V \subseteq U => V = U
    <3>1. Bad \in SUBSET SUBSET S
      OBVIOUS
    <3> HIDE DEF Bad
    <3> QED
      BY <3>1, SmallestSet
  <2>2. U \in SUBSET S /\ Total(g, U) # Total(f, U \cap T)
    BY <2>1
  <2>3. U # {}
    <3>1. U = {} => U \cap T = {}
      OBVIOUS
    <3> QED
      BY <2>2, <3>1, TotalOfNone
  <2>4. PICK x \in U : TRUE
    BY <2>3
  <2>5. IsFiniteSet(U) /\ \A z \in U : g[z] \in Int
    BY <2>2, FS_Subset
  <2>6. Total(g, U) = g[x] + Total(g, U \ {x})
    BY <2>5, TotalAny
  <2>7. Total(g, U \ {x}) = Total(f, (U \ {x}) \cap T)
    <3>1. U \ {x} \notin Bad
      <4>1. U \ {x} \subseteq U /\ U \ {x} # U
        OBVIOUS
      <4> HIDE DEF Bad
      <4> QED
        BY <2>1, <4>1
    <3> QED
      BY <2>2, <3>1
  <2>8. IsFiniteSet(U \cap T) /\ IsFiniteSet((U \ {x}) \cap T)
    BY <2>5, FS_Subset
  <2>9. Total(f, (U \ {x}) \cap T) \in Int
    BY <2>8, TotalInt
  <2> HIDE DEF Bad
  <2>10. CASE x \in T
    <3>1. (U \cap T) \ {x} = (U \ {x}) \cap T
      OBVIOUS
    <3>2. Total(f, U \cap T) = f[x] + Total(f, (U \cap T) \ {x})
      BY <2>8, <2>10, TotalAny
    <3>3. Total(f, U \cap T) = f[x] + Total(f, (U \ {x}) \cap T)
      BY <3>1, <3>2
    <3> QED
      BY <2>2, <2>6, <2>7, <2>9, <2>10, <3>3
  <2>11. CASE x \notin T
    <3>1. U \cap T = (U \ {x}) \cap T
      BY <2>11
    <3>2. g[x] = 0
      BY <2>2, <2>11
    <3>3. Total(f, U \cap T) = Total(f, (U \ {x}) \cap T)
      BY <3>1
    <3> QED
      BY <2>2, <2>6, <2>7, <2>9, <3>2, <3>3
  <2> QED
    BY <2>10, <2>11
<1>2. S \cap T = T
  OBVIOUS
<1> QED
  BY <1>1, <1>2

\* A sum over one set and a disjoint other.
LEMMA TotalBoth ==
  ASSUME NEW S, IsFiniteSet(S), NEW T, IsFiniteSet(T), S \cap T = {}, NEW f, \A x \in S \cup T : f[x] \in Int
  PROVE  Total(f, S \cup T) = Total(f, S) + Total(f, T)
<1> DEFINE g == [x \in S \cup T |-> IF x \in S THEN f[x] ELSE 0]
           h == [x \in S \cup T |-> IF x \in T THEN f[x] ELSE 0]
<1>1. IsFiniteSet(S \cup T)
  BY FS_Union
<1>2. \A x \in S \cup T : g[x] \in Int /\ h[x] \in Int /\ f[x] = g[x] + h[x]
  OBVIOUS
<1>3. (\A x \in S : f[x] \in Int /\ g[x] = f[x]) /\ \A x \in (S \cup T) \ S : g[x] = 0
  OBVIOUS
<1>4. (\A x \in T : f[x] \in Int /\ h[x] = f[x]) /\ \A x \in (S \cup T) \ T : h[x] = 0
  OBVIOUS
<1> HIDE DEF g, h
<1>5. Total(f, S \cup T) = Total(g, S \cup T) + Total(h, S \cup T)
  BY <1>1, <1>2, TotalPlus
<1>6. S \in SUBSET (S \cup T) /\ T \in SUBSET (S \cup T)
  OBVIOUS
<1>7. Total(g, S \cup T) = Total(f, S)
  BY <1>1, <1>3, <1>6, TotalOver
<1>8. Total(h, S \cup T) = Total(f, T)
  BY <1>1, <1>4, <1>6, TotalOver
<1> QED
  BY <1>5, <1>7, <1>8

\* A sum may be taken over the names of the elements.
LEMMA TotalNamed ==
  ASSUME NEW S, IsFiniteSet(S), NEW e, NEW f, NEW g,
         \A x \in S, y \in S : e[x] = e[y] => x = y,
         \A x \in S : g[e[x]] \in Int /\ f[x] = g[e[x]]
  PROVE  IsFiniteSet({e[x] : x \in S}) /\ Total(g, {e[x] : x \in S}) = Total(f, S)
<1> DEFINE Im(T) == {e[x] : x \in T}
           Bad == {T \in SUBSET S : ~(IsFiniteSet(Im(T)) /\ Total(g, Im(T)) = Total(f, T))}
<1>1. Bad = {}
  <2> SUFFICES ASSUME Bad # {} PROVE FALSE
    OBVIOUS
  <2>1. PICK T \in Bad : \A U \in Bad : U \subseteq T => U = T
    <3>1. Bad \in SUBSET SUBSET S
      OBVIOUS
    <3> HIDE DEF Bad
    <3> QED
      BY <3>1, SmallestSet
  <2>2. T \in SUBSET S /\ ~(IsFiniteSet(Im(T)) /\ Total(g, Im(T)) = Total(f, T))
    BY <2>1
  <2>3. T # {}
    <3>1. ASSUME T = {} PROVE Im(T) = {}
      BY <3>1
    <3> QED
      BY <2>2, <3>1, TotalOfNone, FS_EmptySet
  <2>4. PICK x \in T : TRUE
    BY <2>3
  <2>5. IsFiniteSet(T) /\ \A z \in T : f[z] \in Int
    BY <2>2, FS_Subset
  <2>6. Total(f, T) = f[x] + Total(f, T \ {x})
    BY <2>5, TotalAny
  <2>7. IsFiniteSet(Im(T \ {x})) /\ Total(g, Im(T \ {x})) = Total(f, T \ {x})
    <3>1. T \ {x} \notin Bad
      <4>1. T \ {x} \subseteq T /\ T \ {x} # T
        OBVIOUS
      <4> HIDE DEF Bad
      <4> QED
        BY <2>1, <4>1
    <3> QED
      BY <2>2, <3>1
  <2>8. Im(T) = Im(T \ {x}) \cup {e[x]} /\ e[x] \notin Im(T \ {x})
    BY <2>2
  <2>9. \A y \in Im(T \ {x}) \cup {e[x]} : g[y] \in Int
    BY <2>2
  <2> HIDE DEF Bad, Im
  <2>10. Total(g, Im(T)) = Total(g, Im(T \ {x})) + g[e[x]]
    <3> DEFINE R == Im(T \ {x})
               y == e[x]
    <3>1. IsFiniteSet(R) /\ y \notin R /\ \A z \in R \cup {y} : g[z] \in Int
      BY <2>7, <2>8, <2>9
    <3>2. Im(T) = R \cup {y}
      BY <2>8
    <3> HIDE DEF R, y
    <3>3. ASSUME NEW A, NEW b, IsFiniteSet(A), b \notin A, \A z \in A \cup {b} : g[z] \in Int
          PROVE  Total(g, A \cup {b}) = Total(g, A) + g[b]
      BY <3>3, TotalAdds
    <3>4. Total(g, R \cup {y}) = Total(g, R) + g[y]
      BY <3>1, <3>3
    <3> QED
      BY <3>2, <3>4 DEF R, y
  <2>11. IsFiniteSet(Im(T))
    BY <2>7, <2>8, FS_AddElement
  <2>12. Total(f, T \ {x}) \in Int /\ f[x] \in Int /\ f[x] = g[e[x]]
    <3>1. IsFiniteSet(T \ {x})
      BY <2>5, FS_Subset
    <3> QED
      BY <2>2, <2>5, <3>1, TotalInt
  <2>13. Total(f, T) = Total(g, Im(T))
    BY <2>6, <2>7, <2>10, <2>12
  <2> QED
    BY <2>2, <2>11, <2>13
<1>2. S \in SUBSET S
  OBVIOUS
<1> QED
  BY <1>1, <1>2
================================================================================
