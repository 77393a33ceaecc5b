-------------------------- MODULE MetricStore_proofs --------------------------
(***************************************************************************)
(* Proofs about MetricStore: what the pages show of the stored samples,    *)
(* for every fleet, every device, every work done, every window of the     *)
(* charts, and any number of reboots, reloaded drivers, lost samples and   *)
(* wrong clocks.                                                           *)
(***************************************************************************)
EXTENDS MetricStore, FiniteSetTheorems, WellFoundedInduction, TLAPS

-----------------------------------------------------------------------------
(* Numbers and finite sets *)

(* A set of natural numbers has a least element. *)
LEMMA LeastOfNats ==
    ASSUME NEW S, S \subseteq Nat, S # {}
    PROVE  Min(S) \in S /\ \A y \in S : Min(S) <= y
<1>1. \E x \in S : \A y \in S : ~(<<y, x>> \in OpToRel(<, Nat))
  BY NatLessThanWellFounded, WFMin
<1>2. \A x, y \in Nat : y < x => <<y, x>> \in OpToRel(<, Nat)
  BY Zenon DEF OpToRel
<1>3. \E x \in S : \A y \in S : ~(y < x)
  BY <1>1, <1>2, Zenon
<1>4. \E x \in S : \A y \in S : x =< y
  BY <1>3
<1> QED
  BY <1>4 DEF Min

\* What holds of the empty set, and of a set with one more member, holds of every
\* finite set; F is the family of the sets it holds of.
LEMMA FiniteInduction ==
    ASSUME NEW S, IsFiniteSet(S), NEW F, {} \in F,
           ASSUME NEW T \in SUBSET S, T \in F, NEW x \in S \ T
           PROVE  T \cup {x} \in F
    PROVE  S \in F
<1> SUFFICES ASSUME S \notin F PROVE FALSE
  OBVIOUS
<1> DEFINE N == {n \in Nat : \E T \in SUBSET S : Cardinality(T) = n /\ T \notin F}
<1>1. \A T \in SUBSET S : IsFiniteSet(T) /\ Cardinality(T) \in Nat
  BY FS_Subset, FS_CardinalityType
<1>2. Cardinality(S) \in N
  BY <1>1
<1>3. N \subseteq Nat /\ N # {}
  BY <1>2
<1> HIDE DEF N
<1>4. PICK m \in N : \A n \in N : m <= n
  BY <1>3, LeastOfNats
<1>5. PICK T \in SUBSET S : Cardinality(T) = m /\ T \notin F
  BY <1>4 DEF N
<1>6. PICK x \in T : TRUE
  BY <1>5
<1>7. T \ {x} \in SUBSET S /\ x \in S \ (T \ {x}) /\ (T \ {x}) \cup {x} = T
  BY <1>5, <1>6
<1>8. IsFiniteSet(T) /\ Cardinality(T) \in Nat
  BY <1>1, <1>5
<1>9. Cardinality(T \ {x}) = m - 1
  BY <1>5, <1>6, <1>8, FS_RemoveElement
<1>10. Cardinality(T \ {x}) \in Nat
  BY <1>1, <1>7
<1>11. m - 1 \notin N
  BY <1>3, <1>4, <1>5, <1>8
<1>12. T \ {x} \in F
  BY <1>7, <1>9, <1>10, <1>11 DEF N
<1>13. (T \ {x}) \cup {x} \in F
  BY <1>7, <1>12
<1> QED
  BY <1>5, <1>7, <1>13

\* A finite set of numbers has a greatest and a least member.
LEMMA Extremes ==
    ASSUME NEW S, IsFiniteSet(S), S \subseteq Int, S # {}
    PROVE  /\ Max(S) \in S /\ \A y \in S : Max(S) >= y
           /\ Min(S) \in S /\ \A y \in S : Min(S) <= y
<1> DEFINE F == {T \in SUBSET S : T # {} => /\ \E x \in T : \A y \in T : x >= y
                                            /\ \E x \in T : \A y \in T : x =< y}
<1>1. {} \in F
  OBVIOUS
<1>2. ASSUME NEW T \in SUBSET S, T \in F, NEW a \in S \ T
      PROVE  T \cup {a} \in F
  <2>1. CASE T = {}
    BY <2>1
  <2>2. CASE T # {}
    <3>1. PICK x \in T : \A y \in T : x >= y
      BY <1>2, <2>2
    <3>2. PICK z \in T : \A y \in T : z =< y
      BY <1>2, <2>2
    <3>3. \A y \in T \cup {a} : y \in Int
      OBVIOUS
    <3> HIDE DEF F
    <3>4. \E u \in T \cup {a} : \A y \in T \cup {a} : u >= y
      <4>1. CASE a >= x
        BY <3>1, <3>3, <4>1
      <4>2. CASE ~(a >= x)
        BY <3>1, <3>3, <4>2
      <4> QED
        BY <4>1, <4>2
    <3>5. \E u \in T \cup {a} : \A y \in T \cup {a} : u =< y
      <4>1. CASE a <= z
        BY <3>2, <3>3, <4>1
      <4>2. CASE ~(a <= z)
        BY <3>2, <3>3, <4>2
      <4> QED
        BY <4>1, <4>2
    <3> QED
      BY <3>4, <3>5 DEF F
  <2> QED
    BY <2>1, <2>2
<1>3. S \in F
  <2> HIDE DEF F
  <2> QED
    BY <1>1, <1>2, FiniteInduction
<1>4. \E x \in S : \A y \in S : x >= y
  BY <1>3
<1>5. \E x \in S : \A y \in S : x =< y
  BY <1>3
<1> QED
  BY <1>4, <1>5 DEF Max, Min

\* The values of a function on a finite set are finitely many.
LEMMA FiniteImage ==
    ASSUME NEW S, IsFiniteSet(S), NEW f, DOMAIN f = S
    PROVE  IsFiniteSet({f[x] : x \in S})
<1> DEFINE g == [x \in S |-> f[x]]
<1>1. g \in Surjection(S, {f[x] : x \in S})
  BY DEF Surjection
<1> QED
  BY <1>1, FS_Surjection

\* A sequence is determined by its first value and what follows a value.
LEMMA Recursion ==
    ASSUME NEW V, NEW a \in V, NEW g \in [Nat -> [V -> V]]
    PROVE  \E f \in [Nat -> V] : f = [n \in Nat |-> IF n = 0 THEN a ELSE g[n][f[n - 1]]]
<1> DEFINE Ok(n, f) == f[0] = a /\ \A k \in 1..n : f[k] = g[k][f[k - 1]]
           Missing == {n \in Nat : ~\E f \in [0..n -> V] : Ok(n, f)}
<1>1. \A n \in Nat : \E f \in [0..n -> V] : Ok(n, f)
  <2> SUFFICES ASSUME Missing # {} PROVE FALSE
    OBVIOUS
  <2>1. Missing \subseteq Nat
    OBVIOUS
  <2>2. PICK m \in Missing : \A n \in Missing : m <= n
    <3> HIDE DEF Missing
    <3> QED
      BY <2>1, LeastOfNats
  <2>3. m \in Nat /\ ~\E f \in [0..m -> V] : Ok(m, f)
    BY <2>2
  <2>4. CASE m = 0
    <3>1. [k \in 0..0 |-> a] \in [0..0 -> V] /\ Ok(0, [k \in 0..0 |-> a])
      BY SMT
    <3> QED
      BY <2>3, <2>4, <3>1
  <2>5. CASE m # 0
    <3>1. m - 1 \in Nat /\ m - 1 \notin Missing
      <4> HIDE DEF Missing
      <4> QED
        BY <2>2, <2>3, <2>5
    <3>2. PICK f \in [0..(m - 1) -> V] : Ok(m - 1, f)
      BY <3>1
    <3> DEFINE h == [k \in 0..m |-> IF k = m THEN g[m][f[m - 1]] ELSE f[k]]
    <3>3. f[m - 1] \in V /\ m \in Nat
      BY <2>3, <3>1, <3>2
    <3>4. h \in [0..m -> V]
      BY <2>3, <3>2, <3>3
    <3>5. h[0] = a
      BY <2>3, <2>5, <3>2
    <3>6. ASSUME NEW k \in 1..m PROVE h[k] = g[k][h[k - 1]]
      <4>0. k \in 0..m /\ k - 1 \in 0..m /\ k - 1 # m
        BY <2>3
      <4>1. CASE k = m
        BY <4>0, <4>1
      <4>2. CASE k # m
        <5>1. k \in 1..(m - 1)
          BY <2>3, <4>2
        <5> QED
          BY <3>2, <4>0, <4>2, <5>1
      <4> QED
        BY <4>1, <4>2
    <3>7. Ok(m, h)
      <4> HIDE DEF h
      <4> QED
        BY <3>5, <3>6
    <3> QED
      BY <2>3, <3>4, <3>7
  <2> QED
    BY <2>4, <2>5
<1>2. ASSUME NEW m \in Nat, NEW n \in Nat, NEW f, NEW h, Ok(m, f), Ok(n, h), m <= n
      PROVE  f[m] = h[m]
  <2> DEFINE Bad == {k \in 0..m : f[k] # h[k]}
  <2> SUFFICES ASSUME Bad # {} PROVE FALSE
    OBVIOUS
  <2>1. Bad \subseteq Nat
    OBVIOUS
  <2>2. PICK k \in Bad : \A j \in Bad : k <= j
    <3> HIDE DEF Bad
    <3> QED
      BY <2>1, LeastOfNats
  <2>3. k \in 0..m /\ f[k] # h[k]
    BY <2>2
  <2>4. k # 0
    BY <1>2, <2>3
  <2>5. k - 1 \in 0..m /\ k - 1 \notin Bad /\ k \in 1..m /\ k \in 1..n
    <3> HIDE DEF Bad
    <3> QED
      BY <1>2, <2>2, <2>3, <2>4
  <2>6. f[k - 1] = h[k - 1]
    BY <2>5
  <2> QED
    BY <1>2, <2>3, <2>5, <2>6
<1> DEFINE best[n \in Nat] == CHOOSE f \in [0..n -> V] : Ok(n, f)
           f == [n \in Nat |-> best[n][n]]
<1>3. ASSUME NEW n \in Nat PROVE best[n] \in [0..n -> V] /\ Ok(n, best[n])
  BY <1>1
<1> HIDE DEF best
<1>4. f \in [Nat -> V]
  BY <1>3
<1>5. ASSUME NEW n \in Nat PROVE f[n] = IF n = 0 THEN a ELSE g[n][f[n - 1]]
  <2>1. CASE n = 0
    BY <1>3, <2>1
  <2>2. CASE n # 0
    <3>1. n - 1 \in Nat /\ n \in 1..n /\ n - 1 <= n
      BY <2>2
    <3>2. best[n][n] = g[n][best[n][n - 1]]
      BY <1>3, <3>1
    <3>3. Ok(n - 1, best[n - 1]) /\ Ok(n, best[n])
      BY <1>3, <3>1
    <3>4. best[n - 1][n - 1] = best[n][n - 1]
      <4> HIDE DEF Ok
      <4> QED
        BY <1>2, <3>1, <3>3
    <3> QED
      BY <2>2, <3>1, <3>2, <3>4
  <2> QED
    BY <2>1, <2>2
<1> HIDE DEF f
<1>6. f = [n \in Nat |-> IF n = 0 THEN a ELSE g[n][f[n - 1]]]
  <2>1. f = [n \in Nat |-> f[n]]
    BY <1>4
  <2> QED
    BY <1>5, <2>1
<1> QED
  BY <1>4, <1>6

-----------------------------------------------------------------------------
(* Sums.  MapThenSumSet adds up the values of a finite set one by one, taking  *)
(* whichever element CHOOSE finds first; the sum does not depend on that.      *)

Pick(T) == CHOOSE x \in T : TRUE

\* g adds up the values of f on every subset of U.
SumsUp(g, f, U) ==
    \A T \in SUBSET U : g[T] = IF T = {} THEN 0 ELSE f[Pick(T)] + g[T \ {Pick(T)}]

(* Pick picks an element. *)
LEMMA PickIn == ASSUME NEW T, T # {} PROVE Pick(T) \in T
BY DEF Pick

(* There is a function that sums up every subset, element by element. *)
LEMMA SumsExist ==
    ASSUME NEW U, IsFiniteSet(U), NEW f \in [U -> Int]
    PROVE  \E g \in [SUBSET U -> Int] : SumsUp(g, f, U)
<1> DEFINE Small(n) == {T \in SUBSET U : Cardinality(T) <= n}
           Ok(g, n) == \A T \in Small(n) :
                          g[T] = IF T = {} THEN 0 ELSE f[Pick(T)] + g[T \ {Pick(T)}]
           Missing == {n \in Nat : ~\E g \in [Small(n) -> Int] : Ok(g, n)}
<1>1. \A T \in SUBSET U : IsFiniteSet(T) /\ Cardinality(T) \in Nat /\ Cardinality(T) <= Cardinality(U)
  BY FS_Subset, FS_CardinalityType
<1>2. ASSUME NEW T \in SUBSET U, T # {}
      PROVE  /\ Pick(T) \in U /\ T \ {Pick(T)} \in SUBSET U
             /\ Cardinality(T \ {Pick(T)}) = Cardinality(T) - 1
  <2>1. Pick(T) \in T
    BY <1>2, PickIn
  <2>2. Cardinality(T \ {Pick(T)}) = Cardinality(T) - 1
    BY <1>1, <2>1, FS_RemoveElement
  <2> QED
    BY <2>1, <2>2
<1>3. Missing = {}
  <2> SUFFICES ASSUME Missing # {} PROVE FALSE
    OBVIOUS
  <2>1. PICK m \in Missing : \A n \in Missing : m <= n
    <3>1. Missing \subseteq Nat
      OBVIOUS
    <3> HIDE DEF Missing
    <3> QED
      BY <3>1, LeastOfNats
  <2>2. m \in Nat /\ ~\E g \in [Small(m) -> Int] : Ok(g, m)
    BY <2>1
  <2>3. CASE m = 0
    <3>1. \A T \in Small(0) : T = {}
      <4> TAKE T \in Small(0)
      <4>1. IsFiniteSet(T) /\ Cardinality(T) = 0
        BY <1>1
      <4> QED
        BY <4>1, FS_EmptySet
    <3> DEFINE z == [T \in Small(0) |-> 0]
    <3>2. z \in [Small(0) -> Int]
      OBVIOUS
    <3>3. Ok(z, 0)
      <4> HIDE DEF Small
      <4> QED
        BY <3>1
    <3> QED
      BY <2>2, <2>3, <3>2, <3>3
  <2>4. CASE m # 0
    <3>1. m - 1 \in Nat /\ m - 1 \notin Missing
      <4> HIDE DEF Missing
      <4> QED
        BY <2>1, <2>2, <2>4
    <3>2. PICK g \in [Small(m - 1) -> Int] : Ok(g, m - 1)
      BY <3>1
    <3> DEFINE h == [T \in Small(m) |->
                        IF T = {} THEN 0 ELSE f[Pick(T)] + g[T \ {Pick(T)}]]
    <3>3. ASSUME NEW T \in Small(m), T # {}
          PROVE  T \ {Pick(T)} \in Small(m - 1) /\ T \ {Pick(T)} \in Small(m) /\ Pick(T) \in U
      <4>1. /\ T \in SUBSET U /\ Cardinality(T) <= m /\ Cardinality(T) \in Nat
            /\ Pick(T) \in U /\ T \ {Pick(T)} \in SUBSET U
            /\ Cardinality(T \ {Pick(T)}) = Cardinality(T) - 1
        BY <1>1, <1>2, <3>3
      <4>2. Cardinality(T \ {Pick(T)}) <= m - 1 /\ Cardinality(T \ {Pick(T)}) <= m
        BY <2>2, <4>1
      <4> QED
        BY <4>1, <4>2
    <3>4. ASSUME NEW T \in Small(m - 1) PROVE T \in Small(m)
      <4>1. T \in SUBSET U /\ Cardinality(T) <= m - 1 /\ Cardinality(T) \in Nat
        BY <1>1, <3>4
      <4>2. Cardinality(T) <= m
        BY <2>2, <4>1
      <4> QED
        BY <4>1, <4>2
    <3> HIDE DEF Small
    <3>5. h \in [Small(m) -> Int]
      <4>1. ASSUME NEW T \in Small(m)
            PROVE  (IF T = {} THEN 0 ELSE f[Pick(T)] + g[T \ {Pick(T)}]) \in Int
        BY <3>2, <3>3
      <4> QED
        BY <4>1
    <3>6. \A T \in Small(m - 1) : h[T] = g[T]
      BY <3>2, <3>4
    <3>7. Ok(h, m)
      <4>1. ASSUME NEW T \in Small(m)
            PROVE  h[T] = IF T = {} THEN 0 ELSE f[Pick(T)] + h[T \ {Pick(T)}]
        <5>1. h[T] = IF T = {} THEN 0 ELSE f[Pick(T)] + g[T \ {Pick(T)}]
          OBVIOUS
        <5> HIDE DEF h
        <5> QED
          BY <3>3, <3>6, <5>1
      <4> QED
        BY <4>1
    <3> QED
      BY <2>2, <3>5, <3>7
  <2> QED
    BY <2>3, <2>4
<1>4. Cardinality(U) \in Nat
  BY <1>1
<1>5. PICK g \in [Small(Cardinality(U)) -> Int] : Ok(g, Cardinality(U))
  BY <1>3, <1>4
<1>6. Small(Cardinality(U)) = SUBSET U
  BY <1>1
<1> QED
  BY <1>5, <1>6 DEF SumsUp

(* Two functions that sum up agree, so the order does not matter. *)
LEMMA SumsUnique ==
    ASSUME NEW U, IsFiniteSet(U), NEW V \in SUBSET U, NEW f, NEW g, NEW h,
           SumsUp(g, f, U), SumsUp(h, f, V)
    PROVE  g[V] = h[V]
<1> DEFINE Bad == {n \in Nat : \E T \in SUBSET V : Cardinality(T) = n /\ g[T] # h[T]}
<1>1. \A T \in SUBSET V : IsFiniteSet(T) /\ Cardinality(T) \in Nat
  BY FS_Subset, FS_CardinalityType
<1> SUFFICES ASSUME g[V] # h[V] PROVE FALSE
  OBVIOUS
<1>2. Cardinality(V) \in Bad
  BY <1>1
<1>3. Bad \subseteq Nat
  OBVIOUS
<1> HIDE DEF Bad
<1>4. PICK m \in Bad : \A n \in Bad : m <= n
  BY <1>2, <1>3, LeastOfNats
<1>5. PICK T \in SUBSET V : Cardinality(T) = m /\ g[T] # h[T]
  BY <1>4 DEF Bad
<1>6. T # {}
  BY <1>5 DEF SumsUp
<1>7. Pick(T) \in T
  BY <1>6, PickIn
<1>8. PICK R \in SUBSET V : R = T \ {Pick(T)}
  BY <1>5
<1>9. Cardinality(R) = m - 1 /\ Cardinality(R) \in Nat
  BY <1>1, <1>5, <1>7, <1>8, FS_RemoveElement
<1>10. m - 1 \notin Bad
  BY <1>3, <1>4
<1>11. g[R] = h[R]
  BY <1>9, <1>10 DEF Bad
<1>12. g[T] = f[Pick(T)] + g[R] /\ h[T] = f[Pick(T)] + h[R]
  BY <1>5, <1>6, <1>8 DEF SumsUp
<1> QED
  BY <1>5, <1>11, <1>12

\* The total of a function is its sum.
LEMMA SumIs ==
    ASSUME NEW U, IsFiniteSet(U), NEW f \in [U -> Int], NEW g, SumsUp(g, f, U)
    PROVE  Total(f) = g[U]
<1> DEFINE Body(h) == [T \in SUBSET U |-> IF T = {} THEN 0 ELSE f[Pick(T)] + h[T \ {Pick(T)}]]
           c == CHOOSE h : h = Body(h)
<1>0. Total(f) = MapThenSumSet(LAMBDA x : f[x], U)
  <2>1. DOMAIN f = U
    OBVIOUS
  <2> QED
    BY <2>1 DEF Total
<1>1. Total(f) = c[U]
  BY <1>0 DEF MapThenSumSet, MapThenFoldSet, Pick
<1>2. PICK k \in [SUBSET U -> Int] : SumsUp(k, f, U)
  BY SumsExist
<1>3. k = Body(k)
  <2>1. k = [T \in SUBSET U |-> k[T]]
    OBVIOUS
  <2> QED
    BY <1>2, <2>1 DEF SumsUp
<1>4. c = Body(c)
  <2> HIDE DEF Body
  <2> QED
    BY <1>3
<1> HIDE DEF c
<1>5. SumsUp(c, f, U)
  BY <1>4 DEF SumsUp
<1>6. U \in SUBSET U
  OBVIOUS
<1>7. c[U] = g[U]
  BY <1>5, <1>6, SumsUnique
<1> QED
  BY <1>1, <1>7

\* The sum over every subset of U, and the sum with one more element.
LEMMA Sums ==
    ASSUME NEW U, IsFiniteSet(U), NEW f \in [U -> Int]
    PROVE  \E g \in [SUBSET U -> Int] :
              /\ g[{}] = 0
              /\ \A T \in SUBSET U : \A x \in U \ T : g[T \cup {x}] = f[x] + g[T]
              /\ g[U] = Total(f)
<1>1. PICK g \in [SUBSET U -> Int] : SumsUp(g, f, U)
  BY SumsExist
<1>2. g[{}] = 0
  BY <1>1 DEF SumsUp
<1>3. g[U] = Total(f)
  BY <1>1, SumIs
<1> DEFINE Bad == {n \in Nat : \E T \in SUBSET U : \E x \in T :
                                   Cardinality(T) = n /\ g[T] # f[x] + g[T \ {x}]}
<1>4. \A T \in SUBSET U : IsFiniteSet(T) /\ Cardinality(T) \in Nat
  BY FS_Subset, FS_CardinalityType
<1>5. Bad = {}
  <2> SUFFICES ASSUME Bad # {} PROVE FALSE
    OBVIOUS
  <2>1. Bad \subseteq Nat
    OBVIOUS
  <2>2. PICK m \in Bad : \A n \in Bad : m <= n
    <3> HIDE DEF Bad
    <3> QED
      BY <2>1, LeastOfNats
  <2>0. PICK T \in SUBSET U : \E x \in T : Cardinality(T) = m /\ g[T] # f[x] + g[T \ {x}]
    BY <2>2
  <2>3. PICK x \in T : Cardinality(T) = m /\ g[T] # f[x] + g[T \ {x}]
    BY <2>0
  <2>4. PICK p \in T : p = Pick(T)
    BY <2>3, PickIn
  <2>5. g[T] = f[p] + g[T \ {p}]
    BY <1>1, <2>3, <2>4 DEF SumsUp
  <2>6. x # p
    BY <2>3, <2>5
  <2>7. ASSUME NEW y \in T, NEW z \in T, y # z PROVE g[T \ {y}] = f[z] + g[(T \ {y}) \ {z}]
    <3>1. T \ {y} \in SUBSET U /\ z \in T \ {y}
      BY <2>7
    <3>2. Cardinality(T \ {y}) = m - 1 /\ m - 1 \in Nat /\ m \in Nat
      BY <1>4, <2>3, <3>1, FS_RemoveElement
    <3>3. m - 1 \notin Bad
      <4> HIDE DEF Bad
      <4> QED
        BY <2>2, <3>2
    <3> QED
      BY <3>1, <3>2, <3>3
  <2> DEFINE R == (T \ {p}) \ {x}
  <2>8. R = (T \ {x}) \ {p} /\ R \in SUBSET U
    OBVIOUS
  <2>9. g[T \ {p}] = f[x] + g[R] /\ g[T \ {x}] = f[p] + g[R]
    <3>1. g[T \ {p}] = f[x] + g[R]
      BY <2>6, <2>7
    <3>2. g[T \ {x}] = f[p] + g[(T \ {x}) \ {p}]
      BY <2>6, <2>7
    <3> QED
      BY <2>8, <3>1, <3>2
  <2> HIDE DEF R
  <2>10. f[x] \in Int /\ f[p] \in Int /\ g[R] \in Int
    BY <1>1, <2>3, <2>8
  <2> QED
    BY <2>3, <2>5, <2>9, <2>10
<1>6. ASSUME NEW T \in SUBSET U, NEW x \in U \ T PROVE g[T \cup {x}] = f[x] + g[T]
  <2>1. T \cup {x} \in SUBSET U /\ x \in T \cup {x} /\ (T \cup {x}) \ {x} = T
    OBVIOUS
  <2>2. Cardinality(T \cup {x}) \in Nat
    BY <1>4, <2>1
  <2>3. g[T \cup {x}] = f[x] + g[(T \cup {x}) \ {x}]
    BY <1>5, <2>1, <2>2
  <2> QED
    BY <2>1, <2>3
<1> HIDE DEF Bad
<1> QED
  BY <1>1, <1>2, <1>3, <1>6

(* A sum of integers is an integer. *)
LEMMA SumType ==
    ASSUME NEW U, IsFiniteSet(U), NEW f \in [U -> Int]
    PROVE  Total(f) \in Int
<1>1. PICK g \in [SUBSET U -> Int] : g[U] = Total(f)
  BY Sums
<1> QED
  BY <1>1

\* Sums are ordered as their values are.
LEMMA SumOrder ==
    ASSUME NEW U, IsFiniteSet(U), NEW f \in [U -> Int], NEW h \in [U -> Int],
           \A x \in U : f[x] <= h[x]
    PROVE  Total(f) <= Total(h)
<1>1. PICK a \in [SUBSET U -> Int] :
         /\ a[{}] = 0
         /\ \A T \in SUBSET U : \A x \in U \ T : a[T \cup {x}] = f[x] + a[T]
         /\ a[U] = Total(f)
  BY Sums
<1>2. PICK b \in [SUBSET U -> Int] :
         /\ b[{}] = 0
         /\ \A T \in SUBSET U : \A x \in U \ T : b[T \cup {x}] = h[x] + b[T]
         /\ b[U] = Total(h)
  BY Sums
<1> DEFINE F == {T \in SUBSET U : a[T] <= b[T]}
<1>3. {} \in F
  BY <1>1, <1>2
<1>4. ASSUME NEW T \in SUBSET U, T \in F, NEW x \in U \ T PROVE T \cup {x} \in F
  <2>1. a[T \cup {x}] = f[x] + a[T] /\ b[T \cup {x}] = h[x] + b[T]
    BY <1>1, <1>2
  <2>2. /\ a[T] \in Int /\ b[T] \in Int /\ f[x] \in Int /\ h[x] \in Int
        /\ a[T] <= b[T] /\ f[x] <= h[x]
    BY <1>1, <1>2, <1>4
  <2>3. a[T \cup {x}] <= b[T \cup {x}]
    BY <2>1, <2>2
  <2> QED
    BY <2>3
<1>5. U \in F
  <2> HIDE DEF F
  <2> QED
    BY <1>3, <1>4, FiniteInduction
<1> QED
  BY <1>1, <1>2, <1>5

\* A sum is at least each of its values, and positive values have a positive sum.
LEMMA SumNat ==
    ASSUME NEW U, IsFiniteSet(U), NEW f \in [U -> Int], \A x \in U : f[x] >= 0
    PROVE  /\ Total(f) >= 0
           /\ \A x \in U : Total(f) >= f[x]
<1>1. PICK a \in [SUBSET U -> Int] :
         /\ a[{}] = 0
         /\ \A T \in SUBSET U : \A x \in U \ T : a[T \cup {x}] = f[x] + a[T]
         /\ a[U] = Total(f)
  BY Sums
<1> DEFINE F == {T \in SUBSET U : a[T] >= 0}
<1>2. {} \in F
  BY <1>1
<1>3. ASSUME NEW T \in SUBSET U, T \in F, NEW x \in U \ T PROVE T \cup {x} \in F
  <2>1. a[T \cup {x}] = f[x] + a[T] /\ a[T] \in Int /\ f[x] \in Int /\ a[T] >= 0 /\ f[x] >= 0
    BY <1>1, <1>3
  <2>2. a[T \cup {x}] >= 0
    BY <2>1
  <2> QED
    BY <2>2
<1>4. ASSUME NEW S \in SUBSET U PROVE S \in F
  <2>1. IsFiniteSet(S)
    BY FS_Subset
  <2>2. \A T \in SUBSET S : T \in F => \A x \in S \ T : T \cup {x} \in F
    BY <1>3
  <2> HIDE DEF F
  <2> QED
    BY <1>2, <2>1, <2>2, FiniteInduction
<1>5. ASSUME NEW x \in U PROVE a[U] >= f[x]
  <2>1. U \ {x} \in SUBSET U /\ x \in U \ (U \ {x}) /\ (U \ {x}) \cup {x} = U
    OBVIOUS
  <2>2. a[U] = f[x] + a[U \ {x}]
    BY <1>1, <2>1
  <2>3. a[U \ {x}] >= 0 /\ a[U \ {x}] \in Int /\ f[x] \in Int
    BY <1>1, <1>4, <2>1
  <2> QED
    BY <2>2, <2>3
<1>6. a[U] >= 0
  BY <1>4
<1> QED
  BY <1>1, <1>5, <1>6

\* Values that are at most those of other things have the smaller sum.
LEMMA SumThrough ==
    ASSUME NEW U, IsFiniteSet(U), NEW f \in [U -> Int],
           NEW V, IsFiniteSet(V), NEW g \in [V -> Int],
           NEW h \in [U -> V], \A x, y \in U : h[x] = h[y] => x = y,
           \A x \in U : f[x] <= g[h[x]], \A y \in V : g[y] >= 0
    PROVE  Total(f) <= Total(g)
<1>1. PICK a \in [SUBSET U -> Int] :
         /\ a[{}] = 0
         /\ \A T \in SUBSET U : \A x \in U \ T : a[T \cup {x}] = f[x] + a[T]
         /\ a[U] = Total(f)
  BY Sums
<1>2. PICK b \in [SUBSET V -> Int] :
         /\ b[{}] = 0
         /\ \A T \in SUBSET V : \A x \in V \ T : b[T \cup {x}] = g[x] + b[T]
         /\ b[V] = Total(g)
  BY Sums
<1> DEFINE Img(T) == {h[x] : x \in T}
           F == {T \in SUBSET U : a[T] <= b[Img(T)]}
           G == {T \in SUBSET V : b[Img(U)] <= b[Img(U) \cup T]}
<1>3. {} \in F
  <2>1. Img({}) = {}
    OBVIOUS
  <2>2. b[Img({})] = b[{}]
    BY <2>1, Zenon
  <2>3. a[{}] = 0 /\ b[Img({})] = 0
    BY <1>1, <1>2, <2>2, Zenon
  <2>4. a[{}] <= b[Img({})]
    <3> HIDE DEF Img
    <3> QED
      BY <2>3
  <2> QED
    BY <2>4
<1>4. ASSUME NEW T \in SUBSET U, T \in F, NEW x \in U \ T PROVE T \cup {x} \in F
  <2>1. Img(T \cup {x}) = Img(T) \cup {h[x]} /\ Img(T) \in SUBSET V
    OBVIOUS
  <2>2. h[x] \in V \ Img(T)
    OBVIOUS
  <2>3. a[T \cup {x}] = f[x] + a[T] /\ b[Img(T \cup {x})] = g[h[x]] + b[Img(T)]
    BY <1>1, <1>2, <2>1, <2>2
  <2>4. /\ a[T] \in Int /\ b[Img(T)] \in Int /\ f[x] \in Int /\ g[h[x]] \in Int
        /\ f[x] <= g[h[x]] /\ a[T] <= b[Img(T)]
    BY <1>4, <2>1, <2>2
  <2>5. a[T \cup {x}] <= b[Img(T \cup {x})]
    <3> HIDE DEF Img
    <3> QED
      BY <2>3, <2>4
  <2> QED
    BY <2>5
<1>5. U \in F
  <2> HIDE DEF F
  <2> QED
    BY <1>3, <1>4, FiniteInduction
<1>6. {} \in G
  <2>1. Img(U) \in SUBSET V /\ Img(U) \cup {} = Img(U)
    OBVIOUS
  <2>2. b[Img(U)] \in Int
    <3> HIDE DEF Img
    <3> QED
      BY <2>1
  <2> HIDE DEF Img
  <2> QED
    BY <2>1, <2>2
<1>7. ASSUME NEW T \in SUBSET V, T \in G, NEW y \in V \ T PROVE T \cup {y} \in G
  <2> DEFINE W == Img(U) \cup T
  <2>1. W \in SUBSET V /\ Img(U) \in SUBSET V /\ Img(U) \cup (T \cup {y}) = W \cup {y}
    OBVIOUS
  <2>2. b[Img(U)] <= b[W]
    BY <1>7
  <2> HIDE DEF W
  <2>3. b[W] \in Int /\ g[y] \in Int /\ g[y] >= 0 /\ b[Img(U)] \in Int
    <3> HIDE DEF Img
    <3> QED
      BY <2>1
  <2>4. b[W \cup {y}] = b[W] \/ b[W \cup {y}] = g[y] + b[W]
    <3>1. CASE y \in W
      <4>1. W \cup {y} = W
        BY <3>1
      <4> QED
        BY <4>1
    <3>2. CASE y \notin W
      BY <1>2, <2>1, <3>2
    <3> QED
      BY <3>1, <3>2
  <2>5. b[Img(U)] <= b[W \cup {y}]
    <3> HIDE DEF Img
    <3> QED
      BY <2>2, <2>3, <2>4
  <2> QED
    BY <2>1, <2>5
<1>8. V \in G
  <2> HIDE DEF G
  <2> QED
    BY <1>6, <1>7, FiniteInduction
<1>9. Img(U) \cup V = V /\ Img(U) \in SUBSET V
  OBVIOUS
<1>10. a[U] <= b[Img(U)] /\ b[Img(U)] <= b[V]
  BY <1>5, <1>8, <1>9
<1> HIDE DEF Img
<1>11. a[U] \in Int /\ b[V] \in Int /\ b[Img(U)] \in Int
  BY <1>9
<1> QED
  BY <1>1, <1>2, <1>10, <1>11

\* The same values under other names have the same sum.
LEMMA SumRenamed ==
    ASSUME NEW U, IsFiniteSet(U), NEW f \in [U -> Int], NEW V, NEW g \in [V -> Int],
           NEW h \in [U -> V], \A x, y \in U : h[x] = h[y] => x = y,
           \A y \in V : \E x \in U : h[x] = y,
           \A x \in U : f[x] = g[h[x]]
    PROVE  Total(f) = Total(g)
<1>0. V = {h[x] : x \in U} /\ IsFiniteSet(V)
  <2>1. DOMAIN h = U
    OBVIOUS
  <2>2. V = {h[x] : x \in U}
    OBVIOUS
  <2> QED
    BY <2>1, <2>2, FiniteImage
<1>1. PICK a \in [SUBSET U -> Int] :
         /\ a[{}] = 0
         /\ \A T \in SUBSET U : \A x \in U \ T : a[T \cup {x}] = f[x] + a[T]
         /\ a[U] = Total(f)
  BY Sums
<1>2. PICK b \in [SUBSET V -> Int] :
         /\ b[{}] = 0
         /\ \A T \in SUBSET V : \A x \in V \ T : b[T \cup {x}] = g[x] + b[T]
         /\ b[V] = Total(g)
  <2>1. IsFiniteSet(V)
    BY <1>0
  <2> QED
    BY <2>1, Sums
<1> DEFINE Img(T) == {h[x] : x \in T}
           F == {T \in SUBSET U : a[T] = b[Img(T)]}
<1>3. {} \in F
  <2>1. Img({}) = {}
    OBVIOUS
  <2> QED
    BY <1>1, <1>2, <2>1
<1>4. ASSUME NEW T \in SUBSET U, T \in F, NEW x \in U \ T PROVE T \cup {x} \in F
  <2>1. Img(T \cup {x}) = Img(T) \cup {h[x]} /\ Img(T) \in SUBSET V
    OBVIOUS
  <2>2. h[x] \in V \ Img(T)
    OBVIOUS
  <2>3. a[T \cup {x}] = f[x] + a[T] /\ b[Img(T \cup {x})] = g[h[x]] + b[Img(T)]
    BY <1>1, <1>2, <2>1, <2>2
  <2>4. f[x] = g[h[x]] /\ a[T] = b[Img(T)]
    BY <1>4
  <2>5. a[T \cup {x}] = b[Img(T \cup {x})]
    <3> HIDE DEF Img
    <3> QED
      BY <2>3, <2>4
  <2> QED
    BY <2>5
<1>5. U \in F
  <2> HIDE DEF F
  <2> QED
    BY <1>3, <1>4, FiniteInduction
<1>6. Img(U) = V
  BY <1>0
<1> QED
  BY <1>1, <1>2, <1>5, <1>6

\* The sum of differences is the difference of the sums.
LEMMA SumMinus ==
    ASSUME NEW U, IsFiniteSet(U), NEW f \in [U -> Int], NEW g \in [U -> Int], NEW d \in [U -> Int],
           \A x \in U : d[x] = f[x] - g[x]
    PROVE  Total(d) = Total(f) - Total(g)
<1>1. PICK a \in [SUBSET U -> Int] :
         /\ a[{}] = 0
         /\ \A T \in SUBSET U : \A x \in U \ T : a[T \cup {x}] = f[x] + a[T]
         /\ a[U] = Total(f)
  BY Sums
<1>2. PICK b \in [SUBSET U -> Int] :
         /\ b[{}] = 0
         /\ \A T \in SUBSET U : \A x \in U \ T : b[T \cup {x}] = g[x] + b[T]
         /\ b[U] = Total(g)
  BY Sums
<1>3. PICK c \in [SUBSET U -> Int] :
         /\ c[{}] = 0
         /\ \A T \in SUBSET U : \A x \in U \ T : c[T \cup {x}] = d[x] + c[T]
         /\ c[U] = Total(d)
  BY Sums
<1> DEFINE F == {T \in SUBSET U : c[T] = a[T] - b[T]}
<1>4. {} \in F
  BY <1>1, <1>2, <1>3
<1>5. ASSUME NEW T \in SUBSET U, T \in F, NEW x \in U \ T PROVE T \cup {x} \in F
  <2>1. /\ a[T \cup {x}] = f[x] + a[T] /\ b[T \cup {x}] = g[x] + b[T]
        /\ c[T \cup {x}] = d[x] + c[T] /\ d[x] = f[x] - g[x]
    BY <1>1, <1>2, <1>3
  <2>2. /\ a[T] \in Int /\ b[T] \in Int /\ c[T] \in Int /\ f[x] \in Int /\ g[x] \in Int
        /\ c[T] = a[T] - b[T]
    BY <1>1, <1>2, <1>3, <1>5
  <2>3. c[T \cup {x}] = a[T \cup {x}] - b[T \cup {x}]
    BY <2>1, <2>2
  <2> QED
    BY <2>3
<1>6. U \in F
  <2> HIDE DEF F
  <2> QED
    BY <1>4, <1>5, FiniteInduction
<1> QED
  BY <1>1, <1>2, <1>3, <1>6

\* A table is summed by rows.
RowOf(f, V, x) == [y \in V |-> f[<<x, y>>]]

RowTotals(f, U, V) == [x \in U |-> Total(RowOf(f, V, x))]

(* A sum over pairs is the sum of its rows' sums. *)
LEMMA SumByRows ==
    ASSUME NEW U, IsFiniteSet(U), NEW V, IsFiniteSet(V), NEW f \in [U \X V -> Int]
    PROVE  Total(f) = Total(RowTotals(f, U, V))
<1>1. PICK P : P = U \X V
  OBVIOUS
<1>2. f \in [P -> Int] /\ IsFiniteSet(P)
  BY <1>1, FS_Product
<1>3. /\ \A z \in P : z = <<z[1], z[2]>> /\ z[1] \in U /\ z[2] \in V
       /\ \A x \in U : \A y \in V : <<x, y>> \in P
  BY <1>1
<1>4. PICK r : r = RowTotals(f, U, V)
  OBVIOUS
<1>5. \A x \in U : RowOf(f, V, x) \in [V -> Int] /\ \A y \in V : RowOf(f, V, x)[y] = f[<<x, y>>]
  BY DEF RowOf
<1>6. \A x \in U : r[x] = Total(RowOf(f, V, x)) /\ r[x] \in Int
  BY <1>4, <1>5, SumType DEF RowTotals
<1>7. r \in [U -> Int]
  BY <1>4, <1>6 DEF RowTotals
<1>8. PICK a \in [SUBSET P -> Int] :
         /\ a[{}] = 0
         /\ \A T \in SUBSET P : \A x \in P \ T : a[T \cup {x}] = f[x] + a[T]
         /\ a[P] = Total(f)
  BY <1>2, Sums
<1>9. PICK b \in [SUBSET U -> Int] :
         /\ b[{}] = 0
         /\ \A T \in SUBSET U : \A x \in U \ T : b[T \cup {x}] = r[x] + b[T]
         /\ b[U] = Total(r)
  BY <1>7, Sums
<1> DEFINE Rows(T) == {z \in P : z[1] \in T}
<1>10. ASSUME NEW T \in SUBSET U, NEW x \in U \ T
      PROVE  a[Rows(T \cup {x})] = r[x] + a[Rows(T)]
  <2> DEFINE Part(W) == {z \in P : z[1] \in T \/ (z[1] = x /\ z[2] \in W)}
  <2>1. PICK p \in [V -> Int] : p = RowOf(f, V, x)
    BY <1>5
  <2>2. r[x] = Total(p) /\ \A y \in V : p[y] = f[<<x, y>>]
    BY <1>5, <1>6, <2>1
  <2>3. PICK c \in [SUBSET V -> Int] :
           /\ c[{}] = 0
           /\ \A W \in SUBSET V : \A y \in V \ W : c[W \cup {y}] = p[y] + c[W]
           /\ c[V] = Total(p)
    BY Sums
  <2>4. PICK before \in Int : before = a[Rows(T)]
    <3>1. Rows(T) \in SUBSET P
      OBVIOUS
    <3> HIDE DEF Rows
    <3> QED
      BY <3>1
  <2> DEFINE F == {W \in SUBSET V : a[Part(W)] = c[W] + before}
  <2>5. {} \in F
    <3>1. Part({}) = Rows(T)
      OBVIOUS
    <3>2. a[Part({})] = before
      BY <2>4, <3>1, Zenon
    <3> HIDE DEF Part
    <3>3. a[Part({})] = c[{}] + before
      BY <2>3, <3>2
    <3> QED
      BY <3>3
  <2>6. ASSUME NEW W \in SUBSET V, W \in F, NEW y \in V \ W PROVE W \cup {y} \in F
    <3>1. <<x, y>> \in P /\ <<x, y>>[1] = x /\ <<x, y>>[2] = y
      <4>1. x \in U /\ y \in V
        OBVIOUS
      <4>2. <<x, y>> \in U \X V
        BY <4>1
      <4>3. <<x, y>> \in P
        BY <1>1, <4>2, Zenon
      <4> QED
        BY <4>3
    <3>2. Part(W) \in SUBSET P /\ <<x, y>> \in P \ Part(W)
      BY <3>1
    <3>3. Part(W \cup {y}) = Part(W) \cup {<<x, y>>}
      BY <1>3, <3>1
    <3>4. a[Part(W) \cup {<<x, y>>}] = f[<<x, y>>] + a[Part(W)]
      <4> HIDE DEF Part
      <4> QED
        BY <1>8, <3>2
    <3>5. c[W \cup {y}] = p[y] + c[W] /\ p[y] = f[<<x, y>>] /\ a[Part(W)] = c[W] + before
      BY <2>2, <2>3, <2>6
    <3>6. p[y] \in Int /\ c[W] \in Int
      BY <2>1, <2>3
    <3>7. a[Part(W \cup {y})] = c[W \cup {y}] + before
      <4> HIDE DEF Part
      <4> QED
        <5>1. PICK k \in Int, l \in Int : k = p[y] /\ l = c[W]
          BY <3>6
        <5>2. a[Part(W \cup {y})] = k + (l + before) /\ c[W \cup {y}] = k + l
          BY <3>3, <3>4, <3>5, <5>1
        <5> QED
          BY <5>2
    <3> QED
      BY <3>7
  <2>7. V \in F
    <3> HIDE DEF F
    <3> QED
      BY <2>5, <2>6, FiniteInduction
  <2>8. Part(V) = Rows(T \cup {x})
    BY <1>3
  <2>9. a[Part(V)] = c[V] + before
    BY <2>7
  <2> HIDE DEF Part, Rows
  <2> QED
    BY <2>2, <2>3, <2>4, <2>8, <2>9
<1> DEFINE F == {T \in SUBSET U : a[Rows(T)] = b[T]}
<1>11. {} \in F
  <2>1. Rows({}) = {}
    OBVIOUS
  <2>2. a[Rows({})] = b[{}]
    BY <1>8, <1>9, <2>1, Zenon
  <2> QED
    BY <2>2
<1>12. ASSUME NEW T \in SUBSET U, T \in F, NEW x \in U \ T PROVE T \cup {x} \in F
  <2>1. a[Rows(T \cup {x})] = r[x] + a[Rows(T)] /\ b[T \cup {x}] = r[x] + b[T] /\ a[Rows(T)] = b[T]
    BY <1>9, <1>10, <1>12
  <2>2. a[Rows(T \cup {x})] = b[T \cup {x}]
    BY <2>1
  <2> QED
    BY <2>2
<1>13. U \in F
  <2> HIDE DEF F
  <2> QED
    BY <1>11, <1>12, FiniteInduction
<1>14. Rows(U) = P
  BY <1>3
<1>15. a[Rows(U)] = b[U]
  BY <1>13
<1> HIDE DEF Rows
<1> QED
  BY <1>8, <1>9, <1>14, <1>15, <1>4

-----------------------------------------------------------------------------
(* The state *)

Kernels ==
    [host : [HostFields -> Nat], disk : [Disks -> [DiskFields -> Nat]],
     net : [Ifaces -> [NetFields -> Nat]], boot : Nat]

Samples ==
    [user : Nat, idle : Nat, iowait : Gauge, paging_major : Gauge, paging_in : Nat,
     stall : Gauge, retrans : Nat, oom : Nat, queue : Gauge, cores : Gauge,
     pending : [Disks -> Gauge], conntrack : Gauge, corrupted : Gauge,
     mem : [limit : Gauge, available : Gauge, cached : Gauge, buffered : Gauge],
     boot : Nat, disk : [Disks -> [DiskFields -> Nat]], net : [Ifaces -> [NetFields -> Nat]],
     fs : [{"data"} -> [used : Nat, free : Nat \ {0}]], real : Tallies, resets : Nat]

Stored == UNION {[T -> Samples] : T \in SUBSET Nat}

Oses == {Machine[s].os : s \in Servers}

Knowledge == [os : Oses, cores : Gauge, disks : SUBSET Disks, ifaces : SUBSET Ifaces,
              listed : SUBSET {"disk", "net"}, rows : Stored]

TypeOK ==
    /\ now \in Nat /\ now >= StartTime
    /\ kernel \in [Servers -> Kernels]
    /\ real \in [Servers -> Tallies]
    /\ resets \in [Servers -> Nat]
    /\ db \in [Servers -> Knowledge]
    /\ \A s \in Servers : IsFiniteSet(Times(db, s))

(* Counters that grow stay counters. *)
LEMMA GrowType ==
    ASSUME NEW k, k \in Kernels \/ k \in Tallies, NEW w \in Efforts
    PROVE  Grow(k, w) \in Tallies
<1>1. AddAll(k.host, w.host) \in [HostFields -> Nat]
  BY DEF AddAll, Kernels, Tallies, Efforts
<1>2. [d \in DOMAIN k.disk |-> AddAll(k.disk[d], w.disk)] \in [Disks -> [DiskFields -> Nat]]
  BY DEF AddAll, Kernels, Tallies, Efforts
<1>3. [i \in DOMAIN k.net |-> AddAll(k.net[i], w.net)] \in [Ifaces -> [NetFields -> Nat]]
  BY DEF AddAll, Kernels, Tallies, Efforts
<1> QED
  BY <1>1, <1>2, <1>3 DEF Grow, Tallies

(* A kernel that starts has counters. *)
LEMMA StartedType ==
    ASSUME NEW c \in Tallies, NEW b \in Nat
    PROVE  Started(c, b) \in Kernels
BY DEF Started, Tallies, Kernels

(* What an agent sends is a sample. *)
LEMMA SampleType ==
    ASSUME NEW s \in Servers, NEW k \in Kernels, NEW w \in Efforts, NEW r \in Tallies, NEW n \in Nat
    PROVE  SampleOf(s, k, w, r, n) \in Samples
BY DEF SampleOf, Samples, Kernels, Efforts, Gauge, HostFields

\* A row more.
LEMMA InsertType ==
    ASSUME NEW rows \in Stored, IsFiniteSet(DOMAIN rows), NEW at \in Nat, NEW r \in Samples
    PROVE  /\ record_metrics(rows, at, r) \in Stored
           /\ DOMAIN record_metrics(rows, at, r) = DOMAIN rows \cup {at}
           /\ IsFiniteSet(DOMAIN record_metrics(rows, at, r))
           /\ \A t \in DOMAIN record_metrics(rows, at, r) :
                 \/ t \in DOMAIN rows /\ record_metrics(rows, at, r)[t] = rows[t]
                 \/ t = at /\ record_metrics(rows, at, r)[t] = r
<1>1. PICK T \in SUBSET Nat : rows \in [T -> Samples]
  BY DEF Stored
<1>2. record_metrics(rows, at, r) \in [T \cup {at} -> Samples]
  BY <1>1 DEF record_metrics
<1>3. T \cup {at} \in SUBSET Nat
  BY <1>1
<1>4. IsFiniteSet(DOMAIN rows \cup {at})
  BY FS_AddElement
<1> QED
  BY <1>1, <1>2, <1>3, <1>4 DEF Stored, record_metrics

(* The initial state is well typed. *)
LEMMA InitType ==
    ASSUME Init
    PROVE  TypeOK
<1> USE StoreAssumption
<1>1. now \in Nat /\ now >= StartTime
  BY DEF Init
<1>2. Started(Base, 0) \in Kernels
  BY StartedType
<1>3. kernel \in [Servers -> Kernels] /\ real \in [Servers -> Tallies] /\ resets \in [Servers -> Nat]
  BY <1>2 DEF Init
<1>4. ASSUME NEW s \in Servers
      PROVE  db[s] \in Knowledge /\ IsFiniteSet(Times(db, s))
  <2>1. PICK r \in Samples : r = SampleOf(s, kernel[s], FirstWork, real[s], 0)
    BY <1>3, SampleType
  <2>2. [t \in {StartTime} |-> r] \in Stored
    <3>1. [t \in {StartTime} |-> r] \in [{StartTime} -> Samples] /\ {StartTime} \in SUBSET Nat
      OBVIOUS
    <3> QED
      BY <3>1 DEF Stored
  <2>0. PICK known : known = IF s \in Inventoried THEN Inventory(s) ELSE NoInventory
    OBVIOUS
  <2>8. /\ known.cores \in Gauge /\ known.disks \in SUBSET Disks
        /\ known.ifaces \in SUBSET Ifaces /\ known.listed \in SUBSET {"disk", "net"}
    BY <2>0 DEF Inventory, NoInventory, Gauge
  <2>9. db[s] = [os |-> Machine[s].os, cores |-> known.cores, disks |-> known.disks,
                 ifaces |-> known.ifaces, listed |-> known.listed,
                 rows |-> [t \in {StartTime} |-> r]]
    BY <2>0, <2>1 DEF Init
  <2>3. /\ db[s].os = Machine[s].os /\ db[s].cores \in Gauge
        /\ db[s].disks \in SUBSET Disks /\ db[s].ifaces \in SUBSET Ifaces
        /\ db[s].listed \in SUBSET {"disk", "net"}
        /\ db[s].rows = [t \in {StartTime} |-> r]
    BY <2>8, <2>9
  <2>4. db[s] = [os |-> db[s].os, cores |-> db[s].cores, disks |-> db[s].disks,
                 ifaces |-> db[s].ifaces, listed |-> db[s].listed, rows |-> db[s].rows]
    BY <2>9
  <2>5. Machine[s].os \in Oses
    BY DEF Oses
  <2>6. DOMAIN db[s].rows = {StartTime} /\ IsFiniteSet({StartTime})
    BY <2>3, FS_Singleton
  <2>7. IsFiniteSet(Times(db, s))
    BY <2>6 DEF Times
  <2> QED
    BY <2>2, <2>3, <2>4, <2>5, <2>7 DEF Knowledge
<1>5. db \in [Servers -> Knowledge]
  <2>1. db = [s \in Servers |-> db[s]]
    BY DEF Init
  <2> QED
    BY <1>4, <2>1
<1> QED
  BY <1>1, <1>3, <1>4, <1>5 DEF TypeOK

\* What an interval of work does: the server's counters grow, and its new sample,
\* if it is not lost, is the only row that may be added.
LEMMA WorkedStep ==
    ASSUME TypeOK, NEW s \in Servers, NEW w \in Works[s], NEW at \in Nat \cup {None}, Worked(s, w, at)
    PROVE  /\ TypeOK'
           /\ w \in Efforts
           /\ now' = now + 1 /\ resets' = resets
           /\ kernel' = [kernel EXCEPT ![s] = Started(Grow(kernel[s], w), kernel[s].boot)]
           /\ real' = [real EXCEPT ![s] = Grow(real[s], w)]
           /\ \A x \in Servers : db'[x].os = db[x].os
           /\ \A x \in Servers : \A t \in Times(db', x) :
                 \/ t \in Times(db, x) /\ db'[x].rows[t] = db[x].rows[t]
                 \/ x = s /\ db'[x].rows[t] = SampleOf(s, kernel'[s], w, real'[s], resets[s])
<1>0. w \in Efforts
  BY StoreAssumption
<1>1. /\ now' = now + 1 /\ resets' = resets
      /\ kernel' = [kernel EXCEPT ![s] = Started(Grow(kernel[s], w), kernel[s].boot)]
      /\ real' = [real EXCEPT ![s] = Grow(real[s], w)]
  BY DEF Worked
<1>2. Started(Grow(kernel[s], w), kernel[s].boot) \in Kernels /\ Grow(real[s], w) \in Tallies
  BY <1>0, GrowType, StartedType DEF TypeOK, Kernels
<1>3. /\ kernel' \in [Servers -> Kernels] /\ real' \in [Servers -> Tallies]
      /\ resets' \in [Servers -> Nat] /\ now' \in Nat /\ now' >= StartTime
  BY <1>1, <1>2, StoreAssumption DEF TypeOK
<1>4. PICK r \in Samples : r = SampleOf(s, kernel'[s], w, real'[s], resets[s])
  BY <1>0, <1>3, SampleType DEF TypeOK
<1>5. CASE at = None
  <2>1. db' = db
    BY <1>5 DEF Worked
  <2> QED
    BY <1>0, <1>1, <1>3, <2>1 DEF TypeOK, Times
<1>6. CASE at \in Nat
  <2>1. at # None
    BY <1>6, NoneAssumption
  <2>2. PICK old \in Stored : old = db[s].rows /\ IsFiniteSet(DOMAIN old)
    BY DEF TypeOK, Times, Knowledge
  <2>3. PICK rows : rows = record_metrics(old, at, r)
    OBVIOUS
  <2>4. /\ rows \in Stored /\ IsFiniteSet(DOMAIN rows)
        /\ \A t \in DOMAIN rows : (t \in DOMAIN old /\ rows[t] = old[t]) \/ rows[t] = r
    <3>0. old \in Stored /\ IsFiniteSet(DOMAIN old) /\ at \in Nat /\ r \in Samples
      BY <1>4, <1>6, <2>2
    <3>1. /\ record_metrics(old, at, r) \in Stored
          /\ IsFiniteSet(DOMAIN record_metrics(old, at, r))
          /\ \A t \in DOMAIN record_metrics(old, at, r) :
                 \/ t \in DOMAIN old /\ record_metrics(old, at, r)[t] = old[t]
                 \/ t = at /\ record_metrics(old, at, r)[t] = r
      BY <3>0, InsertType
    <3> QED
      BY <2>3, <3>1
  <2>5. db' = [db EXCEPT ![s].rows = rows]
    BY <1>4, <2>1, <2>2, <2>3 DEF Worked
  <2>6. db' \in [Servers -> Knowledge]
    BY <2>4, <2>5 DEF TypeOK, Knowledge
  <2>7. \A x \in Servers :
           /\ db'[x].rows = IF x = s THEN rows ELSE db[x].rows
           /\ db'[x].os = db[x].os
    BY <2>5 DEF TypeOK, Knowledge
  <2>8. \A x \in Servers : IsFiniteSet(Times(db, x))'
    BY <2>4, <2>7 DEF Times, TypeOK
  <2>9. \A x \in Servers : \A t \in Times(db', x) :
           \/ t \in Times(db, x) /\ db'[x].rows[t] = db[x].rows[t]
           \/ x = s /\ db'[x].rows[t] = r
    BY <2>2, <2>4, <2>7 DEF Times
  <2> QED
    BY <1>0, <1>1, <1>3, <1>4, <2>6, <2>7, <2>8, <2>9 DEF TypeOK
<1> QED
  BY <1>5, <1>6

\* A reboot or a reloaded driver: only the server's counters change.
ResetTo(s, k) ==
    /\ kernel' = [kernel EXCEPT ![s] = k]
    /\ resets' = [resets EXCEPT ![s] = @ + 1]
    /\ UNCHANGED <<now, real, db>>

(* A reboot resets every counter. *)
LEMMA RebootStep ==
    ASSUME TypeOK, NEW s \in Servers, Reboot(s)
    PROVE  ResetTo(s, Started(Boot, now)) /\ Started(Boot, now) \in Kernels
BY StoreAssumption, StartedType DEF Reboot, ResetTo, TypeOK

(* A driver's reload resets the counters of one interface. *)
LEMMA ReloadStep ==
    ASSUME TypeOK, NEW s \in Servers, NEW i \in DOMAIN Boot.net, DriverReload(s, i)
    PROVE  /\ ResetTo(s, [kernel[s] EXCEPT !.net[i] = Boot.net[i]])
           /\ [kernel[s] EXCEPT !.net[i] = Boot.net[i]] \in Kernels
<1>1. kernel[s] \in Kernels /\ Boot.net[i] \in [NetFields -> Nat] /\ i \in Ifaces
  BY StoreAssumption DEF TypeOK, Tallies, Ifaces
<1>2. [kernel[s] EXCEPT !.net[i] = Boot.net[i]] \in Kernels
  BY <1>1 DEF Kernels
<1>3. kernel' = [kernel EXCEPT ![s] = [kernel[s] EXCEPT !.net[i] = Boot.net[i]]]
  BY DEF DriverReload, TypeOK
<1> QED
  BY <1>2, <1>3 DEF DriverReload, ResetTo

(* Types after a reset. *)
LEMMA ResetType ==
    ASSUME TypeOK, NEW s \in Servers, NEW k \in Kernels, ResetTo(s, k)
    PROVE  TypeOK'
BY DEF TypeOK, ResetTo, Times

(* An inventory changes what is known of a server, and no row. *)
LEMMA RegisteredStep ==
    ASSUME TypeOK, NEW s \in Servers, Registered(s)
    PROVE  /\ TypeOK'
           /\ UNCHANGED <<now, kernel, real, resets>>
           /\ \A x \in Servers :
                 db'[x].rows = db[x].rows /\ db'[x].os = db[x].os
<1>1. /\ Machine[s].disks \in SUBSET Disks /\ Machine[s].ifaces \in SUBSET Ifaces
      /\ Machine[s].cores \in Gauge /\ Machine[s].listed \in SUBSET {"disk", "net"}
  BY StoreAssumption
<1>2. db' = [db EXCEPT ![s].cores = Machine[s].cores, ![s].listed = Machine[s].listed,
                       ![s].disks = Machine[s].disks, ![s].ifaces = Machine[s].ifaces]
  BY DEF Registered
<1>6. PICK k \in Knowledge : k = [db[s] EXCEPT !.cores = Machine[s].cores, !.listed = Machine[s].listed,
                                             !.disks = Machine[s].disks, !.ifaces = Machine[s].ifaces]
  BY <1>1 DEF TypeOK, Knowledge
<1>7. db' = [db EXCEPT ![s] = k] /\ k.rows = db[s].rows /\ k.os = db[s].os
  <2>1. db \in [Servers -> Knowledge] /\ db[s] \in Knowledge
    BY DEF TypeOK
  <2>2. k.rows = db[s].rows /\ k.os = db[s].os
    BY <1>6, <2>1 DEF Knowledge
  <2> QED
    BY <1>2, <1>6, <2>1, <2>2
<1>3. /\ db' \in [Servers -> Knowledge]
      /\ \A x \in Servers :
            db'[x].rows = db[x].rows /\ db'[x].os = db[x].os
  BY <1>7 DEF TypeOK
<1>4. UNCHANGED <<now, kernel, real, resets>>
  BY DEF Registered
<1>5. \A x \in Servers : IsFiniteSet(Times(db, x))'
  BY <1>3 DEF TypeOK, Times
<1> QED
  BY <1>3, <1>4, <1>5 DEF TypeOK

\* Every step is one of these.
LEMMA StepCases ==
    ASSUME TypeOK, Next
    PROVE  \/ \E s \in Servers : \E w \in Works[s] : \E at \in Nat \cup {None} : Worked(s, w, at)
           \/ \E s \in Servers : \E k \in Kernels :
                 /\ ResetTo(s, k)
                 /\ \/ k = Started(Boot, now)
                    \/ \E i \in Ifaces : k = [kernel[s] EXCEPT !.net[i] = Boot.net[i]]
           \/ \E s \in Servers : Registered(s)
<1>1. PICK s \in Servers :
        \/ Sampled(s) \/ LostSample(s) \/ WrongClock(s) \/ Reboot(s) \/ Registered(s)
        \/ \E i \in DOMAIN Boot.net : DriverReload(s, i)
  BY DEF Next
<1>2. now + 1 \in Nat /\ now + Skew + 2 \in Nat
  BY SnapshotAssumption DEF TypeOK
<1>3. CASE Sampled(s)
  BY <1>2, <1>3 DEF Sampled
<1>4. CASE LostSample(s)
  BY <1>4 DEF LostSample
<1>5. CASE WrongClock(s)
  BY <1>2, <1>5 DEF WrongClock
<1>6. CASE Reboot(s)
  BY <1>6, RebootStep
<1>7. CASE \E i \in DOMAIN Boot.net : DriverReload(s, i)
  BY <1>7, ReloadStep DEF Ifaces
<1> QED
  BY <1>1, <1>3, <1>4, <1>5, <1>6, <1>7

\* What the kernels count, what is stored and the clock are well typed, whatever
\* record_metrics and the inventory store, in every reachable state.
THEOREM TypeCorrect == Spec => []TypeOK
<1>1. Init => TypeOK
  BY InitType
<1>2. TypeOK /\ [Next]_vars => TypeOK'
  <2> SUFFICES ASSUME TypeOK, [Next]_vars PROVE TypeOK'
    OBVIOUS
  <2>1. CASE Next
    BY <2>1, StepCases, WorkedStep, ResetType, RegisteredStep
  <2>2. CASE UNCHANGED vars
    BY <2>2 DEF vars, TypeOK, Times
  <2> QED
    BY <2>1, <2>2
<1> QED
  BY <1>1, <1>2, PTL DEF Spec

-----------------------------------------------------------------------------
(***************************************************************************)
(* The history of a server: of any two samples one was taken later, and    *)
(* between the two no counter rose by more than what was really done; by   *)
(* exactly that if nothing was reset, and the kernel's own counters also   *)
(* if only a driver was reloaded, which leaves the boot time alone.        *)
(***************************************************************************)

\* The kernel's counters as a sample shows them.
Shown(r) == [user |-> r.user, iowait |-> r.iowait, idle |-> r.idle, pages |-> r.paging_in,
             stall |-> r.stall, retrans |-> r.retrans, oom |-> r.oom]

Grew(ca, cb, ra, rb, F) ==
    \A f \in F : /\ ra[f] <= rb[f]
                 /\ ca[f] # None /\ cb[f] # None => cb[f] - ca[f] <= rb[f] - ra[f]

Exact(ca, cb, ra, rb, F) ==
    \A f \in F : ca[f] # None /\ cb[f] # None => cb[f] - ca[f] = rb[f] - ra[f]

GrewAll(a, b) ==
    /\ Grew(Shown(a), Shown(b), a.real.host, b.real.host, HostFields)
    /\ \A d \in Disks : Grew(a.disk[d], b.disk[d], a.real.disk[d], b.real.disk[d], DiskFields)
    /\ \A i \in Ifaces : Grew(a.net[i], b.net[i], a.real.net[i], b.real.net[i], NetFields)

ExactHost(a, b) == Exact(Shown(a), Shown(b), a.real.host, b.real.host, HostFields)

ExactDevices(a, b) ==
    /\ \A d \in Disks : Exact(a.disk[d], b.disk[d], a.real.disk[d], b.real.disk[d], DiskFields)
    /\ \A i \in Ifaces : Exact(a.net[i], b.net[i], a.real.net[i], b.real.net[i], NetFields)

Later(a, b) ==
    /\ a.resets <= b.resets
    /\ GrewAll(a, b)
    /\ a.resets = b.resets => ExactHost(a, b) /\ ExactDevices(a, b)
    /\ a.boot = b.boot => ExactHost(a, b)

\* The sample that would be taken now.
Cur(s) == SampleOf(s, kernel[s], FirstWork, real[s], resets[s])

\* What an operating system does not measure is not in its samples.
Platform(s, r) ==
    IF Windows(Machine[s].os)
    THEN r.iowait = None /\ r.paging_major = None /\ r.stall = None /\ r.conntrack = None
    ELSE r.iowait # None /\ r.paging_major = r.paging_in /\ r.stall # None

RowInv(s, r) == Platform(s, r) /\ r.boot < now /\ Later(r, Cur(s))

HistoryInv ==
    \A s \in Servers :
        /\ db[s].os = Machine[s].os
        /\ kernel[s].boot <= now
        /\ \A t \in Times(db, s) : RowInv(s, Row(db, s, t))
        /\ \A t, u \in Times(db, s) :
              Later(Row(db, s, t), Row(db, s, u)) \/ Later(Row(db, s, u), Row(db, s, t))

\* What a sample says of the kernel it was taken of.
Hidden(s, f) == Windows(Machine[s].os) /\ f \in {"iowait", "stall"}

(* What a sample shows of the kernel it was taken from. *)
LEMMA SampleShows ==
    ASSUME NEW s \in Servers, NEW k \in Kernels, NEW w \in Efforts, NEW r \in Tallies, NEW n \in Nat,
           NEW b, b = SampleOf(s, k, w, r, n)
    PROVE  /\ b.resets = n /\ b.boot = k.boot /\ b.real = r /\ b.disk = k.disk /\ b.net = k.net
           /\ \A f \in HostFields : Shown(b)[f] = IF Hidden(s, f) THEN None ELSE k.host[f]
           /\ Platform(s, b)
<1>1. /\ b.resets = n /\ b.boot = k.boot /\ b.real = r /\ b.disk = k.disk /\ b.net = k.net
      /\ b.user = k.host.user /\ b.idle = k.host.idle /\ b.paging_in = k.host.pages
      /\ b.retrans = k.host.retrans /\ b.oom = k.host.oom
      /\ b.iowait = IF Windows(Machine[s].os) THEN None ELSE k.host.iowait
      /\ b.stall = IF Windows(Machine[s].os) THEN None ELSE k.host.stall
      /\ b.paging_major = IF Windows(Machine[s].os) THEN None ELSE k.host.pages
      /\ Windows(Machine[s].os) => b.conntrack = None
  BY DEF SampleOf
<1>2. k.host.iowait \in Nat /\ k.host.stall \in Nat
  BY DEF Kernels, HostFields
<1>3. Platform(s, b)
  BY <1>1, <1>2, NoneAssumption DEF Platform
<1>4. \A f \in HostFields : Shown(b)[f] = IF Hidden(s, f) THEN None ELSE k.host[f]
  BY <1>1 DEF Shown, Hidden, HostFields
<1> QED
  BY <1>1, <1>3, <1>4

(* A counter grows by the work done. *)
LEMMA GrowAdds ==
    ASSUME NEW k, k \in Kernels \/ k \in Tallies, NEW w \in Efforts
    PROVE  /\ \A f \in HostFields : Grow(k, w).host[f] = k.host[f] + w.host[f]
           /\ \A d \in Disks, f \in DiskFields : Grow(k, w).disk[d][f] = k.disk[d][f] + w.disk[f]
           /\ \A i \in Ifaces, f \in NetFields : Grow(k, w).net[i][f] = k.net[i][f] + w.net[f]
BY DEF Grow, AddAll, Kernels, Tallies, Efforts

(* The figures of a sample are natural numbers or missing. *)
LEMMA SampleNumbers ==
    ASSUME NEW a \in Samples
    PROVE  /\ a.resets \in Nat /\ a.boot \in Nat
           /\ \A f \in HostFields : Shown(a)[f] \in Nat \cup {None} /\ a.real.host[f] \in Nat
           /\ \A d \in Disks, f \in DiskFields : a.disk[d][f] \in Nat /\ a.real.disk[d][f] \in Nat
           /\ \A i \in Ifaces, f \in NetFields : a.net[i][f] \in Nat /\ a.real.net[i][f] \in Nat
<1>1. \A f \in HostFields : Shown(a)[f] \in Nat \cup {None}
  BY DEF Shown, Samples, HostFields, Gauge
<1> QED
  BY <1>1 DEF Samples, Tallies

\* Another interval of work: the counters and the work done grow alike.
LEMMA LaterAfterWork ==
    ASSUME NEW s \in Servers, NEW a \in Samples, NEW k \in Kernels, NEW r \in Tallies, NEW n \in Nat,
           NEW v \in Efforts, NEW w \in Efforts, NEW x \in Efforts,
           Later(a, SampleOf(s, k, v, r, n))
    PROVE  Later(a, SampleOf(s, Started(Grow(k, w), k.boot), x, Grow(r, w), n))
<1>1. PICK b : b = SampleOf(s, k, v, r, n)
  OBVIOUS
<1>2. PICK l \in Kernels : l = Started(Grow(k, w), k.boot)
  BY GrowType, StartedType DEF Kernels
<1>3. PICK q \in Tallies : q = Grow(r, w)
  BY GrowType
<1>4. PICK c : c = SampleOf(s, l, x, q, n)
  OBVIOUS
<1>5. /\ b.resets = n /\ b.boot = k.boot /\ b.real = r /\ b.disk = k.disk /\ b.net = k.net
      /\ \A f \in HostFields : Shown(b)[f] = IF Hidden(s, f) THEN None ELSE k.host[f]
  BY <1>1, SampleShows
<1>6. /\ c.resets = n /\ c.boot = l.boot /\ c.real = q /\ c.disk = l.disk /\ c.net = l.net
      /\ \A f \in HostFields : Shown(c)[f] = IF Hidden(s, f) THEN None ELSE l.host[f]
  BY <1>4, SampleShows
<1>7. /\ l.boot = k.boot
      /\ \A f \in HostFields : l.host[f] = k.host[f] + w.host[f] /\ q.host[f] = r.host[f] + w.host[f]
      /\ \A d \in Disks, f \in DiskFields : /\ l.disk[d][f] = k.disk[d][f] + w.disk[f]
                                            /\ q.disk[d][f] = r.disk[d][f] + w.disk[f]
      /\ \A i \in Ifaces, f \in NetFields : /\ l.net[i][f] = k.net[i][f] + w.net[f]
                                            /\ q.net[i][f] = r.net[i][f] + w.net[f]
  BY <1>2, <1>3, GrowAdds DEF Started
<1>8. /\ \A f \in HostFields : k.host[f] \in Nat /\ r.host[f] \in Nat /\ w.host[f] \in Nat
      /\ \A d \in Disks, f \in DiskFields : k.disk[d][f] \in Nat /\ r.disk[d][f] \in Nat /\ w.disk[f] \in Nat
      /\ \A i \in Ifaces, f \in NetFields : k.net[i][f] \in Nat /\ r.net[i][f] \in Nat /\ w.net[f] \in Nat
  BY DEF Kernels, Tallies, Efforts
<1>9. /\ \A f \in HostFields : Shown(a)[f] \in Nat \cup {None} /\ a.real.host[f] \in Nat
      /\ \A d \in Disks, f \in DiskFields : a.disk[d][f] \in Nat /\ a.real.disk[d][f] \in Nat
      /\ \A i \in Ifaces, f \in NetFields : a.net[i][f] \in Nat /\ a.real.net[i][f] \in Nat
  BY SampleNumbers
<1>10. Later(a, b)
  BY <1>1
<1>11. /\ Grew(Shown(a), Shown(b), a.real.host, b.real.host, HostFields)
          => Grew(Shown(a), Shown(c), a.real.host, c.real.host, HostFields)
       /\ ExactHost(a, b) => ExactHost(a, c)
  BY <1>5, <1>6, <1>7, <1>8, <1>9, NoneAssumption DEF Grew, ExactHost, Exact
<1>12. /\ \A d \in Disks : Grew(a.disk[d], b.disk[d], a.real.disk[d], b.real.disk[d], DiskFields)
             => Grew(a.disk[d], c.disk[d], a.real.disk[d], c.real.disk[d], DiskFields)
       /\ \A d \in Disks : Exact(a.disk[d], b.disk[d], a.real.disk[d], b.real.disk[d], DiskFields)
             => Exact(a.disk[d], c.disk[d], a.real.disk[d], c.real.disk[d], DiskFields)
  BY <1>5, <1>6, <1>7, <1>8, <1>9, NoneAssumption DEF Grew, Exact
<1>13. /\ \A i \in Ifaces : Grew(a.net[i], b.net[i], a.real.net[i], b.real.net[i], NetFields)
             => Grew(a.net[i], c.net[i], a.real.net[i], c.real.net[i], NetFields)
       /\ \A i \in Ifaces : Exact(a.net[i], b.net[i], a.real.net[i], b.real.net[i], NetFields)
             => Exact(a.net[i], c.net[i], a.real.net[i], c.real.net[i], NetFields)
  BY <1>5, <1>6, <1>7, <1>8, <1>9, NoneAssumption DEF Grew, Exact
<1>14. GrewAll(a, c) /\ (ExactDevices(a, b) => ExactDevices(a, c))
  BY <1>10, <1>11, <1>12, <1>13 DEF Later, GrewAll, ExactDevices
<1>15. Later(a, c)
  BY <1>5, <1>6, <1>7, <1>10, <1>11, <1>14 DEF Later
<1> QED
  BY <1>2, <1>3, <1>4, <1>15

\* Two samples of the same kernel.
LEMMA LaterSame ==
    ASSUME NEW s \in Servers, NEW k \in Kernels, NEW r \in Tallies, NEW n \in Nat,
           NEW v \in Efforts, NEW w \in Efforts
    PROVE  Later(SampleOf(s, k, v, r, n), SampleOf(s, k, w, r, n))
<1>1. PICK b \in Samples : b = SampleOf(s, k, v, r, n)
  BY SampleType
<1>2. PICK c \in Samples : c = SampleOf(s, k, w, r, n)
  BY SampleType
<1>3. /\ b.resets = n /\ b.boot = k.boot /\ b.real = r /\ b.disk = k.disk /\ b.net = k.net
      /\ \A f \in HostFields : Shown(b)[f] = IF Hidden(s, f) THEN None ELSE k.host[f]
  BY <1>1, SampleShows
<1>4. /\ c.resets = n /\ c.boot = k.boot /\ c.real = r /\ c.disk = k.disk /\ c.net = k.net
      /\ \A f \in HostFields : Shown(c)[f] = IF Hidden(s, f) THEN None ELSE k.host[f]
  BY <1>2, SampleShows
<1>5. /\ \A f \in HostFields : k.host[f] \in Nat /\ r.host[f] \in Nat
      /\ \A d \in Disks, f \in DiskFields : k.disk[d][f] \in Nat /\ r.disk[d][f] \in Nat
      /\ \A i \in Ifaces, f \in NetFields : k.net[i][f] \in Nat /\ r.net[i][f] \in Nat
  BY DEF Kernels, Tallies
<1>6. Grew(Shown(b), Shown(c), b.real.host, c.real.host, HostFields) /\ ExactHost(b, c)
  BY <1>3, <1>4, <1>5 DEF Grew, ExactHost, Exact
<1>7. \A d \in Disks : /\ Grew(b.disk[d], c.disk[d], b.real.disk[d], c.real.disk[d], DiskFields)
                       /\ Exact(b.disk[d], c.disk[d], b.real.disk[d], c.real.disk[d], DiskFields)
  BY <1>3, <1>4, <1>5 DEF Grew, Exact
<1>8. \A i \in Ifaces : /\ Grew(b.net[i], c.net[i], b.real.net[i], c.real.net[i], NetFields)
                        /\ Exact(b.net[i], c.net[i], b.real.net[i], c.real.net[i], NetFields)
  BY <1>3, <1>4, <1>5 DEF Grew, Exact
<1>9. Later(b, c)
  BY <1>3, <1>4, <1>6, <1>7, <1>8 DEF Later, GrewAll, ExactDevices
<1> QED
  BY <1>1, <1>2, <1>9

\* A reset: no counter is larger than before, and a reboot has a new boot time.
LEMMA LaterAfterReset ==
    ASSUME NEW s \in Servers, NEW a \in Samples, NEW k \in Kernels, NEW l \in Kernels,
           NEW r \in Tallies, NEW n \in Nat, NEW v \in Efforts,
           Later(a, SampleOf(s, k, v, r, n)),
           \A f \in HostFields : l.host[f] <= k.host[f],
           \A d \in Disks, f \in DiskFields : l.disk[d][f] <= k.disk[d][f],
           \A i \in Ifaces, f \in NetFields : l.net[i][f] <= k.net[i][f],
           a.boot = l.boot => l.boot = k.boot /\ l.host = k.host
    PROVE  Later(a, SampleOf(s, l, v, r, n + 1))
<1>1. PICK b : b = SampleOf(s, k, v, r, n)
  OBVIOUS
<1>2. PICK c : c = SampleOf(s, l, v, r, n + 1)
  OBVIOUS
<1>3. /\ b.resets = n /\ b.boot = k.boot /\ b.real = r /\ b.disk = k.disk /\ b.net = k.net
      /\ \A f \in HostFields : Shown(b)[f] = IF Hidden(s, f) THEN None ELSE k.host[f]
  BY <1>1, SampleShows
<1>4. /\ c.resets = n + 1 /\ c.boot = l.boot /\ c.real = r /\ c.disk = l.disk /\ c.net = l.net
      /\ \A f \in HostFields : Shown(c)[f] = IF Hidden(s, f) THEN None ELSE l.host[f]
  <2>1. n + 1 \in Nat
    OBVIOUS
  <2> QED
    BY <1>2, <2>1, SampleShows
<1>5. /\ \A f \in HostFields : k.host[f] \in Nat /\ l.host[f] \in Nat /\ r.host[f] \in Nat
      /\ \A d \in Disks, f \in DiskFields : k.disk[d][f] \in Nat /\ l.disk[d][f] \in Nat /\ r.disk[d][f] \in Nat
      /\ \A i \in Ifaces, f \in NetFields : k.net[i][f] \in Nat /\ l.net[i][f] \in Nat /\ r.net[i][f] \in Nat
  BY DEF Kernels, Tallies
<1>6. /\ a.resets \in Nat
      /\ \A f \in HostFields : Shown(a)[f] \in Nat \cup {None} /\ a.real.host[f] \in Nat
      /\ \A d \in Disks, f \in DiskFields : a.disk[d][f] \in Nat /\ a.real.disk[d][f] \in Nat
      /\ \A i \in Ifaces, f \in NetFields : a.net[i][f] \in Nat /\ a.real.net[i][f] \in Nat
  BY SampleNumbers
<1>7. Later(a, b)
  BY <1>1
<1>8. Grew(Shown(a), Shown(c), a.real.host, c.real.host, HostFields)
  BY <1>3, <1>4, <1>5, <1>6, <1>7, NoneAssumption DEF Later, GrewAll, Grew
<1>9. \A d \in Disks : Grew(a.disk[d], c.disk[d], a.real.disk[d], c.real.disk[d], DiskFields)
  BY <1>3, <1>4, <1>5, <1>6, <1>7, NoneAssumption DEF Later, GrewAll, Grew
<1>10. \A i \in Ifaces : Grew(a.net[i], c.net[i], a.real.net[i], c.real.net[i], NetFields)
  BY <1>3, <1>4, <1>5, <1>6, <1>7, NoneAssumption DEF Later, GrewAll, Grew
<1>11. a.boot = c.boot => ExactHost(a, c)
  <2> SUFFICES ASSUME a.boot = c.boot PROVE ExactHost(a, c)
    OBVIOUS
  <2>1. l.boot = k.boot /\ l.host = k.host
    BY <1>4
  <2>2. ExactHost(a, b) /\ \A f \in HostFields : Shown(b)[f] = Shown(c)[f]
    BY <1>3, <1>4, <1>7, <2>1 DEF Later
  <2> QED
    BY <1>3, <1>4, <2>2 DEF ExactHost, Exact
<1>12. a.resets <= n
  BY <1>3, <1>7 DEF Later
<1>13. Later(a, c)
  BY <1>4, <1>6, <1>8, <1>9, <1>10, <1>11, <1>12 DEF Later, GrewAll
<1> QED
  BY <1>2, <1>13

(* A stored row is a sample with a time. *)
LEMMA StoredRows ==
    ASSUME TypeOK, NEW s \in Servers, NEW t \in Times(db, s)
    PROVE  Row(db, s, t) \in Samples /\ t \in Nat
<1>1. db[s] \in Knowledge
  BY DEF TypeOK
<1>2. db[s].rows \in Stored
  BY <1>1 DEF Knowledge
<1>3. PICK T \in SUBSET Nat : db[s].rows \in [T -> Samples]
  BY <1>2 DEF Stored
<1> QED
  BY <1>3 DEF Row, Times

(* The history is known initially. *)
LEMMA HistoryInit ==
    ASSUME Init
    PROVE  HistoryInv
<1>1. ASSUME NEW s \in Servers
      PROVE  /\ db[s].os = Machine[s].os
             /\ kernel[s].boot <= now
             /\ \A t \in Times(db, s) : RowInv(s, Row(db, s, t))
             /\ \A t, u \in Times(db, s) :
                   Later(Row(db, s, t), Row(db, s, u)) \/ Later(Row(db, s, u), Row(db, s, t))
  <2>0. FirstWork \in Efforts /\ now \in Nat /\ 0 < now
    BY StoreAssumption DEF Init
  <2>1. kernel[s] \in Kernels /\ kernel[s].boot = 0 /\ real[s] \in Tallies /\ resets[s] = 0
    <3>1. kernel[s] = Started(Base, 0) /\ real[s] = Base /\ resets[s] = 0
      BY DEF Init
    <3>2. Started(Base, 0) \in Kernels /\ Started(Base, 0).boot = 0
      BY StoreAssumption, StartedType DEF Started
    <3> QED
      BY <3>1, <3>2, StoreAssumption
  <2>2. /\ db[s].os = Machine[s].os
        /\ \A t \in Times(db, s) : Row(db, s, t) = Cur(s)
    <3>1. /\ db[s].os = Machine[s].os
          /\ db[s].rows = [t \in {StartTime} |-> SampleOf(s, kernel[s], FirstWork, real[s], 0)]
      BY DEF Init
    <3> QED
      BY <2>1, <3>1 DEF Times, Row, Cur
  <2>3. Later(Cur(s), Cur(s)) /\ Platform(s, Cur(s)) /\ Cur(s).boot = 0
    BY <2>0, <2>1, LaterSame, SampleShows DEF Cur
  <2> QED
    BY <2>0, <2>1, <2>2, <2>3 DEF RowInv
<1> QED
  BY <1>1 DEF HistoryInv

(* An interval of work, stored or not, keeps the history. *)
LEMMA HistoryWork ==
    ASSUME TypeOK, HistoryInv, NEW s \in Servers, NEW w \in Works[s], NEW at \in Nat \cup {None},
           Worked(s, w, at)
    PROVE  HistoryInv'
<1>0. /\ TypeOK' /\ w \in Efforts
      /\ now' = now + 1 /\ resets' = resets
      /\ kernel' = [kernel EXCEPT ![s] = Started(Grow(kernel[s], w), kernel[s].boot)]
      /\ real' = [real EXCEPT ![s] = Grow(real[s], w)]
      /\ \A x \in Servers : db'[x].os = db[x].os
      /\ \A x \in Servers : \A t \in Times(db', x) :
            \/ t \in Times(db, x) /\ db'[x].rows[t] = db[x].rows[t]
            \/ x = s /\ db'[x].rows[t] = SampleOf(s, kernel'[s], w, real'[s], resets[s])
  BY WorkedStep
<1>1. FirstWork \in Efforts /\ now \in Nat
  BY StoreAssumption DEF TypeOK
<1>2. ASSUME NEW x \in Servers, x # s
      PROVE  /\ kernel'[x] = kernel[x] /\ real'[x] = real[x] /\ resets'[x] = resets[x]
             /\ Times(db', x) \subseteq Times(db, x)
             /\ \A t \in Times(db', x) : Row(db', x, t) = Row(db, x, t)
  BY <1>0, <1>2 DEF TypeOK, Row, Times
<1>3. /\ kernel[s] \in Kernels /\ real[s] \in Tallies /\ resets[s] \in Nat
      /\ kernel'[s] \in Kernels /\ real'[s] \in Tallies /\ resets'[s] = resets[s]
      /\ kernel'[s] = Started(Grow(kernel[s], w), kernel[s].boot)
      /\ real'[s] = Grow(real[s], w)
      /\ kernel'[s].boot = kernel[s].boot
  BY <1>0 DEF TypeOK, Started
<1>4. PICK new : new = SampleOf(s, kernel'[s], w, real'[s], resets[s])
  OBVIOUS
<1>5. \A t \in Times(db', s) : \/ t \in Times(db, s) /\ Row(db', s, t) = Row(db, s, t)
                               \/ Row(db', s, t) = new
  BY <1>0, <1>4 DEF Row
<1>6. Later(new, Cur(s)') /\ Later(new, new) /\ Platform(s, new) /\ new.boot = kernel[s].boot
  BY <1>0, <1>1, <1>3, <1>4, LaterSame, SampleShows DEF Cur
<1>7. \A t \in Times(db, s) : Later(Row(db, s, t), Cur(s)') /\ Later(Row(db, s, t), new)
  <2> TAKE t \in Times(db, s)
  <2>1. Row(db, s, t) \in Samples
    BY StoredRows
  <2>2. PICK a \in Samples : a = Row(db, s, t)
    BY <2>1
  <2>3. Later(a, SampleOf(s, kernel[s], FirstWork, real[s], resets[s]))
    BY <2>2 DEF HistoryInv, RowInv, Cur
  <2>4. /\ Later(a, SampleOf(s, kernel'[s], FirstWork, real'[s], resets[s]))
        /\ Later(a, SampleOf(s, kernel'[s], w, real'[s], resets[s]))
    BY <1>0, <1>1, <1>3, <2>2, <2>3, LaterAfterWork
  <2> QED
    BY <1>3, <1>4, <2>2, <2>4 DEF Cur
<1>8. ASSUME NEW x \in Servers
      PROVE  /\ kernel[x].boot <= now /\ kernel[x].boot \in Nat
             /\ \A t \in Times(db, x) : Platform(x, Row(db, x, t)) /\ Row(db, x, t).boot < now
             /\ \A t \in Times(db, x) : Row(db, x, t).boot \in Nat
  BY StoredRows DEF HistoryInv, RowInv, TypeOK, Kernels, Samples
<1>9. ASSUME NEW x \in Servers
      PROVE  /\ kernel'[x].boot <= now'
             /\ \A t \in Times(db', x) : RowInv(x, Row(db, x, t))'
             /\ \A t, u \in Times(db', x) :
                   Later(Row(db', x, t), Row(db', x, u)) \/ Later(Row(db', x, u), Row(db', x, t))
  <2>1. CASE x # s
    <3>1. Cur(x)' = Cur(x)
      BY <1>2, <2>1 DEF Cur
    <3>2. kernel'[x].boot <= now'
      BY <1>0, <1>1, <1>2, <1>8, <2>1
    <3>3. \A t \in Times(db', x) : RowInv(x, Row(db, x, t))'
      <4> TAKE t \in Times(db', x)
      <4>1. Row(db', x, t) = Row(db, x, t) /\ t \in Times(db, x)
        BY <1>2, <2>1
      <4>2. RowInv(x, Row(db, x, t))
        BY <4>1 DEF HistoryInv
      <4>3. Row(db, x, t).boot < now'
        BY <1>0, <1>1, <1>8, <4>1
      <4> QED
        BY <3>1, <4>1, <4>2, <4>3 DEF RowInv, Platform
    <3> QED
      BY <1>2, <2>1, <3>2, <3>3 DEF HistoryInv
  <2>2. CASE x = s
    <3>1. kernel'[s].boot <= now' /\ new.boot < now'
      BY <1>0, <1>1, <1>3, <1>6, <1>8
    <3>2. \A t \in Times(db', s) : RowInv(s, Row(db, s, t))'
      <4> TAKE t \in Times(db', s)
      <4>1. CASE Row(db', s, t) = new
        BY <1>6, <3>1, <4>1 DEF RowInv, Platform
      <4>2. CASE t \in Times(db, s) /\ Row(db', s, t) = Row(db, s, t)
        <5>1. Row(db, s, t).boot < now'
          BY <1>0, <1>1, <1>8, <4>2
        <5> QED
          BY <1>7, <1>8, <4>2, <5>1 DEF RowInv, Platform
      <4> QED
        BY <1>5, <4>1, <4>2
    <3>3. \A t, u \in Times(db', s) :
             Later(Row(db', s, t), Row(db', s, u)) \/ Later(Row(db', s, u), Row(db', s, t))
      BY <1>5, <1>6, <1>7 DEF HistoryInv
    <3> QED
      BY <2>2, <3>1, <3>2, <3>3
  <2> QED
    BY <2>1, <2>2
<1> QED
  BY <1>0, <1>9 DEF HistoryInv

(* A reset keeps the history. *)
LEMMA HistoryReset ==
    ASSUME TypeOK, HistoryInv, NEW s \in Servers, NEW k \in Kernels, ResetTo(s, k),
           \/ k = Started(Boot, now)
           \/ \E i \in Ifaces : k = [kernel[s] EXCEPT !.net[i] = Boot.net[i]]
    PROVE  HistoryInv'
<1>1. /\ \A f \in HostFields : k.host[f] <= kernel[s].host[f]
      /\ \A d \in Disks, f \in DiskFields : k.disk[d][f] <= kernel[s].disk[d][f]
      /\ \A i \in Ifaces, f \in NetFields : k.net[i][f] <= kernel[s].net[i][f]
      /\ k.boot \in {now, kernel[s].boot}
      /\ k.boot # now => k.boot = kernel[s].boot /\ k.host = kernel[s].host
  <2>1. kernel[s] \in Kernels
    BY DEF TypeOK
  <2>2. CASE k = Started(Boot, now)
    BY <2>1, <2>2, StoreAssumption DEF Started, Kernels, Tallies
  <2>3. ASSUME NEW j \in Ifaces, k = [kernel[s] EXCEPT !.net[j] = Boot.net[j]]
        PROVE  /\ k.host = kernel[s].host /\ k.disk = kernel[s].disk /\ k.boot = kernel[s].boot
               /\ \A i \in Ifaces, f \in NetFields : k.net[i][f] <= kernel[s].net[i][f]
    BY <2>1, <2>3, StoreAssumption DEF Kernels, Tallies
  <2> QED
    BY <2>1, <2>2, <2>3 DEF Kernels
<1>2. /\ now' = now /\ db' = db /\ real' = real
      /\ \A x \in Servers : kernel'[x] = IF x = s THEN k ELSE kernel[x]
      /\ \A x \in Servers : resets'[x] = IF x = s THEN resets[s] + 1 ELSE resets[x]
  BY DEF ResetTo, TypeOK
<1>3. ASSUME NEW x \in Servers PROVE kernel'[x].boot <= now'
  <2>1. kernel[x].boot <= now /\ now \in Nat /\ kernel[s].boot <= now
    BY DEF HistoryInv, TypeOK
  <2>2. CASE x = s
    BY <1>1, <1>2, <2>1, <2>2
  <2>3. CASE x # s
    BY <1>2, <2>1, <2>3
  <2> QED
    BY <2>2, <2>3
<1>4. ASSUME NEW x \in Servers, NEW t \in Times(db, x)
      PROVE  Later(Row(db, x, t), Cur(x)')
  <2>1. CASE x # s
    BY <1>2, <2>1 DEF HistoryInv, RowInv, Cur
  <2>2. CASE x = s
    <3>1. PICK a \in Samples : a = Row(db, s, t) /\ a.boot < now
      BY <2>2, StoredRows DEF HistoryInv, RowInv
    <3>2. Later(a, SampleOf(s, kernel[s], FirstWork, real[s], resets[s]))
      BY <2>2, <3>1 DEF HistoryInv, RowInv, Cur
    <3>3. a.boot = k.boot => k.boot = kernel[s].boot /\ k.host = kernel[s].host
      BY <1>1, <3>1 DEF TypeOK, Samples
    <3>4. kernel[s] \in Kernels /\ real[s] \in Tallies /\ resets[s] \in Nat /\ FirstWork \in Efforts
      BY StoreAssumption DEF TypeOK
    <3>5. Later(a, SampleOf(s, k, FirstWork, real[s], resets[s] + 1))
      BY <1>1, <3>2, <3>3, <3>4, LaterAfterReset
    <3> QED
      BY <1>2, <2>2, <3>1, <3>5 DEF Cur
  <2> QED
    BY <2>1, <2>2
<1> QED
  BY <1>2, <1>3, <1>4 DEF HistoryInv, RowInv, Platform

(* Every step keeps the history. *)
LEMMA HistoryStep ==
    ASSUME TypeOK, HistoryInv, [Next]_vars
    PROVE  HistoryInv'
<1>1. CASE UNCHANGED vars
  BY <1>1 DEF vars, HistoryInv, RowInv, Platform, Cur
<1>2. ASSUME NEW s \in Servers, Registered(s) PROVE HistoryInv'
  <2>1. /\ UNCHANGED <<now, kernel, real, resets>>
        /\ \A x \in Servers :
              db'[x].rows = db[x].rows /\ db'[x].os = db[x].os
    BY <1>2, RegisteredStep
  <2>2. \A x \in Servers : /\ Times(db', x) = Times(db, x) /\ Cur(x)' = Cur(x)
                           /\ \A t : Row(db', x, t) = Row(db, x, t)
    BY <2>1 DEF Times, Row, Cur
  <2> QED
    BY <2>1, <2>2 DEF HistoryInv, RowInv, Platform
<1> QED
  BY <1>1, <1>2, StepCases, HistoryWork, HistoryReset

\* The history of every server's samples is as described above, for any number of
\* reboots, reloaded drivers, lost samples and wrong clocks.
THEOREM HistoryHolds == Spec => [](TypeOK /\ HistoryInv)
<1>1. Init => HistoryInv
  BY HistoryInit
<1>2. TypeOK /\ HistoryInv /\ [Next]_vars => HistoryInv'
  BY HistoryStep
<1> QED
  BY <1>1, <1>2, TypeCorrect, PTL DEF Spec

-----------------------------------------------------------------------------
(* The pages of samples *)

(* What is on a page, and when a page is empty. *)
LEMMA PageFacts ==
    ASSUME NEW T, T \subseteq Nat, IsFiniteSet(T), NEW cursor \in Gauge, NEW upper \in Nat,
           NEW limit \in Nat \ {0}
    PROVE  LET page == metric_snapshots(T, cursor, upper, limit) IN
           /\ page \subseteq T
           /\ \A t \in page : cursor # None => t < cursor
           /\ page # {} => Min(page) \in page
           /\ page = {} => \A t \in T : t >= upper - SnapshotWindow => cursor # None /\ t >= cursor
<1> DEFINE range == {t \in T : t >= upper - SnapshotWindow /\ (cursor = None \/ t < cursor)}
           page == {t \in range : Cardinality({u \in range : u > t}) < limit}
<1>1. page = metric_snapshots(T, cursor, upper, limit)
  BY DEF metric_snapshots
<1>2. page \subseteq T /\ \A t \in page : cursor # None => t < cursor
  OBVIOUS
<1>3. page # {} => Min(page) \in page
  <2>1. page \subseteq Nat
    OBVIOUS
  <2> HIDE DEF page
  <2> QED
    BY <2>1, LeastOfNats
<1>4. ASSUME range # {} PROVE page # {}
  <2>1. \A y \in range : y \in Int
    OBVIOUS
  <2>2. IsFiniteSet(range)
    BY FS_Subset
  <2>3. PICK t \in range : \A y \in range : t >= y
    <3>1. range \subseteq Int
      BY <2>1
    <3> HIDE DEF range
    <3> QED
      BY <1>4, <2>2, <3>1, Extremes
  <2>4. {u \in range : u > t} = {}
    <3> HIDE DEF range
    <3>1. ASSUME NEW u \in range, u > t PROVE FALSE
      BY <2>1, <2>3, <3>1
    <3> QED
      BY <3>1
  <2>5. Cardinality({u \in range : u > t}) < limit
    BY <2>4, FS_EmptySet
  <2> QED
    BY <2>3, <2>5
<1>5. ASSUME page = {}, NEW t \in T, t >= upper - SnapshotWindow
      PROVE  cursor # None /\ t >= cursor
  <2>1. t \notin range
    BY <1>4, <1>5
  <2>2. cursor # None /\ ~(t < cursor)
    BY <1>5, <2>1
  <2> QED
    BY <2>2 DEF Gauge
<1> HIDE DEF page
<1> QED
  BY <1>1, <1>2, <1>3, <1>5

\* The cursors are those that the recursion over the pages gives.
LEMMA CursorSteps ==
    ASSUME now \in Nat, NEW T, T \subseteq Nat, IsFiniteSet(T), NEW limit \in Nat \ {0}
    PROVE  LET cur == CursorAfter(T, limit)
               page(n) == metric_snapshots(T, IF n = 1 THEN None ELSE cur[n - 1], cur[n - 1], limit)
           IN  /\ cur \in [Nat -> Gauge] /\ cur[0] = now
               /\ \A n \in Nat \ {0} :
                     cur[n] = IF cur[n - 1] = None \/ page(n) = {} THEN None ELSE Min(page(n))
<1> DEFINE After(n, v) == metric_snapshots(T, IF n = 1 THEN None ELSE v, v, limit)
           g == [n \in Nat |-> [v \in Gauge |->
                    IF v = None \/ After(n, v) = {} THEN None ELSE Min(After(n, v))]]
           Body(c) == [n \in Nat |->
                          IF n = 0 THEN now
                          ELSE IF c[n - 1] = None THEN None
                          ELSE IF After(n, c[n - 1]) = {} THEN None ELSE Min(After(n, c[n - 1]))]
           cur == CursorAfter(T, limit)
<1>1. ASSUME NEW n \in Nat, NEW v \in Gauge, v # None, After(n, v) # {}
      PROVE  Min(After(n, v)) \in Gauge
  <2>1. v \in Nat /\ (IF n = 1 THEN None ELSE v) \in Gauge
    BY <1>1 DEF Gauge
  <2>2. After(n, v) \subseteq T /\ Min(After(n, v)) \in After(n, v)
    BY <1>1, <2>1, PageFacts
  <2> QED
    BY <2>2 DEF Gauge
<1>2. g \in [Nat -> [Gauge -> Gauge]]
  <2> HIDE DEF After
  <2>1. ASSUME NEW n \in Nat, NEW v \in Gauge
        PROVE  (IF v = None \/ After(n, v) = {} THEN None ELSE Min(After(n, v))) \in Gauge
    BY <1>1 DEF Gauge
  <2> QED
    BY <2>1
<1> HIDE DEF g
<1>3. now \in Gauge
  BY DEF Gauge
<1>4. PICK f \in [Nat -> Gauge] : f = [n \in Nat |-> IF n = 0 THEN now ELSE g[n][f[n - 1]]]
  <2> DEFINE a == now
  <2>1. a \in Gauge
    BY <1>3
  <2> HIDE DEF a
  <2>2. \E f \in [Nat -> Gauge] : f = [n \in Nat |-> IF n = 0 THEN a ELSE g[n][f[n - 1]]]
    BY <1>2, <2>1, Recursion
  <2> QED
    BY <2>2 DEF a
<1>5. f = Body(f)
  <2> HIDE DEF After
  <2>1. ASSUME NEW n \in Nat, n # 0
        PROVE  g[n][f[n - 1]] = IF f[n - 1] = None THEN None
                                ELSE IF After(n, f[n - 1]) = {} THEN None ELSE Min(After(n, f[n - 1]))
    <3>1. f[n - 1] \in Gauge
      BY <2>1
    <3> QED
      BY <2>1, <3>1 DEF g
  <2> QED
    BY <1>4, <2>1
<1>6. cur = CHOOSE c : c = Body(c)
  BY DEF CursorAfter
<1>7. cur = Body(cur)
  <2> HIDE DEF Body, cur
  <2> QED
    BY <1>5, <1>6
<1>8. \A n \in Nat : cur[n] \in Gauge
  <2> HIDE DEF After, cur
  <2> DEFINE Bad == {n \in Nat : cur[n] \notin Gauge}
  <2> SUFFICES ASSUME Bad # {} PROVE FALSE
    OBVIOUS
  <2>1. PICK m \in Bad : \A n \in Bad : m <= n
    <3>1. Bad \subseteq Nat
      OBVIOUS
    <3> HIDE DEF Bad
    <3> QED
      BY <3>1, LeastOfNats
  <2>2. m \in Nat /\ cur[m] \notin Gauge
    BY <2>1
  <2>3. m # 0
    BY <1>3, <1>7, <2>2
  <2>4. m - 1 \in Nat /\ m - 1 \notin Bad
    <3> HIDE DEF Bad
    <3> QED
      BY <2>1, <2>2, <2>3
  <2>5. cur[m - 1] \in Gauge
    BY <2>4
  <2>6. cur[m] = IF cur[m - 1] = None \/ After(m, cur[m - 1]) = {} THEN None ELSE Min(After(m, cur[m - 1]))
    BY <1>7, <2>2, <2>3
  <2> QED
    BY <1>1, <2>2, <2>5, <2>6 DEF Gauge
<1>9. cur \in [Nat -> Gauge]
  <2> HIDE DEF After, cur
  <2> QED
    BY <1>7, <1>8
<1>10. cur[0] = now
  <2> HIDE DEF After, cur
  <2> QED
    BY <1>7
<1>11. ASSUME NEW n \in Nat \ {0}
       PROVE  cur[n] = IF cur[n - 1] = None \/ After(n, cur[n - 1]) = {} THEN None
                       ELSE Min(After(n, cur[n - 1]))
  <2> HIDE DEF After, cur
  <2> QED
    BY <1>7
<1> QED
  BY <1>9, <1>10, <1>11

\* The pages go back in time, so the n-th cursor has n samples at or after it.
LEMMA CursorsDescend ==
    ASSUME now \in Nat, NEW T, T \subseteq Nat, IsFiniteSet(T), NEW limit \in Nat \ {0},
           NEW n \in Nat \ {0}, CursorAfter(T, limit)[n] # None
    PROVE  n <= Cardinality(T)
<1> DEFINE c == CursorAfter(T, limit)
           page(m) == metric_snapshots(T, IF m = 1 THEN None ELSE c[m - 1], c[m - 1], limit)
           Seen(m) == {t \in T : t >= c[m]}
<1>1. /\ c \in [Nat -> Gauge] /\ c[0] = now
      /\ \A m \in Nat \ {0} : c[m] = IF c[m - 1] = None \/ page(m) = {} THEN None ELSE Min(page(m))
  BY CursorSteps
<1> HIDE DEF c
<1>2. ASSUME NEW m \in Nat \ {0}, c[m] # None
      PROVE  /\ c[m - 1] # None /\ c[m] \in T
             /\ m # 1 => c[m] < c[m - 1]
  <2>1. m - 1 \in Nat /\ c[m - 1] # None /\ page(m) # {} /\ c[m] = Min(page(m))
    BY <1>1, <1>2
  <2>2. c[m - 1] \in Nat /\ (IF m = 1 THEN None ELSE c[m - 1]) \in Gauge
    BY <1>1, <2>1 DEF Gauge
  <2>3. /\ page(m) \subseteq T /\ Min(page(m)) \in page(m)
        /\ \A t \in page(m) : m # 1 => t < c[m - 1]
    BY <2>1, <2>2, PageFacts
  <2> QED
    BY <2>1, <2>3
<1>3. \A m \in Nat : IsFiniteSet(Seen(m)) /\ Cardinality(Seen(m)) \in Nat /\ Cardinality(Seen(m)) <= Cardinality(T)
  BY FS_Subset, FS_CardinalityType
<1> DEFINE Few == {m \in Nat \ {0} : c[m] # None /\ ~(m <= Cardinality(Seen(m)))}
<1>4. Few = {}
  <2> SUFFICES ASSUME Few # {} PROVE FALSE
    OBVIOUS
  <2>1. PICK m \in Few : \A k \in Few : m <= k
    <3>1. Few \subseteq Nat
      OBVIOUS
    <3> HIDE DEF Few
    <3> QED
      BY <3>1, LeastOfNats
  <2>2. m \in Nat \ {0} /\ c[m] # None /\ ~(m <= Cardinality(Seen(m)))
    BY <2>1
  <2>3. c[m] \in T /\ c[m] \in Seen(m) /\ c[m - 1] # None
    <3>1. c[m] \in T /\ c[m - 1] # None
      BY <1>2, <2>2
    <3>2. c[m] \in Nat
      BY <3>1
    <3>3. c[m] >= c[m]
      BY <3>2
    <3> QED
      BY <3>1, <3>3
  <2>4. CASE m = 1
    <3>1. Cardinality(Seen(m)) # 0
      BY <1>3, <2>2, <2>3, FS_EmptySet
    <3> QED
      BY <1>3, <2>2, <2>4, <3>1
  <2>5. CASE m # 1
    <3>1. m - 1 \in Nat \ {0} /\ m - 1 \notin Few
      <4> HIDE DEF Few
      <4> QED
        BY <2>1, <2>2, <2>5
    <3>2. m - 1 <= Cardinality(Seen(m - 1))
      BY <2>3, <3>1
    <3>3. c[m - 1] \in T /\ c[m] < c[m - 1] /\ c[m] \in Nat /\ c[m - 1] \in Nat
      BY <1>2, <2>2, <2>3, <2>5, <3>1
    <3>4. Seen(m - 1) \subseteq Seen(m) \ {c[m]}
      <4>1. ASSUME NEW t \in T, t >= c[m - 1] PROVE t >= c[m] /\ t # c[m]
        BY <3>3, <4>1
      <4> QED
        BY <4>1
    <3> HIDE DEF Seen
    <3>5. IsFiniteSet(Seen(m) \ {c[m]}) /\ Cardinality(Seen(m) \ {c[m]}) = Cardinality(Seen(m)) - 1
      BY <1>3, <2>2, <2>3, FS_RemoveElement
    <3>6. Cardinality(Seen(m - 1)) <= Cardinality(Seen(m)) - 1
      BY <3>4, <3>5, FS_Subset
    <3> QED
      BY <1>3, <2>2, <3>1, <3>2, <3>6
  <2> QED
    BY <2>4, <2>5
<1>5. n <= Cardinality(Seen(n))
  BY <1>4 DEF c
<1>6. Cardinality(T) \in Nat
  BY FS_CardinalityType
<1> HIDE DEF Seen
<1> QED
  BY <1>3, <1>5, <1>6

\* The last page is followed by a silence.
LEMMA PagesReach ==
    ASSUME now \in Nat, NEW T, T \subseteq Nat, IsFiniteSet(T), NEW limit \in Nat \ {0}
    PROVE  LET pages == {n \in 0..(Cardinality(T) + 1) : CursorAfter(T, limit)[n] # None}
               last == CursorAfter(T, limit)[Max(pages)]
           IN  \A t \in T : t < last => last - t > SnapshotWindow
<1> DEFINE c == CursorAfter(T, limit)
           page(m) == metric_snapshots(T, IF m = 1 THEN None ELSE c[m - 1], c[m - 1], limit)
           pages == {n \in 0..(Cardinality(T) + 1) : c[n] # None}
           m == Max(pages)
<1>1. /\ c \in [Nat -> Gauge] /\ c[0] = now
      /\ \A k \in Nat \ {0} : c[k] = IF c[k - 1] = None \/ page(k) = {} THEN None ELSE Min(page(k))
  BY CursorSteps
<1>2. \A k \in Nat \ {0} : c[k] # None => k <= Cardinality(T)
  BY CursorsDescend
<1>3. Cardinality(T) \in Nat
  BY FS_CardinalityType
<1> HIDE DEF c
<1>4. 0 \in pages
  BY <1>1, <1>3, NoneAssumption
<1>5. pages \subseteq Int /\ IsFiniteSet(pages)
  <2>1. IsFiniteSet(0..(Cardinality(T) + 1))
    BY <1>3, FS_Interval
  <2>2. pages \in SUBSET (0..(Cardinality(T) + 1))
    OBVIOUS
  <2>3. IsFiniteSet(pages)
    BY <2>1, <2>2, FS_Subset
  <2>4. pages \subseteq Int
    BY <2>2
  <2> QED
    BY <2>3, <2>4
<1>6. m \in pages /\ \A k \in pages : m >= k
  <2> HIDE DEF pages
  <2> QED
    BY <1>4, <1>5, Extremes
<1> HIDE DEF m
<1>7. m \in Nat /\ c[m] # None /\ m <= Cardinality(T) /\ m + 1 \in 0..(Cardinality(T) + 1) /\ m + 1 \notin pages
  <2>1. m \in Nat /\ c[m] # None /\ m \in Int
    BY <1>3, <1>6
  <2>2. m <= Cardinality(T)
    BY <1>2, <1>3, <2>1
  <2>3. m + 1 \notin pages
    <3> HIDE DEF pages
    <3> QED
      BY <1>6, <2>1
  <2> QED
    BY <1>3, <2>1, <2>2, <2>3
<1>8. c[m + 1] = None /\ m + 1 \in Nat \ {0} /\ (m + 1) - 1 = m
  BY <1>7
<1>9. c[m] \in Nat
  BY <1>1, <1>7 DEF Gauge
<1>10. page(m + 1) = {}
  <2>1. CASE page(m + 1) # {}
    <3>1. c[m + 1] = Min(page(m + 1))
      BY <1>1, <1>7, <1>8, <2>1
    <3>2. PICK at \in Gauge, up \in Nat : at = (IF m + 1 = 1 THEN None ELSE c[(m + 1) - 1]) /\ up = c[(m + 1) - 1]
      BY <1>8, <1>9 DEF Gauge
    <3>3. page(m + 1) \subseteq T /\ Min(page(m + 1)) \in page(m + 1)
      <4>1. page(m + 1) = metric_snapshots(T, at, up, limit)
        BY <3>2
      <4>2. /\ metric_snapshots(T, at, up, limit) \subseteq T
            /\ metric_snapshots(T, at, up, limit) # {} =>
                  Min(metric_snapshots(T, at, up, limit)) \in metric_snapshots(T, at, up, limit)
        BY PageFacts
      <4> HIDE DEF page
      <4> QED
        BY <2>1, <4>1, <4>2
    <3>4. Min(page(m + 1)) \in Nat
      BY <3>3
    <3>5. None \notin Nat
      BY NoneAssumption
    <3> HIDE DEF page
    <3> QED
      BY <1>8, <3>1, <3>4, <3>5
  <2> QED
    BY <2>1
<1>11. \A t \in T : t >= c[m] - SnapshotWindow => t >= c[m]
  <2>1. (IF m + 1 = 1 THEN None ELSE c[m]) \in Gauge
    BY <1>9 DEF Gauge
  <2>2. \A t \in T : t >= c[m] - SnapshotWindow =>
            /\ (IF m + 1 = 1 THEN None ELSE c[m]) # None
            /\ t >= (IF m + 1 = 1 THEN None ELSE c[m])
    BY <1>8, <1>9, <1>10, <2>1, PageFacts
  <2> QED
    BY <2>2
<1>12. ASSUME NEW t \in T, t < c[m] PROVE c[m] - t > SnapshotWindow
  <2>1. ~(t >= c[m] - SnapshotWindow)
    BY <1>9, <1>11, <1>12
  <2>2. SnapshotWindow \in Nat
    BY SnapshotAssumption
  <2> QED
    BY <1>9, <2>1, <2>2
<1> QED
  BY <1>12 DEF m, c

(* A server has finitely many rows, at natural times. *)
LEMMA TimesType ==
    ASSUME TypeOK, NEW s \in Servers
    PROVE  Times(db, s) \subseteq Nat /\ IsFiniteSet(Times(db, s))
BY StoredRows DEF TypeOK

\* Following the cursor of metric_snapshots reaches every sample of a server, or
\* stops in front of a silence longer than the window of one page, for any number
\* of samples, any window and whatever the agent's clock did.
THEOREM PagesEndAtAGap == Spec => []PagesStopOnlyAtAGap
<1>1. ASSUME TypeOK PROVE PagesStopOnlyAtAGap
  <2> SUFFICES ASSUME NEW s \in Servers, NEW limit \in 1..2
               PROVE  LET T == Times(db, s)
                          pages == {n \in 0..(Cardinality(T) + 1) : CursorAfter(T, limit)[n] # None}
                          last == CursorAfter(T, limit)[Max(pages)]
                      IN  \A t \in T : t < last => last - t > SnapshotWindow
    BY DEF PagesStopOnlyAtAGap
  <2>1. PICK T : T = Times(db, s) /\ T \subseteq Nat /\ IsFiniteSet(T)
    BY <1>1, TimesType
  <2>2. now \in Nat /\ limit \in Nat \ {0}
    BY <1>1 DEF TypeOK
  <2>3. LET pages == {n \in 0..(Cardinality(T) + 1) : CursorAfter(T, limit)[n] # None}
            last == CursorAfter(T, limit)[Max(pages)]
        IN  \A t \in T : t < last => last - t > SnapshotWindow
    BY <2>1, <2>2, PagesReach
  <2> QED
    BY <2>1, <2>3
<1> QED
  BY <1>1, TypeCorrect, PTL

-----------------------------------------------------------------------------
(* Errors *)

\* Between two samples without a reset, or of one boot, the counters of the host
\* moved as much as there was work.
LEMMA HostMoved ==
    ASSUME TypeOK, HistoryInv, NEW s \in Servers, NEW t \in Times(db, s), NEW u \in Times(db, s),
           \/ NoReset(s, t, u)
           \/ Row(db, s, t).boot = Row(db, s, u).boot,
           NEW f \in HostFields,
           Shown(Row(db, s, t))[f] # None, Shown(Row(db, s, u))[f] # None
    PROVE  Shown(Row(db, s, u))[f] - Shown(Row(db, s, t))[f] = Did(s, t, u, f)
<1>1. PICK a \in Samples, b \in Samples : a = Row(db, s, t) /\ b = Row(db, s, u)
  BY StoredRows
<1>2. a.resets = b.resets \/ a.boot = b.boot
  BY <1>1 DEF NoReset
<1>3. Later(a, b) \/ Later(b, a)
  BY <1>1 DEF HistoryInv
<1>4. ExactHost(a, b) \/ ExactHost(b, a)
  BY <1>2, <1>3 DEF Later
<1>5. PICK p \in Nat, q \in Nat : p = Shown(a)[f] /\ q = Shown(b)[f]
  BY <1>1 DEF Shown, Samples, Gauge, HostFields
<1>6. PICK x \in Nat, y \in Nat : x = a.real.host[f] /\ y = b.real.host[f]
  BY DEF Samples, Tallies
<1>7. q - p = y - x \/ p - q = x - y
  BY <1>1, <1>4, <1>5, <1>6 DEF ExactHost, Exact
<1>8. Did(s, t, u, f) = y - x
  BY <1>1, <1>6 DEF Did
<1> QED
  BY <1>1, <1>5, <1>7, <1>8

(* The same for some of its rows. *)
LEMMA RecentType ==
    ASSUME TypeOK, NEW s \in Servers, NEW T, T \subseteq Times(db, s)
    PROVE  T \subseteq Nat /\ IsFiniteSet(T)
BY TimesType, FS_Subset

\* A counter with a positive spread was higher in one row than in another.
LEMMA SpreadWitness ==
    ASSUME TypeOK, NEW s \in Servers, NEW T, T \subseteq Times(db, s), Counted(db, s, T, "oom") > 0
    PROVE  \E t, u \in T : Row(db, s, u).oom > Row(db, s, t).oom
<1> DEFINE f == [t \in T |-> Row(db, s, t)["oom"]]
           V == {f[t] : t \in T}
<1>1. V = {Row(db, s, t)["oom"] : t \in T}
  OBVIOUS
<1>2. V # {}
  BY <1>1 DEF Counted, Spread
<1>3. \A t \in T : Row(db, s, t)["oom"] \in Nat
  <2> TAKE t \in T
  <2>1. Row(db, s, t) \in Samples
    BY StoredRows
  <2> QED
    BY <2>1 DEF Samples
<1>4. V \subseteq Int
  BY <1>3
<1>5. IsFiniteSet(V)
  <2>1. IsFiniteSet(T) /\ DOMAIN f = T
    BY RecentType
  <2> HIDE DEF f
  <2> QED
    BY <2>1, FiniteImage
<1>6. Max(V) \in V /\ Min(V) \in V
  <2> HIDE DEF V
  <2> QED
    BY <1>2, <1>4, <1>5, Extremes
<1>7. Max(V) - Min(V) > 0
  BY <1>1, <1>2 DEF Counted, Spread
<1>8. PICK u \in T : Max(V) = Row(db, s, u)["oom"]
  BY <1>1, <1>6
<1>9. PICK t \in T : Min(V) = Row(db, s, t)["oom"]
  BY <1>1, <1>6
<1>10. Row(db, s, u)["oom"] > Row(db, s, t)["oom"]
  <2> HIDE DEF V
  <2> QED
    BY <1>3, <1>7, <1>8, <1>9
<1> QED
  BY <1>10

\* What the page of a server and the fleet's columns say of it.
LEMMA ErrorColumns ==
    ASSUME TypeOK, NEW s \in Servers,
           NEW page, page = build_error_signals(latest_errors(db, s, Since, now), db[s].os),
           NEW fleet, fleet = FleetErrors(db, s, Since, now),
           NEW T, T = Recent(Times(db, s), Since, now)
    PROVE  /\ page \subseteq {"mem_oom", "net_errors", "mem_corrupted"}
           /\ fleet \subseteq {"mem_oom", "net_errors", "mem_corrupted"}
           /\ "mem_oom" \in page <=> T # {} /\ Counted(db, s, T, "oom") > 0
           /\ "mem_oom" \in fleet <=> Counted(db, s, T, "oom") > 0
           /\ "net_errors" \in page <=> "net_errors" \in fleet
<1>1. page \subseteq {"mem_oom", "net_errors", "mem_corrupted"}
  BY Zenon DEF build_error_signals, Fired
<1>2. fleet \subseteq {"mem_oom", "net_errors", "mem_corrupted"}
  BY Zenon DEF FleetErrors, Fired
<1>3. "mem_oom" \in page <=> T # {} /\ Counted(db, s, T, "oom") > 0
  BY DEF build_error_signals, Fired, latest_errors
<1>4. "mem_oom" \in fleet <=> Counted(db, s, T, "oom") > 0
  BY DEF FleetErrors, Fired
<1>5. "net_errors" \in page <=> NicErrors(db, s, T) > 0
  BY DEF build_error_signals, Fired, latest_errors
<1>6. "net_errors" \in fleet <=> NicErrors(db, s, T) > 0
  BY DEF FleetErrors, Fired
<1> QED
  BY <1>1, <1>2, <1>3, <1>4, <1>5, <1>6

\* Damage that the page shows is in the fleet's column too, or it was reported by
\* a clock that is ahead.
LEMMA DamageShown ==
    ASSUME TypeOK, NEW s \in Servers,
           "mem_corrupted" \in build_error_signals(latest_errors(db, s, Since, now), db[s].os)
    PROVE  \/ "mem_corrupted" \in FleetErrors(db, s, Since, now)
           \/ \E t \in Times(db, s) : t > now + Skew
<1> DEFINE any == {t \in Times(db, s) : Since <= t}
           T == Recent(Times(db, s), Since, now)
           f == [t \in T |-> Row(db, s, t).corrupted]
           damage == Known({Row(db, s, t).corrupted : t \in T})
<1>1. Above(latest_errors(db, s, Since, now).corrupted, 0)
  BY DEF build_error_signals, Fired
<1>2. any # {} /\ Above(Row(db, s, Max(any)).corrupted, 0)
  BY <1>1 DEF latest_errors, Above
<1>3. any \subseteq Nat /\ IsFiniteSet(any)
  BY RecentType
<1>4. Max(any) \in any
  <2>1. any \subseteq Int
    BY <1>3
  <2> HIDE DEF any
  <2> QED
    BY <1>2, <1>3, <2>1, Extremes
<1>5. PICK m \in Times(db, s) : m = Max(any) /\ Since <= m
  BY <1>4
<1> HIDE DEF any
<1>6. m \in Nat /\ now + Skew \in Nat
  BY <1>5, TimesType, SnapshotAssumption DEF TypeOK
<1>7. CASE ~(m <= now + Skew)
  BY <1>5, <1>6, <1>7
<1>8. CASE m <= now + Skew
  <2>1. m \in T
    BY <1>5, <1>8 DEF Recent
  <2>2. T \subseteq Times(db, s)
    BY DEF Recent
  <2>3. IsFiniteSet(T)
    BY <2>2, RecentType
  <2>4. \A t \in T : Row(db, s, t).corrupted \in Gauge
    <3> TAKE t \in T
    <3>1. Row(db, s, t) \in Samples
      BY <2>2, StoredRows
    <3> QED
      BY <3>1 DEF Samples
  <2>5. PICK v : v = Row(db, s, m).corrupted /\ v # None /\ v > 0
    BY <1>2, <1>5 DEF Above
  <2>6. v \in damage
    BY <2>1, <2>5 DEF Known
  <2>7. damage \subseteq Int /\ damage \subseteq {f[t] : t \in T}
    BY <2>4 DEF Known, Gauge
  <2>8. IsFiniteSet(damage)
    <3>1. IsFiniteSet({f[t] : t \in T})
      <4>1. DOMAIN f = T
        OBVIOUS
      <4> HIDE DEF f, T
      <4> QED
        BY <2>3, <4>1, FiniteImage
    <3> QED
      BY <2>7, <3>1, FS_Subset
  <2>9. damage # {} /\ Max(damage) >= v /\ Max(damage) \in Int /\ v \in Int
    <3> HIDE DEF damage
    <3> QED
      BY <2>6, <2>7, <2>8, Extremes
  <2>10. damage # {} /\ Max(damage) > 0
    <3> HIDE DEF damage
    <3> QED
      BY <2>5, <2>9
  <2> QED
    BY <2>10 DEF FleetErrors, Fired
<1> QED
  BY <1>7, <1>8

\* The error indicators of a server's page and the fleet's columns agree, but for
\* damaged memory, and an OOM kill that is shown happened in the window unless
\* counters were set back in it: for every fleet, every window and every fault.
THEOREM ErrorsMatch == Spec => []ErrorsAgree
<1>1. ASSUME TypeOK, HistoryInv PROVE ErrorsAgree
  <2> DEFINE Page(s) == build_error_signals(latest_errors(db, s, Since, now), db[s].os)
             Fleet(s) == FleetErrors(db, s, Since, now)
             T(s) == Recent(Times(db, s), Since, now)
             Told(kinds) == {s \in Servers : Page(s) \cap kinds # {}}
  <2>1. ASSUME NEW s \in Servers
        PROVE  /\ Page(s) \subseteq {"mem_oom", "net_errors", "mem_corrupted"}
               /\ Fleet(s) \subseteq {"mem_oom", "net_errors", "mem_corrupted"}
               /\ "mem_oom" \in Page(s) <=> "mem_oom" \in Fleet(s)
               /\ "net_errors" \in Page(s) <=> "net_errors" \in Fleet(s)
               /\ "mem_oom" \in Page(s) => Counted(db, s, T(s), "oom") > 0
    <3>1. /\ Page(s) \subseteq {"mem_oom", "net_errors", "mem_corrupted"}
          /\ Fleet(s) \subseteq {"mem_oom", "net_errors", "mem_corrupted"}
          /\ "mem_oom" \in Page(s) <=> T(s) # {} /\ Counted(db, s, T(s), "oom") > 0
          /\ "mem_oom" \in Fleet(s) <=> Counted(db, s, T(s), "oom") > 0
          /\ "net_errors" \in Page(s) <=> "net_errors" \in Fleet(s)
      BY <1>1, ErrorColumns
    <3>2. T(s) = {} => Counted(db, s, T(s), "oom") = 0
      BY DEF Counted, Spread
    <3> HIDE DEF T, Page, Fleet
    <3> QED
      BY <3>1, <3>2
  <2>2. ASSUME NEW s \in Servers, "mem_oom" \in Page(s)
        PROVE  \E t, u \in T(s) : Did(s, t, u, "oom") > 0 \/ ~NoReset(s, t, u)
    <3>1. T(s) \subseteq Times(db, s)
      BY DEF Recent
    <3>2. PICK t \in T(s), u \in T(s) : Row(db, s, u).oom > Row(db, s, t).oom
      <4>1. Counted(db, s, T(s), "oom") > 0
        BY <2>1, <2>2
      <4> HIDE DEF T
      <4> QED
        BY <1>1, <3>1, <4>1, SpreadWitness
    <3>3. SUFFICES ASSUME NoReset(s, t, u) PROVE Did(s, t, u, "oom") > 0
      BY <3>2
    <3>4. t \in Times(db, s) /\ u \in Times(db, s)
      BY <3>1
    <3>5. Row(db, s, t) \in Samples /\ Row(db, s, u) \in Samples
      BY <1>1, <3>4, StoredRows
    <3>6. PICK p \in Nat, q \in Nat : p = Row(db, s, t).oom /\ q = Row(db, s, u).oom
      BY <3>5 DEF Samples
    <3>7. Shown(Row(db, s, t))["oom"] = p /\ Shown(Row(db, s, u))["oom"] = q
      BY <3>6 DEF Shown
    <3>8. p # None /\ q # None /\ "oom" \in HostFields
      BY NoneAssumption DEF HostFields
    <3>9. q - p = Did(s, t, u, "oom")
      <4>1. Shown(Row(db, s, u))["oom"] - Shown(Row(db, s, t))["oom"] = Did(s, t, u, "oom")
        BY <1>1, <3>3, <3>4, <3>7, <3>8, HostMoved
      <4> QED
        BY <3>7, <4>1
    <3> QED
      BY <3>2, <3>6, <3>9
  <2>3. ASSUME NEW s \in Servers, "mem_corrupted" \in Page(s)
        PROVE  "mem_corrupted" \in Fleet(s) \/ \E t \in Times(db, s) : t > now + Skew
    BY <1>1, <2>3, DamageShown
  <2> HIDE DEF Page, Fleet, T
  <2>4. \A s \in Servers : Page(s) \ {"mem_corrupted"} = Fleet(s) \ {"mem_corrupted"}
    BY <2>1
  <2>5. ASSUME NEW k \in {"mem_oom", "net_errors"}
        PROVE  fleet_error_summary(db, Servers, Since, now)[k] = Cardinality(Told({k}))
    <3>1. {s \in Servers : k \in Fleet(s)} = Told({k})
      BY <2>1
    <3>2. fleet_error_summary(db, Servers, Since, now)[k] = Cardinality({s \in Servers : k \in Fleet(s)})
      BY DEF fleet_error_summary, Fleet
    <3> QED
      BY <3>1, <3>2
  <2>6. Told({"mem_oom", "net_errors"}) \subseteq fleet_error_hosts(db, Servers, Since, now)
    <3>1. fleet_error_hosts(db, Servers, Since, now) = {s \in Servers : Fleet(s) # {}}
      BY DEF fleet_error_hosts, Fleet
    <3> QED
      BY <2>1, <3>1
  <2> QED
    BY <2>2, <2>3, <2>4, <2>5, <2>6 DEF ErrorsAgree, Page, Fleet, T
<1> QED
  BY <1>1, HistoryHolds, PTL

-----------------------------------------------------------------------------
(* Shares of a whole *)

(* The maximum of two numbers. *)
LEMMA MaxOfTwo ==
    ASSUME NEW a \in Int, NEW b \in Int
    PROVE  Max({a, b}) = IF a >= b THEN a ELSE b
<1>1. \E x \in {a, b} : \A y \in {a, b} : x >= y
  BY SMT
<1>2. Max({a, b}) \in {a, b} /\ \A y \in {a, b} : Max({a, b}) >= y
  BY <1>1 DEF Max
<1> QED
  BY <1>2

(* The minimum of two numbers. *)
LEMMA MinOfTwo ==
    ASSUME NEW a \in Int, NEW b \in Int
    PROVE  Min({a, b}) = IF a <= b THEN a ELSE b
<1>1. \E x \in {a, b} : \A y \in {a, b} : x =< y
  BY SMT
<1>2. Min({a, b}) \in {a, b} /\ \A y \in {a, b} : Min({a, b}) =< y
  BY <1>1 DEF Min
<1> QED
  BY <1>2

\* A part of the whole is a share of at most the scale.
LEMMA ShareOf ==
    ASSUME NEW scale \in Nat, NEW part \in Nat, NEW whole \in Nat, whole > 0, part <= whole
    PROVE  (scale * part) \div whole \in 0..scale
<1>1. scale * part \in Nat /\ scale * part <= scale * whole
  BY SMT
<1> DEFINE q == (scale * part) \div whole
           r == (scale * part) % whole
<1>2. q \in Int /\ r \in Int /\ 0 <= r /\ r < whole /\ scale * part = whole * q + r
  BY <1>1, SMT
<1> HIDE DEF q, r
<1>3. q >= 0
  <2> SUFFICES ASSUME q <= -1 PROVE FALSE
    BY <1>2
  <2>1. whole * q <= whole * (-1)
    BY <1>2, SMT
  <2>2. whole * (-1) = -whole
    BY SMT
  <2>3. whole * q \in Int
    BY <1>2
  <2> QED
    BY <1>1, <1>2, <2>1, <2>2, <2>3
<1>4. q <= scale
  <2> SUFFICES ASSUME q >= scale + 1 PROVE FALSE
    BY <1>2
  <2>1. whole * q >= whole * (scale + 1)
    BY <1>2, SMT
  <2>2. whole * (scale + 1) = scale * whole + whole
    BY SMT
  <2>3. whole * q \in Int /\ scale * whole \in Int
    BY <1>2
  <2> QED
    BY <1>1, <1>2, <2>1, <2>2, <2>3
<1> QED
  BY <1>2, <1>3, <1>4 DEF q

(* A usage is a gauge. *)
LEMMA UsageType ==
    ASSUME NEW used \in Gauge, NEW total \in Nat
    PROVE  usage_pct(used, total) \in Gauge
<1>1. CASE used = None \/ total = 0
  BY <1>1 DEF usage_pct, Gauge
<1>2. CASE used # None /\ total # 0
  <2>1. (1000 * used) \div total \in Int
    BY <1>2 DEF Gauge
  <2>2. Max({0, (1000 * used) \div total}) \in Nat
    BY <2>1, MaxOfTwo
  <2> QED
    BY <1>2, <2>2 DEF usage_pct, Gauge
<1> QED
  BY <1>1, <1>2

(* A clipped share fits into what remains. *)
LEMMA ClipFits ==
    ASSUME NEW pct \in Gauge, NEW room \in Nat
    PROVE  OrNull(_clip_to_remaining(pct, room)) \in 0..room
<1>1. CASE pct = None
  BY <1>1 DEF _clip_to_remaining, OrNull
<1>2. CASE pct # None
  <2>1. pct \in Nat
    BY <1>2 DEF Gauge
  <2>2. Max({0, room}) = room
    BY MaxOfTwo
  <2>3. Min({room, pct}) \in 0..room
    BY <2>1, MinOfTwo
  <2>4. Min({room, pct}) # None
    BY <2>3, NoneAssumption
  <2> QED
    BY <1>2, <2>2, <2>3, <2>4 DEF _clip_to_remaining, OrNull
<1> QED
  BY <1>1, <1>2

\* The four parts of the stacked memory bar are exactly the whole.
LEMMA BarIsFull ==
    ASSUME NEW m \in [limit : Gauge, available : Gauge, cached : Gauge, buffered : Gauge],
           NEW bar, bar = compute_mem(m), bar # None
    PROVE  /\ OrNull(bar.used) \in Nat /\ OrNull(bar.cached) \in Nat
           /\ OrNull(bar.buffers) \in Nat /\ OrNull(bar.free) \in Nat
           /\ OrNull(bar.used) + OrNull(bar.cached) + OrNull(bar.buffers) + OrNull(bar.free) = 1000
<1> DEFINE used == IF m.available = None THEN None ELSE Max({0, m.limit - m.available})
           usedPct == usage_pct(used, m.limit)
           room == 1000 - OrNull(usedPct)
           cached == _clip_to_remaining(usage_pct(m.cached, m.limit), room)
           left == room - OrNull(cached)
           buffers == _clip_to_remaining(usage_pct(m.buffered, m.limit), left)
           free == Max({0, left - OrNull(buffers)})
<1>1. m.limit # None /\ bar = [used |-> usedPct, cached |-> cached, buffers |-> buffers, free |-> free]
  BY DEF compute_mem
<1>2. m.limit \in Nat /\ m.available \in Gauge /\ m.cached \in Gauge /\ m.buffered \in Gauge
  BY <1>1 DEF Gauge
<1>3. used \in Gauge /\ (used # None => used <= m.limit)
  <2>1. CASE m.available = None
    BY <2>1 DEF Gauge
  <2>2. CASE m.available # None
    <3>1. m.available \in Nat
      BY <1>2, <2>2 DEF Gauge
    <3>2. Max({0, m.limit - m.available}) \in Nat /\ Max({0, m.limit - m.available}) <= m.limit
      BY <1>2, <3>1, MaxOfTwo
    <3> QED
      BY <2>2, <3>2 DEF Gauge
  <2> QED
    BY <2>1, <2>2
<1> HIDE DEF used
<1>4. OrNull(usedPct) \in 0..1000
  <2>1. CASE used = None \/ m.limit = 0
    BY <2>1 DEF usage_pct, OrNull
  <2>2. CASE used # None /\ m.limit # 0
    <3>1. PICK u \in Nat, w \in Nat : u = used /\ w = m.limit /\ w > 0 /\ u <= w
      BY <1>2, <1>3, <2>2 DEF Gauge
    <3>2. PICK q \in 0..1000 : q = (1000 * u) \div w
      <4>1. PICK scale \in Nat : scale = 1000
        OBVIOUS
      <4>2. (scale * u) \div w \in 0..scale
        BY <3>1, ShareOf
      <4> QED
        BY <4>1, <4>2
    <3>3. Max({0, q}) = q /\ q # None
      <4>1. q \in Int /\ 0 \in Int /\ q >= 0
        BY <3>2
      <4>2. Max({0, q}) = IF 0 >= q THEN 0 ELSE q
        BY <4>1, MaxOfTwo
      <4> QED
        BY <4>1, <4>2, NoneAssumption
    <3>4. usedPct = Max({0, q})
      BY <2>2, <3>1, <3>2 DEF usage_pct
    <3> QED
      BY <3>2, <3>3, <3>4 DEF OrNull
  <2> QED
    BY <2>1, <2>2
<1> HIDE DEF usedPct
<1>5. room \in Nat
  BY <1>4
<1>6. OrNull(usedPct) + room = 1000
  BY <1>4
<1> HIDE DEF room
<1>7. OrNull(cached) \in 0..room
  BY <1>2, <1>5, UsageType, ClipFits
<1> HIDE DEF cached
<1>8. left \in Nat /\ OrNull(cached) + left = room
  BY <1>5, <1>7
<1> HIDE DEF left
<1>9. OrNull(buffers) \in 0..left
  BY <1>2, <1>8, UsageType, ClipFits
<1> HIDE DEF buffers
<1>10. free \in Nat /\ OrNull(buffers) + free = left
  BY <1>8, <1>9, MaxOfTwo
<1>11. OrNull(free) = free
  BY <1>10, NoneAssumption DEF OrNull
<1> HIDE DEF free
<1>12. /\ OrNull(bar.used) = OrNull(usedPct) /\ OrNull(bar.cached) = OrNull(cached)
       /\ OrNull(bar.buffers) = OrNull(buffers) /\ OrNull(bar.free) = free
  BY <1>1, <1>11
<1> QED
  BY <1>4, <1>5, <1>6, <1>7, <1>8, <1>9, <1>10, <1>12

PartsOf(bar, parts) == MapThenSumSet(LAMBDA p : OrNull(bar[p]), parts)

(* The parts of the memory bar, as a sum. *)
LEMMA PartsTotal ==
    ASSUME NEW bar, NEW parts, NEW f, f = [p \in parts |-> OrNull(bar[p])]
    PROVE  PartsOf(bar, parts) = Total(f)
<1>1. PartsOf(bar, parts) = MapThenSumSet(LAMBDA x : f[x], parts)
  BY Zenon DEF PartsOf, MapThenSumSet, MapThenFoldSet
<1>2. DOMAIN f = parts
  OBVIOUS
<1> QED
  BY <1>1, <1>2 DEF Total

\* The same, as the sum over the parts.
LEMMA PartsAddUp ==
    ASSUME NEW m \in [limit : Gauge, available : Gauge, cached : Gauge, buffered : Gauge],
           NEW bar, bar = compute_mem(m), bar # None
    PROVE  /\ PartsOf(bar, {"used", "cached", "buffers", "free"}) = 1000
           /\ \A p \in {"used", "cached", "buffers", "free"} : OrNull(bar[p]) >= 0
<1> DEFINE parts == {"used", "cached", "buffers", "free"}
<1>0. PICK f : f = [p \in parts |-> OrNull(bar[p])]
  OBVIOUS
<1>1. /\ f["used"] \in Nat /\ f["cached"] \in Nat /\ f["buffers"] \in Nat /\ f["free"] \in Nat
      /\ f["used"] + f["cached"] + f["buffers"] + f["free"] = 1000
  BY <1>0, BarIsFull
<1>2. PartsOf(bar, parts) = Total(f)
  <2> HIDE DEF parts
  <2> QED
    BY <1>0, PartsTotal
<1>3. f \in [parts -> Int]
  BY <1>0, <1>1
<1>4. IsFiniteSet(parts)
  <2>1. IsFiniteSet({"used"})
    BY FS_Singleton
  <2>2. IsFiniteSet({"used"} \cup {"cached"})
    BY <2>1, FS_AddElement
  <2>3. IsFiniteSet(({"used"} \cup {"cached"}) \cup {"buffers"})
    BY <2>2, FS_AddElement
  <2>4. IsFiniteSet((({"used"} \cup {"cached"}) \cup {"buffers"}) \cup {"free"})
    BY <2>3, FS_AddElement
  <2>5. parts = (({"used"} \cup {"cached"}) \cup {"buffers"}) \cup {"free"}
    OBVIOUS
  <2> QED
    BY <2>4, <2>5
<1>5. \A p \in parts : OrNull(bar[p]) >= 0
  BY <1>0, <1>1
<1>6. PICK g \in [SUBSET parts -> Int] :
         /\ g[{}] = 0
         /\ \A T \in SUBSET parts : \A x \in parts \ T : g[T \cup {x}] = f[x] + g[T]
         /\ g[parts] = Total(f)
  <2> HIDE DEF parts
  <2> QED
    BY <1>3, <1>4, Sums
<1>7. g[{} \cup {"used"}] = f["used"] + g[{}]
  BY <1>6
<1>8. g[{"used"} \cup {"cached"}] = f["cached"] + g[{"used"}]
  BY <1>6
<1>9. g[{"used", "cached"} \cup {"buffers"}] = f["buffers"] + g[{"used", "cached"}]
  BY <1>6
<1>10. g[{"used", "cached", "buffers"} \cup {"free"}] = f["free"] + g[{"used", "cached", "buffers"}]
  BY <1>6
<1>11. /\ {} \cup {"used"} = {"used"} /\ {"used"} \cup {"cached"} = {"used", "cached"}
       /\ {"used", "cached"} \cup {"buffers"} = {"used", "cached", "buffers"}
       /\ {"used", "cached", "buffers"} \cup {"free"} = parts
  OBVIOUS
<1>12. g[parts] = 1000
  BY <1>1, <1>6, <1>7, <1>8, <1>9, <1>10, <1>11
<1> QED
  BY <1>2, <1>5, <1>6, <1>12

\* A step leads from an earlier sample of a server to a later one.
LEMMA StepFacts ==
    ASSUME TypeOK, NEW S \in SUBSET Servers, NEW win, NEW x \in HostSteps(db, S, win)
    PROVE  \E s \in S : \E u, t \in Times(db, s) : x = <<s, u, t>> /\ u < t
<1>1. PICK s \in S : x \in {<<s, st[1], st[2]>> : st \in Steps(Times(db, s), win)}
  BY DEF HostSteps
<1>2. PICK st \in Steps(Times(db, s), win) : x = <<s, st[1], st[2]>>
  BY <1>1
<1>3. st[1] \in Times(db, s) /\ st[2] \in Times(db, s) /\ st[1] < st[2]
  BY <1>2 DEF Steps, WithLead, InWindow
<1> QED
  BY <1>2, <1>3

(* A window has finitely many steps. *)
LEMMA StepsFinite ==
    ASSUME NEW T, IsFiniteSet(T), NEW win
    PROVE  IsFiniteSet(Steps(T, win))
<1>1. IsFiniteSet(WithLead(T, win)) /\ IsFiniteSet(InWindow(T, win))
  BY FS_Subset DEF WithLead, InWindow
<1>2. IsFiniteSet(WithLead(T, win) \X InWindow(T, win))
  BY <1>1, FS_Product
<1>3. Steps(T, win) \in SUBSET (WithLead(T, win) \X InWindow(T, win))
  BY DEF Steps
<1> QED
  BY <1>2, <1>3, FS_Subset

(* So has a window of several servers. *)
LEMMA HostStepsFinite ==
    ASSUME TypeOK, NEW S \in SUBSET Servers, NEW win
    PROVE  IsFiniteSet(HostSteps(db, S, win))
<1> DEFINE Of(s) == {<<s, st[1], st[2]>> : st \in Steps(Times(db, s), win)}
           g == [s \in S |-> Of(s)]
<1>1. ASSUME NEW s \in S PROVE IsFiniteSet(Of(s))
  <2> DEFINE D == Steps(Times(db, s), win)
             h == [st \in D |-> <<s, st[1], st[2]>>]
  <2>1. IsFiniteSet(D)
    BY StepsFinite, TimesType
  <2>2. DOMAIN h = D /\ Of(s) = {h[st] : st \in D}
    OBVIOUS
  <2> HIDE DEF h, D
  <2>3. IsFiniteSet({h[st] : st \in D})
    BY <2>1, <2>2, FiniteImage
  <2> HIDE DEF Of
  <2> QED
    BY <2>2, <2>3
<1>2. IsFiniteSet(S)
  BY StoreAssumption, FS_Subset
<1>3. DOMAIN g = S /\ {g[s] : s \in S} = {Of(s) : s \in S}
  OBVIOUS
<1>4. IsFiniteSet({g[s] : s \in S})
  <2> HIDE DEF g
  <2> QED
    BY <1>2, <1>3, FiniteImage
<1>5. HostSteps(db, S, win) = UNION {Of(s) : s \in S}
  BY DEF HostSteps
<1> HIDE DEF Of
<1>6. \A X \in {Of(s) : s \in S} : IsFiniteSet(X)
  BY <1>1
<1> QED
  BY <1>3, <1>4, <1>5, <1>6, FS_UNION

\* With a clock that is right the later of two samples has the later time.
LEMMA TimesInOrder ==
    ASSUME TypeOK, HistoryInv, NEW s \in Servers, NEW u \in Times(db, s), NEW t \in Times(db, s),
           u < t, ClockRight(s)
    PROVE  Later(Row(db, s, u), Row(db, s, t))
<1>1. PICK a \in Samples, b \in Samples : a = Row(db, s, u) /\ b = Row(db, s, t)
  BY StoredRows
<1>2. a.real.host["idle"] < b.real.host["idle"]
  BY <1>1 DEF ClockRight
<1>3. a.real.host["idle"] \in Nat /\ b.real.host["idle"] \in Nat
  BY DEF Samples, Tallies, HostFields
<1>4. CASE Later(b, a)
  <2>1. b.real.host["idle"] <= a.real.host["idle"]
    BY <1>4 DEF Later, GrewAll, Grew, HostFields
  <2> QED
    BY <1>2, <1>3, <2>1
<1>5. CASE Later(a, b)
  BY <1>1, <1>5
<1> QED
  BY <1>1, <1>4, <1>5 DEF HistoryInv

\* Between two samples of one boot the times the CPU counted have not decreased,
\* and it was idle for some time.
LEMMA CpuMoved ==
    ASSUME TypeOK, HistoryInv, NEW s \in Servers, NEW u \in Times(db, s), NEW t \in Times(db, s),
           u < t, ClockRight(s), NoReset(s, u, t) \/ Row(db, s, u).boot = Row(db, s, t).boot,
           NEW a, a = Row(db, s, u), NEW b, b = Row(db, s, t)
    PROVE  /\ b.user - a.user \in Nat /\ b.idle - a.idle \in Nat \ {0}
           /\ OrNull(b.iowait) - OrNull(a.iowait) \in Nat
           /\ a.user \in Nat /\ b.user \in Nat /\ a.idle \in Nat /\ b.idle \in Nat
           /\ OrNull(a.iowait) \in Nat /\ OrNull(b.iowait) \in Nat
<1>1. a \in Samples /\ b \in Samples
  BY StoredRows
<1>2. Later(a, b)
  BY TimesInOrder
<1>3. \A f \in HostFields : Did(s, u, t, f) >= 0 /\ Did(s, u, t, f) \in Int
  <2> TAKE f \in HostFields
  <2>1. a.real.host[f] <= b.real.host[f]
    BY <1>2 DEF Later, GrewAll, Grew
  <2>2. a.real.host[f] \in Nat /\ b.real.host[f] \in Nat
    BY <1>1 DEF Samples, Tallies
  <2> QED
    BY <2>1, <2>2 DEF Did
<1>4. Did(s, u, t, "idle") > 0
  <2>1. a.real.host["idle"] < b.real.host["idle"]
    BY DEF ClockRight
  <2>2. a.real.host["idle"] \in Nat /\ b.real.host["idle"] \in Nat
    BY <1>1 DEF Samples, Tallies, HostFields
  <2> QED
    BY <2>1, <2>2 DEF Did
<1>5. /\ a.user \in Nat /\ b.user \in Nat /\ a.idle \in Nat /\ b.idle \in Nat
      /\ a.iowait \in Gauge /\ b.iowait \in Gauge
  BY <1>1 DEF Samples
<1>6. b.user - a.user = Did(s, u, t, "user") /\ "user" \in HostFields
  <2>1. Shown(a)["user"] = a.user /\ Shown(b)["user"] = b.user /\ "user" \in HostFields
    BY DEF Shown, HostFields
  <2>2. a.user # None /\ b.user # None
    BY <1>5, NoneAssumption
  <2>3. Shown(b)["user"] - Shown(a)["user"] = Did(s, u, t, "user")
    BY <2>1, <2>2, HostMoved
  <2> QED
    BY <2>1, <2>3
<1>7. b.idle - a.idle = Did(s, u, t, "idle") /\ "idle" \in HostFields
  <2>1. Shown(a)["idle"] = a.idle /\ Shown(b)["idle"] = b.idle /\ "idle" \in HostFields
    BY DEF Shown, HostFields
  <2>2. a.idle # None /\ b.idle # None
    BY <1>5, NoneAssumption
  <2>3. Shown(b)["idle"] - Shown(a)["idle"] = Did(s, u, t, "idle")
    BY <2>1, <2>2, HostMoved
  <2> QED
    BY <2>1, <2>3
<1>8. OrNull(a.iowait) \in Nat /\ OrNull(b.iowait) \in Nat
  BY <1>5 DEF OrNull, Gauge
<1>9. a.iowait = None <=> b.iowait = None
  BY DEF HistoryInv, RowInv, Platform
<1>10. OrNull(b.iowait) - OrNull(a.iowait) \in Nat
  <2>1. CASE a.iowait = None
    BY <1>9, <2>1 DEF OrNull
  <2>2. CASE a.iowait # None
    <3>1. Shown(a)["iowait"] = a.iowait /\ Shown(b)["iowait"] = b.iowait /\ "iowait" \in HostFields
      BY DEF Shown, HostFields
    <3>2. b.iowait # None /\ OrNull(a.iowait) = a.iowait /\ OrNull(b.iowait) = b.iowait
      BY <1>9, <2>2 DEF OrNull
    <3>3. Shown(b)["iowait"] - Shown(a)["iowait"] = Did(s, u, t, "iowait")
      BY <2>2, <3>1, <3>2, HostMoved
    <3> QED
      BY <1>3, <3>1, <3>2, <3>3
  <2> QED
    BY <2>1, <2>2
<1> QED
  BY <1>3, <1>4, <1>5, <1>6, <1>7, <1>8, <1>10

\* The greatest value of a bucket is one of its values.
LEMMA TrendMax ==
    ASSUME NEW points, IsFiniteSet(DOMAIN points),
           \A t \in DOMAIN points : points[t] \in Int \cup {None},
           NEW win, NEW chart, chart = Trend(points, win, "max"), NEW b \in DOMAIN chart
    PROVE  /\ \E t \in DOMAIN points :
                 points[t] # None /\ Bucket(t, win) = b /\ chart[b] = points[t]
           /\ \A t \in DOMAIN points :
                 points[t] # None /\ Bucket(t, win) = b => points[t] <= chart[b]
<1> DEFINE f == Measured(points)
           D == {u \in DOMAIN f : Bucket(u, win) = b}
           In == [t \in D |-> f[t]]
<1>1. b \in {Bucket(t, win) : t \in DOMAIN f} /\ chart[b] = Agg("max", In)
  BY DEF Trend
<1>2. /\ DOMAIN f = {t \in DOMAIN points : points[t] # None}
      /\ \A t \in DOMAIN f : f[t] = points[t]
  BY DEF Measured
<1> HIDE DEF f
<1>3. D # {}
  BY <1>1
<1>4. chart[b] = Max({In[x] : x \in D})
  BY <1>1 DEF Agg
<1>5. IsFiniteSet(D) /\ DOMAIN In = D
  BY <1>2, FS_Subset
<1>6. \A t \in D : In[t] = points[t] /\ In[t] \in Int
  BY <1>2
<1> DEFINE V == {In[x] : x \in D}
<1>7. IsFiniteSet(V)
  <2> HIDE DEF In, D
  <2> QED
    BY <1>5, FiniteImage
<1>8. V \subseteq Int /\ V # {}
  BY <1>3, <1>6
<1>9. Max(V) \in V /\ \A y \in V : Max(V) >= y
  <2> HIDE DEF V
  <2> QED
    BY <1>7, <1>8, Extremes
<1>10. PICK t \in D : chart[b] = In[t]
  BY <1>4, <1>9
<1>11. points[t] # None /\ Bucket(t, win) = b /\ t \in DOMAIN points /\ chart[b] = points[t]
  BY <1>2, <1>6, <1>10
<1>12. ASSUME NEW v \in DOMAIN points, points[v] # None, Bucket(v, win) = b
       PROVE  points[v] <= chart[b]
  <2>1. v \in D
    BY <1>2, <1>12
  <2>2. In[v] \in V /\ In[v] = points[v] /\ In[v] \in Int /\ chart[b] \in Int
    BY <1>6, <1>10, <2>1
  <2>3. Max(V) >= In[v] /\ chart[b] = Max(V)
    BY <1>4, <1>9, <2>2
  <2> HIDE DEF V, In, D
  <2> QED
    BY <2>2, <2>3
<1> QED
  BY <1>11, <1>12

\* The rows of an instant, summed.
SumAt(f, at, t) == Total([x \in {y \in DOMAIN at : at[y] = t} |-> f[x]])

RatioAt(num, den, at, t) == Percent(SumAt(num, at, t), SumAt(den, at, t))

\* In a step without a reset the CPU was used for a part of the time.
LEMMA CpuPart ==
    ASSUME TypeOK, HistoryInv, NEW S \in SUBSET Servers, NEW metric \in {"usage", "user"},
           \A x \in HostSteps(db, S, Win) : NoReset(x[1], x[2], x[3]) /\ Sane(x[1]),
           NEW x \in CpuSteps(db, S, metric, Win)
    PROVE  /\ CpuRise(db, metric, x) \in Nat /\ CpuTotalRise(db, x) \in Nat \ {0}
           /\ CpuRise(db, metric, x) <= CpuTotalRise(db, x)
<1>1. /\ x \in HostSteps(db, S, Win)
      /\ CpuTotalRise(db, x) > 0 /\ CpuRise(db, metric, x) # None /\ CpuRise(db, metric, x) >= 0
  BY DEF CpuSteps
<1>2. PICK s \in S : \E u, t \in Times(db, s) : x = <<s, u, t>> /\ u < t
  BY <1>1, StepFacts
<1>3. PICK u \in Times(db, s), t \in Times(db, s) : x = <<s, u, t>> /\ u < t
  BY <1>2
<1>4. x[1] = s /\ x[2] = u /\ x[3] = t
  BY <1>3
<1>5. NoReset(s, u, t) /\ ClockRight(s)
  BY <1>1, <1>4 DEF Sane
<1>6. PICK a, b : a = Row(db, s, u) /\ b = Row(db, s, t)
  OBVIOUS
<1>7. /\ b.user - a.user \in Nat /\ b.idle - a.idle \in Nat \ {0}
      /\ OrNull(b.iowait) - OrNull(a.iowait) \in Nat
      /\ a.user \in Nat /\ b.user \in Nat /\ a.idle \in Nat /\ b.idle \in Nat
      /\ OrNull(a.iowait) \in Nat /\ OrNull(b.iowait) \in Nat
  BY <1>3, <1>5, <1>6, CpuMoved
<1>8. CpuTotalRise(db, x) = (b.user + OrNull(b.iowait) + b.idle) - (a.user + OrNull(a.iowait) + a.idle)
  BY <1>4, <1>6 DEF CpuTotalRise, CpuTotal
<1>9. CASE metric = "usage"
  <2>1. CpuRise(db, metric, x) = (b.user + OrNull(b.iowait)) - (a.user + OrNull(a.iowait))
    BY <1>1, <1>4, <1>6, <1>9 DEF CpuRise, CpuNumerator
  <2>2. PICK p \in Nat, q \in Nat, v \in Nat, w \in Nat, y \in Nat, z \in Nat :
           /\ p = a.user /\ q = b.user /\ v = OrNull(a.iowait) /\ w = OrNull(b.iowait)
           /\ y = a.idle /\ z = b.idle
    BY <1>7
  <2>3. q - p >= 0 /\ w - v >= 0 /\ z - y > 0
    BY <1>7, <2>2
  <2>4. CpuRise(db, metric, x) = (q + w) - (p + v) /\ CpuTotalRise(db, x) = (q + w + z) - (p + v + y)
    BY <1>8, <2>1, <2>2
  <2> QED
    BY <2>3, <2>4
<1>10. CASE metric = "user"
  <2>1. CpuRise(db, metric, x) = b.user - a.user
    BY <1>1, <1>4, <1>6, <1>10 DEF CpuRise, CpuNumerator
  <2>2. PICK p \in Nat, q \in Nat, v \in Nat, w \in Nat, y \in Nat, z \in Nat :
           /\ p = a.user /\ q = b.user /\ v = OrNull(a.iowait) /\ w = OrNull(b.iowait)
           /\ y = a.idle /\ z = b.idle
    BY <1>7
  <2>3. q - p >= 0 /\ w - v >= 0 /\ z - y > 0
    BY <1>7, <2>2
  <2>4. CpuRise(db, metric, x) = q - p /\ CpuTotalRise(db, x) = (q + w + z) - (p + v + y)
    BY <1>8, <2>1, <2>2
  <2> QED
    BY <2>3, <2>4
<1> QED
  BY <1>9, <1>10

\* So the CPU chart of any servers is a share.
LEMMA CpuChart ==
    ASSUME TypeOK, HistoryInv, NEW S \in SUBSET Servers, NEW metric \in {"usage", "user"},
           \A x \in HostSteps(db, S, Win) : NoReset(x[1], x[2], x[3]) /\ Sane(x[1]),
           NEW chart, chart = _trend_cpu_utilization(db, S, metric, Win, "max"),
           NEW b \in DOMAIN chart
    PROVE  chart[b] \in 0..100
<1> DEFINE valid == CpuSteps(db, S, metric, Win)
           num == [x \in valid |-> CpuRise(db, metric, x)]
           den == [x \in valid |-> CpuTotalRise(db, x)]
           at == [x \in valid |-> x[3]]
           times == {at[x] : x \in valid}
           points == [t \in times |-> RatioAt(num, den, at, t)]
<1>1. chart = Trend(points, Win, "max")
  BY DEF _trend_cpu_utilization, RatioTrend, RatioAt, SumAt
<1>2. IsFiniteSet(valid)
  <2>1. valid \in SUBSET HostSteps(db, S, Win)
    BY DEF CpuSteps
  <2> QED
    BY <2>1, HostStepsFinite, FS_Subset
<1>3. \A x \in valid : /\ CpuRise(db, metric, x) \in Nat /\ CpuTotalRise(db, x) \in Nat \ {0}
                       /\ CpuRise(db, metric, x) <= CpuTotalRise(db, x)
  BY CpuPart
<1> HIDE DEF valid
<1>4. ASSUME NEW t \in times PROVE points[t] \in 0..100
  <2>1. PICK A : A = {x \in valid : at[x] = t}
    OBVIOUS
  <2>2. A \subseteq valid /\ A # {} /\ IsFiniteSet(A)
    <3>1. A \subseteq valid /\ A # {}
      BY <2>1, <1>4
    <3> QED
      BY <1>2, <3>1, FS_Subset
  <2>3. PICK f, h : f = [x \in A |-> CpuRise(db, metric, x)] /\ h = [x \in A |-> CpuTotalRise(db, x)]
    OBVIOUS
  <2>4. /\ f \in [A -> Int] /\ h \in [A -> Int]
        /\ \A x \in A : f[x] >= 0 /\ h[x] >= 0 /\ h[x] > 0 /\ f[x] <= h[x]
    BY <1>3, <2>2, <2>3
  <2>5. /\ Total(f) \in Int /\ Total(h) \in Int /\ Total(f) >= 0 /\ Total(f) <= Total(h)
        /\ \A x \in A : Total(h) >= h[x]
    BY <2>2, <2>4, SumType, SumOrder, SumNat
  <2>6. Total(h) > 0
    <3>1. PICK x \in A : TRUE
      BY <2>2
    <3>2. Total(h) >= h[x] /\ h[x] > 0 /\ h[x] \in Int
      BY <2>4, <2>5
    <3> QED
      BY <2>5, <3>2
  <2>7. points[t] = Percent(Total(f), Total(h))
    <3>1. DOMAIN at = valid /\ f = [x \in A |-> num[x]] /\ h = [x \in A |-> den[x]]
      BY <2>2, <2>3
    <3>2. SumAt(num, at, t) = Total(f) /\ SumAt(den, at, t) = Total(h)
      <4> HIDE DEF num, den, at
      <4> QED
        BY <2>1, <3>1 DEF SumAt
    <3> QED
      BY <3>2 DEF RatioAt
  <2>8. (100 * Total(f)) \div Total(h) \in 0..100
    <3>1. PICK p \in Nat, q \in Nat, scale \in Nat : p = Total(f) /\ q = Total(h) /\ scale = 100 /\ q > 0 /\ p <= q
      BY <2>5, <2>6
    <3>2. (scale * p) \div q \in 0..scale
      BY <3>1, ShareOf
    <3> QED
      BY <3>1, <3>2
  <2> QED
    BY <2>6, <2>7, <2>8 DEF Percent
<1>5. IsFiniteSet(DOMAIN points)
  <2>1. DOMAIN at = valid /\ DOMAIN points = times
    OBVIOUS
  <2>2. IsFiniteSet({at[x] : x \in valid})
    <3> HIDE DEF at
    <3> QED
      BY <1>2, <2>1, FiniteImage
  <2> QED
    BY <2>1, <2>2
<1>6. DOMAIN points = times
  OBVIOUS
<1>7. \A t \in DOMAIN points : points[t] \in Int \cup {None}
  <2> HIDE DEF points
  <2> QED
    BY <1>4, <1>6
<1>8. PICK w : w = Win
  OBVIOUS
<1>9. PICK p : p = points
  OBVIOUS
<1> HIDE DEF points
<1>10. \E t \in DOMAIN p : chart[b] = p[t]
  <2>1. IsFiniteSet(DOMAIN p) /\ (\A t \in DOMAIN p : p[t] \in Int \cup {None}) /\ chart = Trend(p, w, "max")
    BY <1>1, <1>5, <1>7, <1>8, <1>9
  <2> QED
    BY <2>1, TrendMax
<1> QED
  BY <1>4, <1>6, <1>9, <1>10

\* The two newest rows.
LEMMA NewestRows ==
    ASSUME NEW T, T \subseteq Nat, IsFiniteSet(T), Second(T) # None
    PROVE  /\ First(T) \in T /\ Second(T) \in T /\ Second(T) < First(T)
           /\ \A v \in T : v = First(T) \/ v <= Second(T)
<1>1. T # {}
  BY DEF Second
<1>2. Max(T) \in T /\ \A y \in T : Max(T) >= y
  <2>1. T \subseteq Int
    OBVIOUS
  <2> QED
    BY <1>1, <2>1, Extremes
<1> DEFINE R == T \ {Max(T)}
<1>3. R # {} /\ Second(T) = Max(R) /\ First(T) = Max(T)
  BY <1>1 DEF Second, First
<1>4. R \subseteq Int /\ IsFiniteSet(R)
  <2>1. IsFiniteSet(R)
    BY FS_Subset
  <2>2. R \subseteq T
    OBVIOUS
  <2>3. R \subseteq Int
    <3> HIDE DEF R
    <3> QED
      BY <2>2
  <2> QED
    BY <2>1, <2>3
<1>5. Max(R) \in R /\ \A y \in R : Max(R) >= y
  <2> HIDE DEF R
  <2> QED
    BY <1>3, <1>4, Extremes
<1>6. Max(R) \in T /\ Max(R) # Max(T) /\ Max(R) \in Nat /\ Max(T) \in Nat
  BY <1>2, <1>5
<1>7. Max(R) < Max(T)
  BY <1>2, <1>6
<1>8. ASSUME NEW v \in T PROVE v = Max(T) \/ v <= Max(R)
  <2>1. CASE v = Max(T)
    BY <2>1
  <2>2. CASE v # Max(T)
    <3>1. v \in R /\ v \in Nat
      BY <2>2
    <3> HIDE DEF R
    <3> QED
      BY <1>5, <1>6, <3>1
  <2> QED
    BY <2>1, <2>2
<1> HIDE DEF R
<1> QED
  BY <1>2, <1>3, <1>6, <1>7, <1>8

\* The live CPU share.
LEMMA LiveCpu ==
    ASSUME TypeOK, HistoryInv, NEW s \in Servers, NEW cpu, cpu = Dashboard_cpu(db, s, now), cpu # None
    PROVE  cpu.usage \in 0..100 /\ (ClockRight(s) => cpu.user \in 0..100)
<1> DEFINE T == {t \in Times(db, s) : t <= now + Skew}
<1>1. T \subseteq Nat /\ IsFiniteSet(T)
  BY RecentType
<1>2. Second(T) # None /\ cpu = compute_cpu(Row(db, s, First(T)), Row(db, s, Second(T)))
  BY DEF Dashboard_cpu, DashboardTimes
<1>3. First(T) \in T /\ Second(T) \in T /\ Second(T) < First(T)
  <2> HIDE DEF T
  <2> QED
    BY <1>1, <1>2, NewestRows
<1>4. PICK t \in Times(db, s), u \in Times(db, s) : t = First(T) /\ u = Second(T) /\ u < t
  BY <1>3
<1> HIDE DEF T
<1>5. PICK a \in Samples, b \in Samples : a = Row(db, s, u) /\ b = Row(db, s, t)
  BY StoredRows
<1> DEFINE total == CpuTotal(b) - CpuTotal(a)
           Share(f) == IF None \in {b[f], a[f]} THEN None ELSE Max({0, (100 * (b[f] - a[f])) \div total})
<1>6. /\ ~is_counter_reset(b.boot, a.boot) /\ ~(total <= 0)
      /\ cpu = [usage |-> Max({0, 100 - Share("idle")}), user |-> Share("user"), iowait |-> Share("iowait")]
  BY <1>2, <1>4, <1>5 DEF compute_cpu
<1>7. /\ a.user \in Nat /\ b.user \in Nat /\ a.idle \in Nat /\ b.idle \in Nat
      /\ OrNull(a.iowait) \in Nat /\ OrNull(b.iowait) \in Nat /\ a.boot \in Nat /\ b.boot \in Nat
  BY DEF Samples, OrNull, Gauge
<1>8. a["user"] = a.user /\ b["user"] = b.user /\ a["idle"] = a.idle /\ b["idle"] = b.idle
  OBVIOUS
<1>9. total \in Int /\ total > 0 /\ total = (b.user + OrNull(b.iowait) + b.idle) - (a.user + OrNull(a.iowait) + a.idle)
  BY <1>6, <1>7 DEF CpuTotal
<1> HIDE DEF total
<1>10. cpu.usage \in 0..100
  <2>1. Share("idle") = Max({0, (100 * (b.idle - a.idle)) \div total})
    BY <1>7, <1>8, NoneAssumption
  <2>2. (100 * (b.idle - a.idle)) \div total \in Int
    BY <1>7, <1>9
  <2>3. PICK i \in Nat : i = Share("idle")
    BY <2>1, <2>2, MaxOfTwo
  <2>4. cpu.usage = Max({0, 100 - i})
    BY <1>6, <2>3
  <2>5. 100 - i \in Int
    OBVIOUS
  <2>6. Max({0, 100 - i}) = IF 0 >= 100 - i THEN 0 ELSE 100 - i
    BY <2>5, MaxOfTwo
  <2> QED
    BY <2>4, <2>6
<1>11. ASSUME ClockRight(s) PROVE cpu.user \in 0..100
  <2>1. a.boot = b.boot
    <3>1. a.boot # None /\ b.boot # None
      BY <1>7, NoneAssumption
    <3>2. b.boot - a.boot \in (-BOOT_JITTER)..BOOT_JITTER
      BY <1>6, <3>1 DEF is_counter_reset
    <3> QED
      BY <1>7, <3>2 DEF BOOT_JITTER
  <2>2. /\ b.user - a.user \in Nat /\ b.idle - a.idle \in Nat \ {0}
        /\ OrNull(b.iowait) - OrNull(a.iowait) \in Nat
    BY <1>4, <1>5, <1>11, <2>1, CpuMoved
  <2>3. PICK p \in Nat, q \in Nat : p = b.user - a.user /\ q = total /\ p <= q /\ q > 0
    <3>1. PICK v \in Nat, w \in Nat, y \in Nat, z \in Nat, j \in Nat, k \in Nat :
             /\ v = OrNull(a.iowait) /\ w = OrNull(b.iowait) /\ y = a.idle /\ z = b.idle
             /\ j = a.user /\ k = b.user
      BY <1>7
    <3>2. total = (k + w + z) - (j + v + y) /\ k - j >= 0 /\ w - v >= 0 /\ z - y > 0
      BY <1>9, <2>2, <3>1
    <3> QED
      BY <1>9, <2>2, <3>1, <3>2
  <2>4. (100 * p) \div q \in 0..100
    <3>1. PICK scale \in Nat : scale = 100
      OBVIOUS
    <3>2. (scale * p) \div q \in 0..scale
      BY <2>3, ShareOf
    <3> QED
      BY <3>1, <3>2
  <2>5. Share("user") = Max({0, (100 * p) \div q})
    BY <1>7, <1>8, <2>3, NoneAssumption
  <2>6. PICK r \in 0..100 : r = (100 * p) \div q
    BY <2>4
  <2>7. Max({0, r}) = r
    <3>1. r \in Int /\ r >= 0
      BY <2>6
    <3>2. Max({0, r}) = IF 0 >= r THEN 0 ELSE r
      BY <3>1, MaxOfTwo
    <3> QED
      BY <3>1, <3>2
  <2>8. cpu.user = Share("user")
    BY <1>6
  <2> QED
    BY <2>5, <2>6, <2>7, <2>8
<1> QED
  BY <1>10, <1>11

\* What the charts, the live figures and the memory bar show as shares of a whole
\* is between nothing and all of it, for every fleet, every window and whatever
\* the agents report; a CPU chart may leave that range only across a reset or a
\* wrong clock, since _trend_cpu_utilization does not look at the boot time.
THEOREM SharesHold == Spec => []SharesAddUp
<1>1. ASSUME TypeOK, HistoryInv PROVE SharesAddUp
  <2>1. ASSUME NEW S \in (SUBSET Servers) \ {{}}, NEW metric \in {"usage", "user"},
               NEW b \in DOMAIN _trend_cpu_utilization(db, S, metric, Win, "max")
        PROVE  \/ _trend_cpu_utilization(db, S, metric, Win, "max")[b] \in 0..100
               \/ \E x \in HostSteps(db, S, Win) : ~NoReset(x[1], x[2], x[3]) \/ ~Sane(x[1])
    <3>1. SUFFICES ASSUME \A x \in HostSteps(db, S, Win) : NoReset(x[1], x[2], x[3]) /\ Sane(x[1])
                   PROVE  _trend_cpu_utilization(db, S, metric, Win, "max")[b] \in 0..100
      OBVIOUS
    <3>2. S \in SUBSET Servers
      OBVIOUS
    <3> QED
      BY <1>1, <3>1, <3>2, CpuChart
  <2>2. ASSUME NEW s \in Servers, Dashboard_cpu(db, s, now) # None
        PROVE  /\ Dashboard_cpu(db, s, now).usage \in 0..100
               /\ ClockRight(s) => Dashboard_cpu(db, s, now).user \in 0..100
    BY <1>1, <2>2, LiveCpu
  <2>3. ASSUME NEW s \in Servers, NEW t \in Times(db, s), compute_mem(Row(db, s, t).mem) # None
        PROVE  LET bar == compute_mem(Row(db, s, t).mem)
                   parts == {"used", "cached", "buffers", "free"}
               IN  /\ MapThenSumSet(LAMBDA p : OrNull(bar[p]), parts) = 1000
                   /\ \A p \in parts : OrNull(bar[p]) >= 0
    <3>1. Row(db, s, t) \in Samples
      BY <1>1, StoredRows
    <3>2. Row(db, s, t).mem \in [limit : Gauge, available : Gauge, cached : Gauge, buffered : Gauge]
      BY <3>1 DEF Samples
    <3>3. PICK bar : bar = compute_mem(Row(db, s, t).mem)
      OBVIOUS
    <3>4. PartsOf(bar, {"used", "cached", "buffers", "free"}) = 1000
      BY <2>3, <3>2, <3>3, PartsAddUp
    <3>5. \A p \in {"used", "cached", "buffers", "free"} : OrNull(bar[p]) >= 0
      BY <2>3, <3>2, <3>3, PartsAddUp
    <3> QED
      BY <3>3, <3>4, <3>5 DEF PartsOf
  <2> QED
    BY <2>1, <2>2, <2>3 DEF SharesAddUp
<1> QED
  BY <1>1, HistoryHolds, PTL

-----------------------------------------------------------------------------
(* Between two samples *)

\* A counter that decreased counts as one that stood still.
LEMMA RiseIs ==
    ASSUME NEW p \in Nat, NEW c \in Nat
    PROVE  Rise(p, c) = (IF c >= p THEN c - p ELSE 0) /\ Rise(p, c) \in Nat
<1>1. p # None /\ c # None
  BY NoneAssumption
<1>2. c - p \in Int
  OBVIOUS
<1>3. Max({c - p, 0}) = IF c - p >= 0 THEN c - p ELSE 0
  BY <1>2, MaxOfTwo
<1> QED
  BY <1>1, <1>3 DEF Rise

(* The numbers of the charts' window. *)
LEMMA WinIs ==
    ASSUME TypeOK
    PROVE  /\ Win.start \in Int /\ Win.end = now /\ now \in Nat /\ Win.width = Width /\ Width \in Nat \ {0}
           /\ Win.start = now - TimeRange /\ TimeRange \in Nat /\ Win.start - Width \in Int
BY StoreAssumption DEF TypeOK, Win

(* A step leads from a row to the next one, inside the window. *)
LEMMA StepIs ==
    ASSUME TypeOK, NEW s \in Servers, NEW st \in Steps(Times(db, s), Win)
    PROVE  /\ st = <<st[1], st[2]>>
           /\ st[1] \in WithLead(Times(db, s), Win) /\ st[2] \in InWindow(Times(db, s), Win)
           /\ st[1] \in Times(db, s) /\ st[2] \in Times(db, s) /\ st[1] \in Nat /\ st[2] \in Nat
           /\ st[1] < st[2]
           /\ \A v \in WithLead(Times(db, s), Win) : v <= st[1] \/ v >= st[2]
<1>1. st \in WithLead(Times(db, s), Win) \X InWindow(Times(db, s), Win)
  BY DEF Steps
<1>2. st[1] < st[2] /\ \A v \in WithLead(Times(db, s), Win) : v <= st[1] \/ v >= st[2]
  BY DEF Steps
<1>3. WithLead(Times(db, s), Win) \subseteq Times(db, s) /\ InWindow(Times(db, s), Win) \subseteq Times(db, s)
  BY DEF WithLead, InWindow
<1> QED
  BY <1>1, <1>2, <1>3, TimesType

\* LAG leads to one predecessor.
LEMMA StepUnique ==
    ASSUME TypeOK, NEW s \in Servers, NEW st \in Steps(Times(db, s), Win),
           NEW other \in Steps(Times(db, s), Win), st[2] = other[2]
    PROVE  st = other
<1>1. st[1] <= other[1] /\ other[1] <= st[1]
  BY StepIs
<1>2. st[1] = other[1]
  BY <1>1, StepIs
<1> QED
  BY <1>2, StepIs

(* A step of a set of one server is a step of that server. *)
LEMMA HostStepIs ==
    ASSUME NEW s, NEW x \in HostSteps(db, {s}, Win)
    PROVE  \E st \in Steps(Times(db, s), Win) : x = <<s, st[1], st[2]>> /\ x[2] = st[1] /\ x[3] = st[2]
BY DEF HostSteps

\* Every sample has the counters of every device.
LEMMA Reported ==
    ASSUME TypeOK, NEW s \in Servers
    PROVE  /\ \A d \in Disks : TimesOf(db, s, "disk", d) = Times(db, s)
           /\ \A i \in Ifaces : TimesOf(db, s, "net", i) = Times(db, s)
           /\ \A t \in Times(db, s) : /\ DOMAIN Row(db, s, t).disk = Disks
                                      /\ DOMAIN Row(db, s, t).net = Ifaces
<1>1. ASSUME NEW t \in Times(db, s)
      PROVE  DOMAIN Row(db, s, t)["disk"] = Disks /\ DOMAIN Row(db, s, t)["net"] = Ifaces
  BY StoredRows DEF Samples
<1> QED
  BY <1>1 DEF TimesOf, Row

\* What is stored of a server.
LEMMA KnownOf ==
    ASSUME TypeOK, NEW s \in Servers
    PROVE  /\ db[s].disks \subseteq Disks /\ db[s].ifaces \subseteq Ifaces /\ db[s].cores \in Gauge
           /\ IsFiniteSet(db[s].disks) /\ IsFiniteSet(db[s].ifaces)
<1>1. db[s] \in Knowledge
  BY DEF TypeOK
<1>2. db[s].disks \subseteq Disks /\ db[s].ifaces \subseteq Ifaces /\ db[s].cores \in Gauge
  BY <1>1 DEF Knowledge
<1> QED
  BY <1>2, StoreAssumption, FS_Subset

\* The step to the newest sample is the one that the live figures look at.
LEMMA NewestStep ==
    ASSUME TypeOK, NEW s \in Servers, Sane(s), NEW st \in Steps(Times(db, s), Win),
           st[2] = Max(Times(db, s)), NEW since \in Int, since <= st[1]
    PROVE  LET T == Recent(Times(db, s), since, now)
           IN  T # {} /\ First(T) = st[2] /\ Second(T) = st[1]
<1> DEFINE T == Recent(Times(db, s), since, now)
           R == T \ {Max(T)}
<1>1. /\ Times(db, s) \subseteq Nat /\ IsFiniteSet(Times(db, s))
      /\ \A t \in Times(db, s) : t <= now /\ t <= now + Skew
  <2>1. Times(db, s) \subseteq Nat /\ IsFiniteSet(Times(db, s)) /\ \A t \in Times(db, s) : t <= now
    BY TimesType DEF Sane
  <2>2. Skew \in Nat /\ now \in Nat
    BY SnapshotAssumption, WinIs
  <2> QED
    BY <2>1, <2>2
<1>2. /\ st[1] \in Times(db, s) /\ st[2] \in Times(db, s) /\ st[1] < st[2]
      /\ st[1] \in Nat /\ st[2] \in Nat
  BY StepIs
<1>3. st[1] \in T /\ st[2] \in T /\ T \subseteq Times(db, s)
  BY <1>1, <1>2 DEF Recent
<1>4. \A v \in Times(db, s) : v \in Nat /\ v <= st[2]
  <2>1. Times(db, s) \subseteq Int /\ Times(db, s) # {}
    BY <1>1, <1>2
  <2> QED
    BY <1>1, <1>2, <2>1, Extremes
<1>5. \A v \in T : v = st[2] \/ v <= st[1]
  <2> SUFFICES ASSUME NEW v \in T, v > st[1] PROVE v = st[2]
    BY <1>2, <1>3, <1>4
  <2>1. v \in Times(db, s) /\ v \in Nat /\ v <= st[2]
    BY <1>3, <1>4
  <2>2. v \in WithLead(Times(db, s), Win)
    <3>1. Win.start - Win.width <= st[1] /\ Win.start - Win.width \in Int
      BY StepIs, WinIs DEF WithLead
    <3>2. v <= Win.end
      BY <1>1, <2>1, WinIs
    <3>3. Win.start - Win.width <= v
      BY <1>2, <2>1, <3>1
    <3> QED
      BY <2>1, <3>2, <3>3 DEF WithLead
  <2>3. v >= st[2]
    BY <1>2, <2>1, <2>2, StepIs
  <2> QED
    BY <1>2, <2>1, <2>3
<1>6. IsFiniteSet(T)
  BY <1>1, <1>3, FS_Subset
<1> HIDE DEF T
<1>7. Max(T) = st[2]
  <2>1. T \subseteq Int /\ T # {}
    BY <1>1, <1>3
  <2>2. Max(T) \in T /\ \A y \in T : Max(T) >= y
    BY <1>6, <2>1, Extremes
  <2> QED
    BY <1>2, <1>3, <1>4, <2>2
<1>8. Max(R) = st[1] /\ R # {}
  <2>1. R \subseteq Int /\ R # {} /\ st[1] \in R /\ \A v \in R : v <= st[1]
    BY <1>1, <1>2, <1>3, <1>5, <1>7
  <2>2. IsFiniteSet(R)
    BY <1>6, FS_Subset
  <2> HIDE DEF R
  <2>3. Max(R) \in R /\ \A y \in R : Max(R) >= y
    BY <2>1, <2>2, Extremes
  <2>4. Max(R) <= st[1] /\ Max(R) >= st[1] /\ Max(R) \in Int
    BY <2>1, <2>3
  <2> QED
    BY <1>2, <2>1, <2>4
<1>9. First(T) = st[2] /\ First(R) = st[1] /\ Second(T) = First(R)
  BY <1>3, <1>7, <1>8 DEF First, Second
<1> QED
  BY <1>3, <1>9 DEF T

\* What counters did between two samples of a step: no more than was really done,
\* and exactly that without a reset.
LEMMA StepMoved ==
    ASSUME TypeOK, HistoryInv, NEW s \in Servers, Sane(s), NEW st \in Steps(Times(db, s), Win),
           NEW a, a = Row(db, s, st[1]), NEW b, b = Row(db, s, st[2])
    PROVE  /\ a \in Samples /\ b \in Samples /\ Later(a, b)
           /\ NoReset(s, st[1], st[2]) => ExactHost(a, b) /\ ExactDevices(a, b)
<1>1. /\ st[1] \in Times(db, s) /\ st[2] \in Times(db, s) /\ st[1] < st[2]
  BY StepIs
<1>2. a \in Samples /\ b \in Samples
  BY <1>1, StoredRows
<1>3. Later(a, b)
  BY <1>1, TimesInOrder DEF Sane
<1> QED
  BY <1>2, <1>3 DEF Later, NoReset

\* Paging of either system is read from the same counter.
LEMMA PagingIs ==
    ASSUME TypeOK, HistoryInv, NEW s \in Servers
    PROVE  /\ \A t \in Times(db, s) : PagingOf(db, s, t) = Row(db, s, t).paging_in
           /\ {t \in Times(db, s) : PagingOf(db, s, t) # None} = Times(db, s)
<1>1. ASSUME NEW t \in Times(db, s)
      PROVE  PagingOf(db, s, t) = Row(db, s, t).paging_in /\ PagingOf(db, s, t) # None
  <2>1. Row(db, s, t).paging_in \in Nat
    BY StoredRows DEF Samples
  <2>2. Platform(s, Row(db, s, t)) /\ db[s].os = Machine[s].os
    BY DEF HistoryInv, RowInv
  <2> QED
    BY <2>1, <2>2, NoneAssumption DEF Platform, PagingOf
<1> QED
  BY <1>1

\* The flag for paging at the end of a step.
LEMMA PagingRaised ==
    ASSUME TypeOK, HistoryInv, NEW s \in Servers, NEW st \in Steps(Times(db, s), Win),
           NEW p, p = Row(db, s, st[1]).paging_in, NEW c, c = Row(db, s, st[2]).paging_in
    PROVE  Raised(PagingFlags(db, {s}, Win), <<s, st[2]>>) <=>
              IF Windows(db[s].os) THEN Rise(p, c) >= WIN_PAGES_INPUT * Interval * (st[2] - st[1])
              ELSE Rise(p, c) > 0
<1> DEFINE Crossed(x) ==
              LET pages == Rise(PagingOf(db, x[1], x[2]), PagingOf(db, x[1], x[3]))
              IN  IF Windows(db[x[1]].os)
                  THEN pages >= WIN_PAGES_INPUT * Interval * (x[3] - x[2])
                  ELSE pages > 0
           steps == PagingSteps(db, {s}, Win)
           flags == [y \in {<<x[1], x[3]>> : x \in steps} |->
                        \E x \in steps : <<x[1], x[3]>> = y /\ Crossed(x)]
<1>1. steps = {<<s, z[1], z[2]>> : z \in Steps(Times(db, s), Win)}
  BY PagingIs DEF PagingSteps
<1>2. PagingFlags(db, {s}, Win) = flags
  BY DEF PagingFlags
<1>3. PICK e : e = <<s, st[1], st[2]>>
  OBVIOUS
<1>4. e \in steps /\ e[1] = s /\ e[2] = st[1] /\ e[3] = st[2]
  BY <1>1, <1>3
<1>5. \A x \in steps : <<x[1], x[3]>> = <<s, st[2]>> => x = e
  <2> SUFFICES ASSUME NEW x \in steps, <<x[1], x[3]>> = <<s, st[2]>> PROVE x = e
    OBVIOUS
  <2>1. PICK z \in Steps(Times(db, s), Win) : x = <<s, z[1], z[2]>>
    BY <1>1
  <2>2. z[2] = st[2]
    BY <2>1
  <2>3. z = st
    BY <2>2, StepUnique
  <2> QED
    BY <1>3, <2>1, <2>3
<1> HIDE DEF steps
<1>6. <<s, st[2]>> \in DOMAIN flags /\ (flags[<<s, st[2]>>] <=> Crossed(e))
  <2> HIDE DEF Crossed
  <2>1. <<s, st[2]>> \in {<<x[1], x[3]>> : x \in steps}
    BY <1>4
  <2>2. flags[<<s, st[2]>>] = \E x \in steps : <<x[1], x[3]>> = <<s, st[2]>> /\ Crossed(x)
    BY <2>1
  <2>3. (\E x \in steps : <<x[1], x[3]>> = <<s, st[2]>> /\ Crossed(x)) <=> Crossed(e)
    BY <1>4, <1>5
  <2> QED
    BY <2>1, <2>2, <2>3
<1>7. Crossed(e) <=> IF Windows(db[s].os) THEN Rise(p, c) >= WIN_PAGES_INPUT * Interval * (st[2] - st[1])
                     ELSE Rise(p, c) > 0
  <2>1. PagingOf(db, s, st[1]) = p /\ PagingOf(db, s, st[2]) = c
    BY PagingIs, StepIs
  <2> QED
    BY <1>4, <2>1
<1> HIDE DEF Crossed, flags
<1> QED
  BY <1>2, <1>6, <1>7 DEF Raised

\* The flag for slow disks at the end of a step.
LEMMA DiskRaised ==
    ASSUME TypeOK, NEW s \in Servers, NEW st \in Steps(Times(db, s), Win),
           NEW a, a = Row(db, s, st[1]), NEW b, b = Row(db, s, st[2])
    PROVE  Raised(DiskFlags(db, {s}, Win), <<s, st[2]>>) <=>
              \E d \in db[s].disks : DiskCrossed(a.disk[d], b.disk[d], st)
<1> DEFINE Slow(s1, t, d) == \E z \in DiskSteps(db, s1, d, Win) :
                                z[2] = t /\ DiskCrossed(Row(db, s1, z[1]).disk[d], Row(db, s1, z[2]).disk[d], z)
           rows == UNION {{<<r, t>> : t \in {u \in InWindow(Times(db, r), Win) :
                                               PhysDisks(db, r, u) # {}}} : r \in {s}}
           flags == [x \in rows |-> \E d \in PhysDisks(db, x[1], x[2]) : Slow(x[1], x[2], d)]
<1>1. DiskFlags(db, {s}, Win) = flags
  BY DEF DiskFlags
<1>2. st[2] \in InWindow(Times(db, s), Win) /\ st[2] \in Times(db, s)
  BY StepIs
<1>3. PhysDisks(db, s, st[2]) = db[s].disks
  BY <1>2, Reported, KnownOf DEF PhysDisks
<1>4. PICK e : e = <<s, st[2]>>
  OBVIOUS
<1>5. e \in rows <=> db[s].disks # {}
  BY <1>2, <1>3, <1>4
<1>6. ASSUME NEW d \in db[s].disks
      PROVE  Slow(s, st[2], d) <=> DiskCrossed(a.disk[d], b.disk[d], st)
  <2>1. DiskSteps(db, s, d, Win) = Steps(Times(db, s), Win)
    BY Reported, KnownOf DEF DiskSteps
  <2>2. \A z \in Steps(Times(db, s), Win) : z[2] = st[2] => z = st
    BY StepUnique
  <2> QED
    BY <2>1, <2>2
<1>7. Raised(flags, e) <=> (e \in rows /\ \E d \in PhysDisks(db, e[1], e[2]) : Slow(e[1], e[2], d))
  <2> HIDE DEF rows, Slow
  <2> QED
    BY DEF Raised
<1>8. e[1] = s /\ e[2] = st[2]
  BY <1>4
<1> HIDE DEF rows, Slow, flags
<1>9. Raised(flags, e) <=> \E d \in db[s].disks : Slow(s, st[2], d)
  BY <1>3, <1>5, <1>7, <1>8
<1> QED
  BY <1>1, <1>4, <1>6, <1>9

\* The rise of interface counters at the end of a step.
NetRises(s, F, a, b) ==
    [y \in db[s].ifaces \X F |-> Rise(a.net[y[1]][y[2]], b.net[y[1]][y[2]])]

(* The rises of interfaces are natural numbers. *)
LEMMA NetRisesType ==
    ASSUME TypeOK, NEW s \in Servers, NEW F \in SUBSET NetFields,
           NEW a \in Samples, NEW b \in Samples
    PROVE  /\ NetRises(s, F, a, b) \in [db[s].ifaces \X F -> Int]
           /\ \A y \in db[s].ifaces \X F : NetRises(s, F, a, b)[y] >= 0
<1>1. ASSUME NEW y \in db[s].ifaces \X F
      PROVE  Rise(a.net[y[1]][y[2]], b.net[y[1]][y[2]]) \in Nat
  <2>1. y[1] \in Ifaces /\ y[2] \in NetFields
    BY KnownOf
  <2>2. a.net[y[1]][y[2]] \in Nat /\ b.net[y[1]][y[2]] \in Nat
    BY <2>1, SampleNumbers
  <2> QED
    BY <2>2, RiseIs
<1> QED
  BY <1>1 DEF NetRises

(* There are finitely many fields of an interface. *)
LEMMA FieldsFinite ==
    ASSUME NEW F \in SUBSET NetFields
    PROVE  IsFiniteSet(F)
<1>1. IsFiniteSet({}) /\ IsFiniteSet(NetFields)
  <2>1. IsFiniteSet({"rxp"}) /\ IsFiniteSet({"txp"}) /\ IsFiniteSet({"rxd"}) /\ IsFiniteSet({"txd"})
        /\ IsFiniteSet({"rxb"}) /\ IsFiniteSet({"txb"}) /\ IsFiniteSet({"err"})
    BY FS_Singleton
  <2>2. IsFiniteSet({"rxp"} \cup {"txp"}) /\ IsFiniteSet({"rxd"} \cup {"txd"}) /\ IsFiniteSet({"rxb"} \cup {"txb"})
    BY <2>1, FS_Union
  <2>3. IsFiniteSet(({"rxp"} \cup {"txp"}) \cup ({"rxd"} \cup {"txd"}))
    BY <2>2, FS_Union
  <2>4. IsFiniteSet(({"rxb"} \cup {"txb"}) \cup {"err"})
    BY <2>1, <2>2, FS_Union
  <2>5. IsFiniteSet((({"rxp"} \cup {"txp"}) \cup ({"rxd"} \cup {"txd"})) \cup (({"rxb"} \cup {"txb"}) \cup {"err"}))
    BY <2>3, <2>4, FS_Union
  <2>6. NetFields = (({"rxp"} \cup {"txp"}) \cup ({"rxd"} \cup {"txd"})) \cup (({"rxb"} \cup {"txb"}) \cup {"err"})
    BY DEF NetFields
  <2> QED
    BY <2>5, <2>6, FS_EmptySet
<1> QED
  BY <1>1, FS_Subset

(* The rise of a server is the sum of its interfaces' rises. *)
LEMMA NetRiseIs ==
    ASSUME TypeOK, NEW s \in Servers, NEW st \in Steps(Times(db, s), Win), NEW F \in SUBSET NetFields,
           NEW a, a = Row(db, s, st[1]), NEW b, b = Row(db, s, st[2])
    PROVE  NetRise(db, s, st[2], Win, F) = Total(NetRises(s, F, a, b))
<1> DEFINE U == db[s].ifaces \X F
           V == UNION {UNION {{<<i, z[1], z[2], f>> :
                        z \in {y \in Steps(TimesOf(db, s, "net", i), Win) : y[2] = st[2]}}
                    : i \in PhysIfaces(db, s, st[2])} : f \in F}
           g == [x \in V |-> Rise(Row(db, s, x[2]).net[x[1]][x[4]], Row(db, s, x[3]).net[x[1]][x[4]])]
           h == [y \in U |-> <<y[1], st[1], st[2], y[2]>>]
           f == NetRises(s, F, a, b)
<1>1. NetRise(db, s, st[2], Win, F) = Total(g)
  BY DEF NetRise
<1>2. PhysIfaces(db, s, st[2]) = db[s].ifaces
  BY StepIs, Reported, KnownOf DEF PhysIfaces
<1>3. \A i \in db[s].ifaces : TimesOf(db, s, "net", i) = Times(db, s)
  BY Reported, KnownOf
<1>4. \A i \in db[s].ifaces : {y \in Steps(TimesOf(db, s, "net", i), Win) : y[2] = st[2]} = {st}
  <2> TAKE i \in db[s].ifaces
  <2>1. \A y \in Steps(Times(db, s), Win) : y[2] = st[2] => y = st
    BY StepUnique
  <2> QED
    BY <1>3, <2>1
<1>5. ASSUME NEW x \in V PROVE \E y \in U : x = <<y[1], st[1], st[2], y[2]>>
  <2>1. PICK k \in F : x \in UNION {{<<i, z[1], z[2], k>> :
                        z \in {y \in Steps(TimesOf(db, s, "net", i), Win) : y[2] = st[2]}}
                    : i \in PhysIfaces(db, s, st[2])}
    OBVIOUS
  <2>2. PICK i \in db[s].ifaces : x \in {<<i, z[1], z[2], k>> :
                        z \in {y \in Steps(TimesOf(db, s, "net", i), Win) : y[2] = st[2]}}
    BY <1>2, <2>1
  <2>3. x = <<i, st[1], st[2], k>>
    BY <1>4, <2>2
  <2>4. <<i, k>> \in U /\ <<i, k>>[1] = i /\ <<i, k>>[2] = k
    OBVIOUS
  <2> QED
    BY <2>3, <2>4
<1>6. ASSUME NEW y \in U PROVE <<y[1], st[1], st[2], y[2]>> \in V
  <2>1. y[1] \in db[s].ifaces /\ y[2] \in F
    OBVIOUS
  <2>2. <<y[1], st[1], st[2], y[2]>> \in {<<y[1], z[1], z[2], y[2]>> :
                        z \in {w \in Steps(TimesOf(db, s, "net", y[1]), Win) : w[2] = st[2]}}
    BY <1>4, <2>1
  <2>3. <<y[1], st[1], st[2], y[2]>> \in UNION {{<<i, z[1], z[2], y[2]>> :
                        z \in {w \in Steps(TimesOf(db, s, "net", i), Win) : w[2] = st[2]}}
                    : i \in PhysIfaces(db, s, st[2])}
    BY <1>2, <2>1, <2>2
  <2> QED
    BY <2>1, <2>3
<1>7. a \in Samples /\ b \in Samples
  BY StepIs, StoredRows
<1>8. f \in [U -> Int]
  BY <1>7, NetRisesType
<1> HIDE DEF V
<1>9. h \in [U -> V] /\ \A y \in U : h[y] = <<y[1], st[1], st[2], y[2]>>
  BY <1>6
<1>10. \A x, y \in U : h[x] = h[y] => x = y
  <2> SUFFICES ASSUME NEW x \in U, NEW y \in U, h[x] = h[y] PROVE x = y
    OBVIOUS
  <2>1. <<x[1], st[1], st[2], x[2]>> = <<y[1], st[1], st[2], y[2]>>
    BY <1>9
  <2>2. x[1] = y[1] /\ x[2] = y[2]
    BY <2>1
  <2> QED
    BY <2>2
<1>11. \A x \in V : \E y \in U : h[y] = x
  BY <1>5, <1>9
<1>12. \A y \in U : f[y] = g[h[y]]
  <2> TAKE y \in U
  <2>1. PICK q : q = h[y]
    OBVIOUS
  <2>2. q \in V /\ q = <<y[1], st[1], st[2], y[2]>>
    BY <1>9, <2>1
  <2>3. q[1] = y[1] /\ q[2] = st[1] /\ q[3] = st[2] /\ q[4] = y[2]
    BY <2>2
  <2>4. g[q] = Rise(a.net[y[1]][y[2]], b.net[y[1]][y[2]])
    BY <2>2, <2>3
  <2> QED
    BY <2>1, <2>4 DEF NetRises
<1>13. g \in [V -> Int]
  <2>1. ASSUME NEW x \in V PROVE g[x] \in Int
    <3> HIDE DEF U, g, h, f
    <3>1. PICK y \in U : h[y] = x
      BY <1>11
    <3>2. f[y] = g[x] /\ f[y] \in Int
      BY <1>8, <1>12, <3>1
    <3> QED
      BY <3>2
  <2> QED
    BY <2>1
<1>14. IsFiniteSet(U)
  <2>1. IsFiniteSet(db[s].ifaces) /\ IsFiniteSet(F)
    BY KnownOf, FieldsFinite
  <2> QED
    BY <2>1, FS_Product
<1> HIDE DEF U, g, h, f
<1>15. Total(f) = Total(g)
  BY <1>8, <1>9, <1>10, <1>11, <1>12, <1>13, <1>14, SumRenamed
<1> QED
  BY <1>1, <1>15 DEF f

(* The retransmissions of a step are the clamped difference. *)
LEMMA RetransIs ==
    ASSUME TypeOK, NEW s \in Servers, NEW st \in Steps(Times(db, s), Win)
    PROVE  RetransRise(db, s, st[2], Win) = Rise(Row(db, s, st[1]).retrans, Row(db, s, st[2]).retrans)
<1>1. {x \in Steps(Times(db, s), Win) : x[2] = st[2]} = {st}
  BY StepUnique
<1>2. (CHOOSE y \in {st} : TRUE) = st
  OBVIOUS
<1> QED
  BY <1>1, <1>2 DEF RetransRise

\* The network flag at the end of a step.
LEMMA NetRaised ==
    ASSUME TypeOK, NEW s \in Servers, NEW st \in Steps(Times(db, s), Win), db[s].ifaces # {}
    PROVE  /\ Raised(NetFlags(db, {s}, Win), <<s, st[2]>>) <=> Congested(db, s, st[2], Win)
           /\ EnoughTraffic(db, s, st[2], Win) <=>
                 NetRise(db, s, st[2], Win, {"rxb", "txb"}) >= RS_NET_MIN_TRAFFIC_KBPS * Seconds(st)
<1>1. PhysIfaces(db, s, st[2]) = db[s].ifaces
  BY StepIs, Reported, KnownOf DEF PhysIfaces
<1>2. st[2] \in NetTimes(db, {s}, Win)
  BY <1>1, StepIs DEF NetTimes
<1> DEFINE D == UNION {{<<r, t>> : t \in NetTimes(db, {r}, Win)} : r \in {s}}
           flags == [x \in D |-> Congested(db, x[1], x[2], Win)]
<1>3. NetFlags(db, {s}, Win) = flags
  BY DEF NetFlags
<1>4. PICK e : e = <<s, st[2]>>
  OBVIOUS
<1>5. e \in D /\ e[1] = s /\ e[2] = st[2]
  BY <1>2, <1>4
<1> HIDE DEF D
<1>6. Raised(flags, e) <=> Congested(db, s, st[2], Win)
  BY <1>5 DEF Raised
<1>7. \A i \in db[s].ifaces : {x \in Steps(TimesOf(db, s, "net", i), Win) : x[2] = st[2]} = {st}
  <2> TAKE i \in db[s].ifaces
  <2>1. TimesOf(db, s, "net", i) = Times(db, s)
    BY Reported, KnownOf
  <2>2. \A y \in Steps(Times(db, s), Win) : y[2] = st[2] => y = st
    BY StepUnique
  <2> QED
    BY <2>1, <2>2
<1> DEFINE gaps == UNION {{Seconds(z) : z \in {x \in Steps(TimesOf(db, s, "net", i), Win) : x[2] = st[2]}}
                          : i \in PhysIfaces(db, s, st[2])}
<1>8. gaps = {Seconds(st)}
  <2>1. \A i \in db[s].ifaces :
           {Seconds(z) : z \in {x \in Steps(TimesOf(db, s, "net", i), Win) : x[2] = st[2]}} = {Seconds(st)}
    BY <1>7
  <2> QED
    BY <1>1, <2>1
<1>9. Max({Seconds(st)}) = Seconds(st)
  <2>1. PICK n : n = Seconds(st)
    OBVIOUS
  <2>2. n \in Int
    BY <2>1, StepIs, IntervalAssumption DEF Seconds
  <2>3. Max({n, n}) = n
    BY <2>2, MaxOfTwo
  <2>4. {n, n} = {n}
    OBVIOUS
  <2> QED
    BY <2>1, <2>3, <2>4
<1>10. EnoughTraffic(db, s, st[2], Win) <=>
          (gaps = {} \/ NetRise(db, s, st[2], Win, {"rxb", "txb"}) >= RS_NET_MIN_TRAFFIC_KBPS * Max(gaps))
  BY DEF EnoughTraffic
<1> HIDE DEF gaps, flags
<1> QED
  BY <1>3, <1>4, <1>6, <1>8, <1>9, <1>10

\* The flag for a long run queue.
LEMMA CpuRaised ==
    ASSUME TypeOK, NEW s \in Servers, NEW t \in InWindow(Times(db, s), Win)
    PROVE  Raised(CpuFlags(db, {s}, Win), <<s, t>>) <=>
              Row(db, s, t).queue # None /\ Above(db[s].cores, 0) /\ CpuSaturated(db, s, t)
<1> DEFINE rows == UNION {{<<r, v>> : v \in {u \in InWindow(Times(db, r), Win) :
                             Row(db, r, u).queue # None /\ Above(db[r].cores, 0)}} : r \in {s}}
           flags == [x \in rows |-> CpuSaturated(db, x[1], x[2])]
<1>1. CpuFlags(db, {s}, Win) = flags
  BY DEF CpuFlags
<1>2. PICK e : e = <<s, t>>
  OBVIOUS
<1>3. e \in rows <=> (Row(db, s, t).queue # None /\ Above(db[s].cores, 0))
  BY <1>2
<1>4. e[1] = s /\ e[2] = t
  BY <1>2
<1> HIDE DEF rows
<1>5. Raised(flags, e) <=> (e \in rows /\ CpuSaturated(db, s, t))
  BY <1>4 DEF Raised
<1> QED
  BY <1>1, <1>2, <1>3, <1>5

-----------------------------------------------------------------------------
(* The snapshot and the charts *)

\* The index of latest_saturation reaches 100 percent where the chart's flag is set.
LEMMA IndexReaches ==
    ASSUME NEW queue \in Nat, NEW cores \in Nat, cores > 0, NEW os
    PROVE  /\ (100 * queue) \div (cores * SatLine(os)) \in Int
           /\ (100 * queue) \div (cores * SatLine(os)) >= 100 <=> 100 * queue >= 100 * SatLine(os) * cores
<1>1. PICK line \in Nat : line = SatLine(os) /\ line > 0
  BY DEF SatLine
<1>2. PICK den \in Nat : den = cores * line /\ den > 0
  BY <1>1
<1>3. PICK num \in Nat : num = 100 * queue
  OBVIOUS
<1> DEFINE q == num \div den
           r == num % den
<1>4. q \in Int /\ r \in Int /\ 0 <= r /\ r < den /\ num = den * q + r
  BY <1>2, <1>3, SMT
<1> HIDE DEF q, r
<1>5. q >= 100 => num >= 100 * den
  <2> SUFFICES ASSUME q >= 100 PROVE num >= 100 * den
    OBVIOUS
  <2>1. den * q >= den * 100
    BY <1>2, <1>4, SMT
  <2> QED
    BY <1>2, <1>3, <1>4, <2>1
<1>6. num >= 100 * den => q >= 100
  <2> SUFFICES ASSUME num >= 100 * den, q <= 99 PROVE FALSE
    BY <1>4
  <2>1. den * q <= den * 99
    BY <1>2, <1>4, SMT
  <2>2. den * q \in Int
    BY <1>2, <1>4
  <2> QED
    BY <1>2, <1>3, <1>4, <2>1, <2>2
<1>7. 100 * SatLine(os) * cores = 100 * den
  BY <1>1, <1>2
<1> QED
  BY <1>1, <1>2, <1>3, <1>4, <1>5, <1>6, <1>7 DEF q

(* The index is saturated if the queue is long for the cores it is given. *)
LEMMA IndexSaturated ==
    ASSUME NEW queue \in Gauge, NEW cores \in Gauge, NEW os
    PROVE  AtLeast(cpu_saturation_index(queue, cores, os), 100) <=>
              queue # None /\ Above(cores, 0) /\ 100 * queue >= 100 * SatLine(os) * cores
<1> DEFINE index == cpu_saturation_index(queue, cores, os)
<1>1. CASE queue = None \/ cores = None \/ cores = 0
  <2>1. index = None
    BY <1>1 DEF cpu_saturation_index
  <2>2. ~Above(0, 0) /\ ~Above(None, 0)
    BY DEF Above
  <2> QED
    BY <1>1, <2>1, <2>2 DEF AtLeast
<1>2. CASE queue # None /\ cores # None /\ cores # 0
  <2>1. queue \in Nat /\ cores \in Nat /\ cores > 0
    BY <1>2 DEF Gauge
  <2>2. index = (100 * queue) \div (cores * SatLine(os))
    BY <1>2 DEF cpu_saturation_index
  <2>3. index \in Int /\ (index >= 100 <=> 100 * queue >= 100 * SatLine(os) * cores)
    BY <2>1, <2>2, IndexReaches
  <2>4. index # None
    BY <2>3, NoneAssumption
  <2> QED
    BY <1>2, <2>1, <2>3, <2>4 DEF AtLeast, Above
<1> QED
  BY <1>1, <1>2

\* A queue that is long for so many cores is long for fewer.
LEMMA FewerCores ==
    ASSUME NEW queue \in Nat, NEW few \in Nat, NEW many \in Nat, few <= many, NEW os,
           100 * queue >= 100 * SatLine(os) * many
    PROVE  100 * queue >= 100 * SatLine(os) * few
<1>1. PICK line \in Nat : line = 100 * SatLine(os)
  BY DEF SatLine
<1>2. line * few <= line * many /\ line * few \in Nat /\ line * many \in Nat
  BY <1>1, SMT
<1> QED
  BY <1>1, <1>2

(* The start of the live window is a time. *)
LEMMA LiveSinceIs ==
    ASSUME TypeOK
    PROVE  LiveSince \in Int
BY SnapshotAssumption DEF TypeOK, LiveSince

\* What the snapshot reads of a server with a newest step in the live window.
LEMMA LiveReads ==
    ASSUME TypeOK, NEW s \in Servers, Sane(s), NEW st \in Steps(Times(db, s), Win),
           st[2] = Max(Times(db, s)), st[1] >= LiveSince,
           NEW T, T = Recent(Times(db, s), LiveSince, now)
    PROVE  T # {} /\ T \subseteq Times(db, s) /\ First(T) = st[2] /\ Second(T) = st[1] /\ st[1] # None
<1>1. PICK since \in Int : since = LiveSince /\ since <= st[1] /\ T = Recent(Times(db, s), since, now)
  BY LiveSinceIs, StepIs
<1>2. T # {} /\ First(T) = st[2] /\ Second(T) = st[1]
  BY <1>1, NewestStep
<1>3. st[1] # None
  BY StepIs, NoneAssumption
<1> QED
  BY <1>2, <1>3 DEF Recent

\* The newest sample of the dashboard is that of the newest step.
LEMMA NewestIs ==
    ASSUME TypeOK, NEW s \in Servers, Sane(s), NEW st \in Steps(Times(db, s), Win),
           st[2] = Max(Times(db, s))
    PROVE  Newest(s) = Row(db, s, st[2])
<1>1. Times(db, s) \subseteq Nat /\ st[2] \in Times(db, s)
  BY TimesType, StepIs
<1>2. DashboardTimes(db, s, now) = Times(db, s)
  BY <1>1, SnapshotAssumption DEF DashboardTimes, Sane, TypeOK
<1>3. First(Times(db, s)) = st[2]
  BY <1>1 DEF First
<1> QED
  BY <1>2, <1>3 DEF Newest

(* The live run queue and the chart's flag agree as far as the two core counts do. *)
LEMMA LiveCpuQueue ==
    ASSUME TypeOK, NEW s \in Servers, Sane(s), NEW st \in Steps(Times(db, s), Win),
           st[2] = Max(Times(db, s))
    PROVE  CpuMatches(s, st[2])
<1>1. PICK b \in Samples : b = Row(db, s, st[2]) /\ Newest(s) = b
  BY StepIs, StoredRows, NewestIs
<1>2. PICK queue \in Gauge, counted \in Gauge : queue = b.queue /\ counted = b.cores
  BY DEF Samples
<1>3. PICK cores \in Gauge : cores = db[s].cores
  BY KnownOf
<1>4. PICK os : os = db[s].os
  OBVIOUS
<1> DEFINE index == cpu_saturation_index(queue, counted, os)
<1>5. Live(s).cpu_run_queue = Signal(index, AtLeast(index, 100))
  BY <1>1, <1>2, <1>4 DEF Live, build_saturation_signals
<1>6. Live(s).cpu_run_queue = "saturated" <=> AtLeast(index, 100)
  BY <1>5 DEF Signal, AtLeast
<1>7. AtLeast(index, 100) <=>
         queue # None /\ Above(counted, 0) /\ 100 * queue >= 100 * SatLine(os) * counted
  BY IndexSaturated
<1>8. Raised(CpuFlags(db, {s}, Win), <<s, st[2]>>) <=>
         queue # None /\ Above(cores, 0) /\ 100 * queue >= 100 * SatLine(os) * cores
  <2>1. st[2] \in InWindow(Times(db, s), Win)
    BY StepIs
  <2> QED
    BY <1>1, <1>2, <1>3, <1>4, <2>1, CpuRaised DEF CpuSaturated
<1> HIDE DEF index
<1>9. ASSUME Live(s).cpu_run_queue = "saturated", Above(cores, 0), Above(counted, cores - 1)
      PROVE  Raised(CpuFlags(db, {s}, Win), <<s, st[2]>>)
  <2>1. queue \in Nat /\ cores \in Nat /\ counted \in Nat
    BY <1>6, <1>7, <1>9 DEF Gauge, Above
  <2>2. cores <= counted /\ 100 * queue >= 100 * SatLine(os) * counted
    BY <1>6, <1>7, <1>9, <2>1 DEF Above
  <2>3. 100 * queue >= 100 * SatLine(os) * cores
    BY <2>1, <2>2, FewerCores
  <2> QED
    BY <1>6, <1>7, <1>8, <1>9, <2>3
<1>10. ASSUME Raised(CpuFlags(db, {s}, Win), <<s, st[2]>>), Above(counted, 0), ~Above(counted, cores)
       PROVE  Live(s).cpu_run_queue = "saturated"
  <2>1. queue \in Nat /\ cores \in Nat /\ counted \in Nat
    BY <1>8, <1>10 DEF Gauge, Above
  <2>2. counted <= cores /\ 100 * queue >= 100 * SatLine(os) * cores
    <3>1. counted # None
      BY <2>1, NoneAssumption
    <3> QED
      BY <1>8, <1>10, <2>1, <3>1 DEF Above
  <2>3. 100 * queue >= 100 * SatLine(os) * counted
    BY <2>1, <2>2, FewerCores
  <2> QED
    BY <1>6, <1>7, <1>8, <1>10, <2>3
<1> QED
  BY <1>1, <1>2, <1>3, <1>9, <1>10 DEF CpuMatches

(* The live paging signal is up exactly if the chart's flag is. *)
LEMMA LivePagingFlag ==
    ASSUME TypeOK, HistoryInv, NEW s \in Servers, Sane(s), NEW st \in Steps(Times(db, s), Win),
           st[2] = Max(Times(db, s)), st[1] >= LiveSince
    PROVE  Live(s).mem_paging = "saturated" <=> Raised(PagingFlags(db, {s}, Win), <<s, st[2]>>)
<1>1. PICK T : T = Recent(Times(db, s), LiveSince, now)
  OBVIOUS
<1>2. First(T) = st[2] /\ Second(T) = st[1] /\ st[1] # None
  BY <1>1, LiveReads
<1>3. PICK p \in Nat, c \in Nat : p = Row(db, s, st[1]).paging_in /\ c = Row(db, s, st[2]).paging_in
  <2>1. Row(db, s, st[1]) \in Samples /\ Row(db, s, st[2]) \in Samples
    BY StepIs, StoredRows
  <2> QED
    BY <2>1 DEF Samples
<1>4. PagingOf(db, s, st[1]) = p /\ PagingOf(db, s, st[2]) = c /\ p # None /\ c # None
  BY <1>3, StepIs, PagingIs, NoneAssumption
<1>5. PICK n \in Nat : n = Interval * (st[2] - st[1]) /\ n > 0
  BY StepIs, IntervalAssumption
<1>6. LivePaging(db, s, T) = IF c < p THEN None ELSE [rise |-> c - p, secs |-> n]
  BY <1>2, <1>4, <1>5 DEF LivePaging, LiveRate
<1>7. PICK paging : paging = LivePaging(db, s, T)
  OBVIOUS
<1>8. latest_saturation(db, s, LiveSince, now).paging = paging
  BY <1>1, <1>7 DEF latest_saturation
<1> DEFINE crossed == /\ paging # None
                      /\ IF Windows(db[s].os) THEN paging.rise >= WIN_PAGES_INPUT * paging.secs
                         ELSE paging.rise > 0
<1>9. Live(s).mem_paging = Signal(paging, crossed)
  BY <1>8 DEF Live, build_saturation_signals
<1>10. Live(s).mem_paging = "saturated" <=> crossed
  BY <1>9 DEF Signal
<1>11. Raised(PagingFlags(db, {s}, Win), <<s, st[2]>>) <=>
          IF Windows(db[s].os) THEN Rise(p, c) >= WIN_PAGES_INPUT * n ELSE Rise(p, c) > 0
  <2>1. WIN_PAGES_INPUT * Interval * (st[2] - st[1]) = WIN_PAGES_INPUT * n
    BY <1>5, StepIs, IntervalAssumption DEF WIN_PAGES_INPUT
  <2> QED
    BY <1>3, <2>1, PagingRaised
<1>12. Rise(p, c) = IF c >= p THEN c - p ELSE 0
  BY RiseIs
<1>13. CASE c < p
  <2>1. paging = None /\ Rise(p, c) = 0
    BY <1>6, <1>7, <1>12, <1>13
  <2> QED
    BY <1>5, <1>10, <1>11, <2>1 DEF WIN_PAGES_INPUT
<1>14. CASE ~(c < p)
  <2>1. paging = [rise |-> c - p, secs |-> n] /\ Rise(p, c) = c - p
    BY <1>6, <1>7, <1>12, <1>14
  <2>2. paging # None
    BY <2>1, SnapshotAssumption
  <2>3. paging.rise = c - p /\ paging.secs = n
    BY <2>1
  <2> QED
    BY <1>10, <1>11, <2>1, <2>2, <2>3
<1> QED
  BY <1>13, <1>14

\* A device that the chart flags is one that disk_await_signal calls slow, and the
\* reverse, unless a device is exactly on the line or none was busy.
LEMMA LiveDiskFlag ==
    ASSUME TypeOK, NEW s \in Servers, Sane(s), NEW st \in Steps(Times(db, s), Win),
           st[2] = Max(Times(db, s)), st[1] >= LiveSince,
           NEW awaits, awaits = LiveAwaits(db, s, LiveSince, now)
    PROVE  /\ Raised(DiskFlags(db, {s}, Win), <<s, st[2]>>) => Live(s).disk_await = "saturated"
           /\ /\ Live(s).disk_await = "saturated" /\ awaits # {}
              /\ \A e \in awaits : e[1] # RS_DISKIO_AWAIT_MS * e[2]
              => Raised(DiskFlags(db, {s}, Win), <<s, st[2]>>)
<1>1. PICK T : T = Recent(Times(db, s), LiveSince, now)
  OBVIOUS
<1>2. First(T) = st[2] /\ Second(T) = st[1] /\ st[1] # None
  BY <1>1, LiveReads
<1>3. PICK a \in Samples, b \in Samples : a = Row(db, s, st[1]) /\ b = Row(db, s, st[2])
  BY StepIs, StoredRows
<1> DEFINE Two(d) == Recent(TimesOf(db, s, "disk", d), LiveSince, now)
           Step(d) == <<Second(Two(d)), First(Two(d))>>
           Busy(d) == LET p == Row(db, s, Step(d)[1]).disk[d]
                          c == Row(db, s, Step(d)[2]).disk[d]
                      IN  /\ c.ops > p.ops /\ c.t >= p.t
                          /\ DiskBusy(c.iot - p.iot, Step(d))
                          /\ c.iot - p.iot <= 1000 * Seconds(Step(d))
           usable == {d \in db[s].disks : Second(Two(d)) # None}
           BusyIs(d) == /\ b.disk[d].ops > a.disk[d].ops /\ b.disk[d].t >= a.disk[d].t
                        /\ DiskBusy(b.disk[d].iot - a.disk[d].iot, st)
                        /\ b.disk[d].iot - a.disk[d].iot <= 1000 * Seconds(st)
           Await(d) == <<b.disk[d].t - a.disk[d].t, b.disk[d].ops - a.disk[d].ops>>
<1>4. \A d \in db[s].disks : Two(d) = T
  BY <1>1, Reported, KnownOf
<1>5. \A d \in db[s].disks : Step(d) = st /\ Step(d)[1] = st[1] /\ Step(d)[2] = st[2]
  BY <1>2, <1>4, StepIs
<1>6. awaits = {<<Row(db, s, Step(d)[2]).disk[d].t - Row(db, s, Step(d)[1]).disk[d].t,
                  Row(db, s, Step(d)[2]).disk[d].ops - Row(db, s, Step(d)[1]).disk[d].ops>>
                   : d \in {e \in usable : Busy(e)}}
  BY DEF LiveAwaits
<1>7. usable = db[s].disks
  BY <1>2, <1>4
<1>8. \A d \in db[s].disks : Busy(d) <=> BusyIs(d)
  <2> TAKE d \in db[s].disks
  <2>1. Step(d) = st /\ Step(d)[1] = st[1] /\ Step(d)[2] = st[2]
    BY <1>5
  <2> HIDE DEF Step
  <2> QED
    BY <1>3, <2>1
<1>9. awaits = {Await(d) : d \in {e \in db[s].disks : BusyIs(e)}}
  <2>1. \A d \in db[s].disks :
           <<Row(db, s, Step(d)[2]).disk[d].t - Row(db, s, Step(d)[1]).disk[d].t,
             Row(db, s, Step(d)[2]).disk[d].ops - Row(db, s, Step(d)[1]).disk[d].ops>> = Await(d)
    <3> TAKE d \in db[s].disks
    <3>1. Step(d)[1] = st[1] /\ Step(d)[2] = st[2]
      BY <1>5
    <3> HIDE DEF Step
    <3> QED
      BY <1>3, <3>1
  <2>2. {e \in usable : Busy(e)} = {e \in db[s].disks : BusyIs(e)}
    <3> HIDE DEF Busy, BusyIs, usable
    <3> QED
      BY <1>7, <1>8
  <2> HIDE DEF Step, Await, Busy, BusyIs, usable
  <2> QED
    BY <1>6, <2>1, <2>2
<1>10. awaits # {} =>
          Live(s).disk_await = Signal(0, \E e \in awaits : e[1] >= RS_DISKIO_AWAIT_MS * e[2])
  <2>1. latest_saturation(db, s, LiveSince, now).awaits = awaits
    BY DEF latest_saturation
  <2> QED
    BY <2>1 DEF Live, build_saturation_signals, disk_await_signal
<1>11. awaits # {} =>
          (Live(s).disk_await = "saturated" <=> \E e \in awaits : e[1] >= RS_DISKIO_AWAIT_MS * e[2])
  <2>1. 0 # None
    BY NoneAssumption
  <2> QED
    BY <1>10, <2>1 DEF Signal
<1> HIDE DEF Two, Step, Busy, usable
<1>12. ASSUME NEW d \in db[s].disks
       PROVE  DiskCrossed(a.disk[d], b.disk[d], st) <=>
                 BusyIs(d) /\ Await(d)[1] > RS_DISKIO_AWAIT_MS * Await(d)[2]
  <2>1. PICK p \in [DiskFields -> Nat], c \in [DiskFields -> Nat] : p = a.disk[d] /\ c = b.disk[d]
    BY KnownOf DEF Samples
  <2>2. PICK po \in Nat, co \in Nat, pt \in Nat, ct \in Nat, pi \in Nat, ci \in Nat :
           po = p.ops /\ co = c.ops /\ pt = p.t /\ ct = c.t /\ pi = p.iot /\ ci = c.iot
    BY DEF DiskFields
  <2>3. PICK secs \in Nat : secs = Seconds(st)
    BY StepIs, IntervalAssumption DEF Seconds
  <2>4. Await(d)[1] = ct - pt /\ Await(d)[2] = co - po
    BY <2>1, <2>2
  <2>5. BusyIs(d) <=> /\ co > po /\ ct >= pt
                      /\ 100 * (ci - pi) >= RS_DISKIO_UTIL_MIN_PCT * 1000 * secs
                      /\ ci - pi <= 1000 * secs
    BY <2>1, <2>2, <2>3 DEF DiskBusy
  <2>6. DiskCrossed(p, c, st) <=>
           /\ co > po /\ 0 <= ci - pi /\ ci - pi <= 1000 * secs
           /\ 100 * (ci - pi) >= RS_DISKIO_UTIL_MIN_PCT * 1000 * secs
           /\ ct - pt > RS_DISKIO_AWAIT_MS * (co - po)
    BY <2>2, <2>3 DEF DiskCrossed, DiskTrusted, DiskBusy
  <2> HIDE DEF BusyIs, Await
  <2> QED
    BY <2>1, <2>4, <2>5, <2>6 DEF RS_DISKIO_UTIL_MIN_PCT, RS_DISKIO_AWAIT_MS
<1>13. ASSUME NEW d \in db[s].disks PROVE Await(d)[1] \in Int /\ Await(d)[2] \in Int
  <2>1. a.disk[d] \in [DiskFields -> Nat] /\ b.disk[d] \in [DiskFields -> Nat]
    BY KnownOf DEF Samples
  <2>2. /\ a.disk[d].t \in Nat /\ b.disk[d].t \in Nat /\ a.disk[d].ops \in Nat /\ b.disk[d].ops \in Nat
    BY <2>1 DEF DiskFields
  <2> QED
    BY <2>2
<1> HIDE DEF BusyIs, Await
<1>14. (\E d \in db[s].disks : DiskCrossed(a.disk[d], b.disk[d], st)) =>
          \E e \in awaits : e[1] >= RS_DISKIO_AWAIT_MS * e[2]
  <2> SUFFICES ASSUME NEW d \in db[s].disks, DiskCrossed(a.disk[d], b.disk[d], st)
               PROVE  \E e \in awaits : e[1] >= RS_DISKIO_AWAIT_MS * e[2]
    OBVIOUS
  <2>1. Await(d)[1] > RS_DISKIO_AWAIT_MS * Await(d)[2] /\ Await(d) \in awaits
    BY <1>9, <1>12
  <2>2. Await(d)[1] >= RS_DISKIO_AWAIT_MS * Await(d)[2]
    BY <1>13, <2>1 DEF RS_DISKIO_AWAIT_MS
  <2> QED
    BY <2>1, <2>2
<1>15. ASSUME \A e \in awaits : e[1] # RS_DISKIO_AWAIT_MS * e[2],
              \E e \in awaits : e[1] >= RS_DISKIO_AWAIT_MS * e[2]
       PROVE  \E d \in db[s].disks : DiskCrossed(a.disk[d], b.disk[d], st)
  <2>1. PICK d \in db[s].disks : BusyIs(d) /\ Await(d)[1] >= RS_DISKIO_AWAIT_MS * Await(d)[2]
    BY <1>9, <1>15
  <2>2. Await(d)[1] # RS_DISKIO_AWAIT_MS * Await(d)[2]
    BY <1>9, <1>15, <2>1
  <2>3. Await(d)[1] > RS_DISKIO_AWAIT_MS * Await(d)[2]
    BY <1>13, <2>1, <2>2 DEF RS_DISKIO_AWAIT_MS
  <2> QED
    BY <1>12, <2>1, <2>3
<1>16. Raised(DiskFlags(db, {s}, Win), <<s, st[2]>>) <=>
          \E d \in db[s].disks : DiskCrossed(a.disk[d], b.disk[d], st)
  BY <1>3, DiskRaised
<1> QED
  BY <1>11, <1>14, <1>15, <1>16

\* Without a reset, the interfaces summed first and then compared are the
\* interfaces compared first and then summed.
LEMMA LiveNetIs ==
    ASSUME TypeOK, HistoryInv, NEW s \in Servers, Sane(s), NEW st \in Steps(Times(db, s), Win),
           st[2] = Max(Times(db, s)), st[1] >= LiveSince, NoReset(s, st[1], st[2]),
           db[s].ifaces = Ifaces, Ifaces # {}, NEW F \in SUBSET NetFields,
           NEW a, a = Row(db, s, st[1]), NEW b, b = Row(db, s, st[2])
    PROVE  /\ LiveNetDelta(db, s, LiveSince, now, F) = Total(NetRises(s, F, a, b))
           /\ Total(NetRises(s, F, a, b)) \in Nat
<1>1. PICK T : T = Recent(Times(db, s), LiveSince, now)
  OBVIOUS
<1>2. /\ T # {} /\ T \subseteq Times(db, s)
      /\ First(T) = st[2] /\ Second(T) = st[1] /\ st[1] # None
  BY <1>1, LiveReads
<1>3. a \in Samples /\ b \in Samples /\ Later(a, b) /\ ExactDevices(a, b)
  BY StepMoved
<1> DEFINE Two(i) == Recent(TimesOf(db, s, "net", i), LiveSince, now)
           ifaces == UNION {DOMAIN Row(db, s, t).net : t \in T}
           pairs == {i \in ifaces : Second(Two(i)) # None}
           fa == [y \in Ifaces \X F |-> a.net[y[1]][y[2]]]
           fb == [y \in Ifaces \X F |-> b.net[y[1]][y[2]]]
           A == [i \in Ifaces |-> Total([f \in F |-> fa[<<i, f>>]])]
           B == [i \in Ifaces |-> Total([f \in F |-> fb[<<i, f>>]])]
           d == NetRises(s, F, a, b)
<1>4. \A i \in Ifaces : Two(i) = T
  BY <1>1, Reported
<1>5. ifaces = Ifaces
  BY <1>2, Reported
<1>6. pairs = Ifaces
  BY <1>2, <1>4, <1>5
<1>7. LiveNetDelta(db, s, LiveSince, now, F) =
         IF pairs = {} THEN None
         ELSE Total([i \in ifaces |-> Total([f \in F |-> Row(db, s, First(Two(i))).net[i][f]])])
              - Total([i \in pairs |-> Total([f \in F |-> Row(db, s, Second(Two(i))).net[i][f]])])
  BY <1>1 DEF LiveNetDelta
<1>8. [i \in ifaces |-> Total([f \in F |-> Row(db, s, First(Two(i))).net[i][f]])] = B
  <2>1. ASSUME NEW i \in Ifaces
        PROVE  [f \in F |-> Row(db, s, First(Two(i))).net[i][f]] = [f \in F |-> fb[<<i, f>>]]
    <3>1. Row(db, s, First(Two(i))) = b
      BY <1>2, <1>4
    <3>2. \A f \in F : fb[<<i, f>>] = b.net[i][f]
      OBVIOUS
    <3> HIDE DEF fb, Two
    <3> QED
      BY <3>1, <3>2
  <2> HIDE DEF fb, Two, ifaces
  <2> QED
    BY <1>5, <2>1
<1>9. [i \in pairs |-> Total([f \in F |-> Row(db, s, Second(Two(i))).net[i][f]])] = A
  <2>1. ASSUME NEW i \in Ifaces
        PROVE  [f \in F |-> Row(db, s, Second(Two(i))).net[i][f]] = [f \in F |-> fa[<<i, f>>]]
    <3>1. Row(db, s, Second(Two(i))) = a
      BY <1>2, <1>4
    <3>2. \A f \in F : fa[<<i, f>>] = a.net[i][f]
      OBVIOUS
    <3> HIDE DEF fa, Two
    <3> QED
      BY <3>1, <3>2
  <2> HIDE DEF fa, Two, pairs
  <2> QED
    BY <1>6, <2>1
<1>10. LiveNetDelta(db, s, LiveSince, now, F) = Total(B) - Total(A)
  <2> HIDE DEF A, B, fa, fb, Two, ifaces
  <2> QED
    BY <1>6, <1>7, <1>8, <1>9
<1>11. fa \in [Ifaces \X F -> Int] /\ fb \in [Ifaces \X F -> Int]
  <2>1. \A y \in Ifaces \X F : y[1] \in Ifaces /\ y[2] \in NetFields
    OBVIOUS
  <2>2. \A y \in Ifaces \X F : a.net[y[1]][y[2]] \in Int /\ b.net[y[1]][y[2]] \in Int
    BY <1>3, <2>1, SampleNumbers
  <2> QED
    BY <2>2
<1>12. IsFiniteSet(Ifaces) /\ IsFiniteSet(F) /\ IsFiniteSet(Ifaces \X F)
  BY StoreAssumption, FieldsFinite, FS_Product
<1>13. Total(fa) = Total(A) /\ Total(fb) = Total(B)
  <2>1. Total(fa) = Total(RowTotals(fa, Ifaces, F)) /\ Total(fb) = Total(RowTotals(fb, Ifaces, F))
    <3> HIDE DEF fa, fb
    <3> QED
      BY <1>11, <1>12, SumByRows
  <2>2. RowTotals(fa, Ifaces, F) = A /\ RowTotals(fb, Ifaces, F) = B
    <3> HIDE DEF fa, fb
    <3> QED
      BY DEF RowTotals, RowOf
  <2> HIDE DEF fa, fb, A, B
  <2> QED
    BY <2>1, <2>2
<1>14. d \in [Ifaces \X F -> Int] /\ \A y \in Ifaces \X F : d[y] >= 0
  BY <1>3, NetRisesType
<1>15. ASSUME NEW y \in Ifaces \X F PROVE d[y] = fb[y] - fa[y]
  <2>1. y[1] \in Ifaces /\ y[2] \in NetFields
    OBVIOUS
  <2>2. PICK p \in Nat, c \in Nat : p = a.net[y[1]][y[2]] /\ c = b.net[y[1]][y[2]]
    BY <1>3, <2>1, SampleNumbers
  <2>3. PICK u \in Nat, v \in Nat : u = a.real.net[y[1]][y[2]] /\ v = b.real.net[y[1]][y[2]]
    BY <1>3, <2>1, SampleNumbers
  <2>4. c - p = v - u /\ u <= v
    <3>1. p # None /\ c # None
      BY NoneAssumption
    <3>2. c - p = v - u
      BY <1>3, <2>1, <2>2, <2>3, <3>1 DEF ExactDevices, Exact
    <3>3. u <= v
      BY <1>3, <2>1, <2>3 DEF Later, GrewAll, Grew
    <3> QED
      BY <3>2, <3>3
  <2>5. Rise(p, c) = c - p
    BY <2>4, RiseIs
  <2>6. d[y] = Rise(p, c) /\ fb[y] = c /\ fa[y] = p
    BY <2>2 DEF NetRises
  <2> QED
    BY <2>5, <2>6
<1> HIDE DEF fa, fb, d, A, B
<1>16. Total(d) = Total(fb) - Total(fa)
  <2>1. PICK P : P = Ifaces \X F
    OBVIOUS
  <2>2. IsFiniteSet(P) /\ fa \in [P -> Int] /\ fb \in [P -> Int] /\ d \in [P -> Int]
        /\ \A y \in P : d[y] = fb[y] - fa[y]
    BY <1>11, <1>12, <1>14, <1>15, <2>1
  <2> QED
    BY <2>2, SumMinus
<1>17. Total(d) \in Nat
  <2>1. PICK P : P = Ifaces \X F
    OBVIOUS
  <2>2. IsFiniteSet(P) /\ d \in [P -> Int] /\ \A y \in P : d[y] >= 0
    BY <1>12, <1>14, <2>1
  <2>3. Total(d) \in Int /\ Total(d) >= 0
    BY <2>2, SumType, SumNat
  <2> QED
    BY <2>3
<1> QED
  BY <1>10, <1>13, <1>16, <1>17 DEF d

\* A ratio that is not exactly on its line is saturated if it is above it.
LEMMA RatioSignal ==
    ASSUME NEW num \in Nat, NEW den \in Nat, NEW tenths \in Nat, NEW r, r = Ratio(num, den),
           ~(r # None /\ 1000 * r[1] = tenths * r[2])
    PROVE  _ratio_signal(r, tenths) = "saturated" <=> Exceeds(num, den, tenths)
<1>1. num # None /\ den # None
  BY NoneAssumption
<1>2. CASE den > 0
  <2>1. r = <<num, den>>
    BY <1>1, <1>2 DEF Ratio, Above, AtLeast
  <2>2. r[1] = num /\ r[2] = den /\ r # None
    BY <2>1, SnapshotAssumption
  <2>3. 1000 * num # tenths * den /\ 1000 * num \in Int /\ tenths * den \in Int
    BY <2>2
  <2>4. _ratio_signal(r, tenths) = "saturated" <=> 1000 * num >= tenths * den
    BY <2>2 DEF _ratio_signal, Signal
  <2>5. Exceeds(num, den, tenths) <=> 1000 * num > tenths * den
    BY <1>2 DEF Exceeds
  <2>6. PICK j \in Int, k \in Int : j = 1000 * num /\ k = tenths * den
    BY <2>3
  <2> QED
    BY <2>3, <2>4, <2>5, <2>6
<1>3. CASE ~(den > 0)
  <2>1. r = None
    BY <1>3 DEF Ratio, Above
  <2> QED
    BY <1>3, <2>1 DEF Exceeds, _ratio_signal, Signal
<1> QED
  BY <1>2, <1>3

(* The live network signals are up exactly if the chart's flag is. *)
LEMMA LiveNetFlag ==
    ASSUME TypeOK, HistoryInv, NEW s \in Servers, Sane(s), NEW st \in Steps(Times(db, s), Win),
           st[2] = Max(Times(db, s)), st[1] >= LiveSince, NoReset(s, st[1], st[2]),
           db[s].ifaces = Ifaces, Ifaces # {}, EnoughTraffic(db, s, st[2], Win),
           NEW sat, sat = latest_saturation(db, s, LiveSince, now),
           ~(sat.retrans # None /\ 1000 * sat.retrans[1] = RS_NET_RETRANS_TENTHS * sat.retrans[2]),
           ~(sat.drop # None /\ 1000 * sat.drop[1] = RS_NET_DROP_TENTHS * sat.drop[2])
    PROVE  "saturated" \in {Live(s).net_retrans, Live(s).net_drop, Live(s).net_conntrack}
              <=> Raised(NetFlags(db, {s}, Win), <<s, st[2]>>)
<1>1. PICK T : T = Recent(Times(db, s), LiveSince, now)
  OBVIOUS
<1>2. First(T) = st[2] /\ Second(T) = st[1] /\ st[1] # None /\ st[2] # None
  <2>1. st[2] \in Nat
    BY StepIs
  <2> QED
    BY <1>1, <2>1, LiveReads, NoneAssumption
<1>3. PICK a \in Samples, b \in Samples : a = Row(db, s, st[1]) /\ b = Row(db, s, st[2])
  BY StepIs, StoredRows
<1> DEFINE Of(F) == Total(NetRises(s, F, a, b))
<1>4. \A F \in SUBSET NetFields : /\ LiveNetDelta(db, s, LiveSince, now, F) = Of(F)
                                  /\ NetRise(db, s, st[2], Win, F) = Of(F)
                                  /\ Of(F) \in Nat
  BY <1>3, LiveNetIs, NetRiseIs
<1>5. {"txp"} \in SUBSET NetFields /\ {"rxd", "txd"} \in SUBSET NetFields /\ {"rxp", "txp"} \in SUBSET NetFields
  BY DEF NetFields
<1>6. PICK sent \in Nat, lost \in Nat, all \in Nat :
         sent = Of({"txp"}) /\ lost = Of({"rxd", "txd"}) /\ all = Of({"rxp", "txp"})
  BY <1>4, <1>5
<1>7. /\ LiveNetDelta(db, s, LiveSince, now, {"txp"}) = sent
      /\ LiveNetDelta(db, s, LiveSince, now, {"rxd", "txd"}) = lost
      /\ LiveNetDelta(db, s, LiveSince, now, {"rxp", "txp"}) = all
      /\ NetRise(db, s, st[2], Win, {"txp"}) = sent
      /\ NetRise(db, s, st[2], Win, {"rxd", "txd"}) = lost
      /\ NetRise(db, s, st[2], Win, {"rxp", "txp"}) = all
  BY <1>4, <1>5, <1>6
<1> HIDE DEF Of
<1>8. PICK again \in Nat : /\ again = b.retrans - a.retrans
                           /\ RetransRise(db, s, st[2], Win) = again
                           /\ Minus(HostValue(db, s, st[2], "retrans"), HostValue(db, s, st[1], "retrans")) = again
  <2>1. a.retrans \in Nat /\ b.retrans \in Nat
    BY DEF Samples
  <2>2. ExactHost(a, b) /\ Later(a, b)
    BY <1>3, StepMoved
  <2>3. Shown(a)["retrans"] = a.retrans /\ Shown(b)["retrans"] = b.retrans /\ "retrans" \in HostFields
    BY DEF Shown, HostFields
  <2>4. a.retrans # None /\ b.retrans # None
    BY <2>1, NoneAssumption
  <2>5. b.retrans - a.retrans = b.real.host["retrans"] - a.real.host["retrans"]
    BY <2>2, <2>3, <2>4 DEF ExactHost, Exact
  <2>6. a.real.host["retrans"] <= b.real.host["retrans"]
    BY <2>2, <2>3 DEF Later, GrewAll, Grew
  <2>7. a.real.host["retrans"] \in Nat /\ b.real.host["retrans"] \in Nat
    BY <2>3, SampleNumbers
  <2>8. b.retrans - a.retrans \in Nat /\ b.retrans >= a.retrans
    BY <2>1, <2>5, <2>6, <2>7
  <2>9. RetransRise(db, s, st[2], Win) = b.retrans - a.retrans
    <3>1. PICK p \in Nat, c \in Nat : p = a.retrans /\ c = b.retrans /\ c >= p
      BY <2>1, <2>8
    <3>2. Rise(p, c) = c - p
      BY <3>1, RiseIs
    <3>3. RetransRise(db, s, st[2], Win) = Rise(p, c)
      BY <1>3, <3>1, RetransIs
    <3> QED
      BY <3>1, <3>2, <3>3
  <2>10. HostValue(db, s, st[2], "retrans") = b.retrans /\ HostValue(db, s, st[1], "retrans") = a.retrans
    BY <1>2, <1>3 DEF HostValue
  <2>11. Minus(b.retrans, a.retrans) = b.retrans - a.retrans
    BY <2>4 DEF Minus
  <2> QED
    BY <2>8, <2>9, <2>10, <2>11
<1>9. /\ sat.retrans = Ratio(again, sent)
      /\ sat.drop = Ratio(lost, all)
      /\ sat.conntrack = b.conntrack
  BY <1>1, <1>2, <1>3, <1>7, <1>8 DEF latest_saturation, HostValue
<1>10. /\ Live(s).net_retrans = _ratio_signal(sat.retrans, RS_NET_RETRANS_TENTHS)
       /\ Live(s).net_drop = _ratio_signal(sat.drop, RS_NET_DROP_TENTHS)
       /\ Live(s).net_conntrack = IF Windows(db[s].os) THEN "not_applicable"
                                  ELSE Signal(sat.conntrack, AtLeast(sat.conntrack, RS_CONNTRACK_PCT))
  BY DEF Live, build_saturation_signals
<1>11. Live(s).net_retrans = "saturated" <=> Exceeds(again, sent, RS_NET_RETRANS_TENTHS)
  <2>1. PICK line \in Nat : line = RS_NET_RETRANS_TENTHS
    BY DEF RS_NET_RETRANS_TENTHS
  <2>2. PICK r : r = sat.retrans
    OBVIOUS
  <2>3. r = Ratio(again, sent) /\ ~(r # None /\ 1000 * r[1] = line * r[2])
    BY <1>9, <2>1, <2>2
  <2>4. _ratio_signal(r, line) = "saturated" <=> Exceeds(again, sent, line)
    BY <2>3, RatioSignal
  <2> QED
    BY <1>10, <2>1, <2>2, <2>4
<1>12. Live(s).net_drop = "saturated" <=> Exceeds(lost, all, RS_NET_DROP_TENTHS)
  <2>1. PICK line \in Nat : line = RS_NET_DROP_TENTHS
    BY DEF RS_NET_DROP_TENTHS
  <2>2. PICK r : r = sat.drop
    OBVIOUS
  <2>3. r = Ratio(lost, all) /\ ~(r # None /\ 1000 * r[1] = line * r[2])
    BY <1>9, <2>1, <2>2
  <2>4. _ratio_signal(r, line) = "saturated" <=> Exceeds(lost, all, line)
    BY <2>3, RatioSignal
  <2> QED
    BY <1>10, <2>1, <2>2, <2>4
<1>13. Live(s).net_conntrack = "saturated" <=> AtLeast(b.conntrack, RS_CONNTRACK_PCT)
  <2>1. Platform(s, b) /\ db[s].os = Machine[s].os
    BY <1>3, StepIs DEF HistoryInv, RowInv
  <2>2. Windows(db[s].os) => b.conntrack = None
    BY <2>1 DEF Platform
  <2> QED
    BY <1>9, <1>10, <2>2 DEF Signal, AtLeast
<1>14. Congested(db, s, st[2], Win) <=> \/ Exceeds(again, sent, RS_NET_RETRANS_TENTHS)
                                        \/ Exceeds(lost, all, RS_NET_DROP_TENTHS)
                                        \/ AtLeast(b.conntrack, RS_CONNTRACK_PCT)
  BY <1>3, <1>7, <1>8 DEF Congested
<1>15. Raised(NetFlags(db, {s}, Win), <<s, st[2]>>) <=> Congested(db, s, st[2], Win)
  BY NetRaised
<1> QED
  BY <1>11, <1>12, <1>13, <1>14, <1>15

\* What the live signals of a server say of its run queue, paging, disks and
\* network is what its charts say of its newest sample, for every machine, every
\* window and whatever was reset: the run queue as far as the sample and the
\* inventory count the same cores, the rest if the two newest samples are in the
\* live window, except for values on a line, the queue length that Windows falls
\* back on, little traffic and a reset interface, where build_saturation_signals
\* and the chart queries differ.
THEOREM SnapshotsMatch == Spec => []SnapshotMatchesCharts
<1>1. ASSUME TypeOK, HistoryInv PROVE SnapshotMatchesCharts
  <2> SUFFICES ASSUME NEW s \in Servers, Sane(s), NEW x \in HostSteps(db, {s}, Win),
                      x[3] = Max(Times(db, s))
               PROVE  CpuMatches(s, x[3]) /\ (x[2] >= LiveSince => RatesMatch(s, x[2], x[3]))
    BY DEF SnapshotMatchesCharts
  <2>1. PICK st \in Steps(Times(db, s), Win) : x[2] = st[1] /\ x[3] = st[2]
    BY HostStepIs
  <2>2. st[2] = Max(Times(db, s))
    BY <2>1
  <2>3. CpuMatches(s, st[2])
    BY <1>1, <2>2, LiveCpuQueue
  <2>4. ASSUME st[1] >= LiveSince PROVE RatesMatch(s, st[1], st[2])
    <3>1. PICK sat : sat = latest_saturation(db, s, LiveSince, now)
      OBVIOUS
    <3>2. Live(s).mem_paging = "saturated" <=> Raised(PagingFlags(db, {s}, Win), <<s, st[2]>>)
      BY <1>1, <2>2, <2>4, LivePagingFlag
    <3>3. PICK awaits : awaits = LiveAwaits(db, s, LiveSince, now) /\ sat.awaits = awaits
      BY <3>1 DEF latest_saturation
    <3>4. /\ Raised(DiskFlags(db, {s}, Win), <<s, st[2]>>) => Live(s).disk_await = "saturated"
          /\ /\ Live(s).disk_await = "saturated" /\ awaits # {}
             /\ \A e \in awaits : e[1] # RS_DISKIO_AWAIT_MS * e[2]
             => Raised(DiskFlags(db, {s}, Win), <<s, st[2]>>)
      BY <1>1, <2>2, <2>4, <3>3, LiveDiskFlag
    <3>5. ASSUME db[s].ifaces = Ifaces, Ifaces # {}, NoReset(s, st[1], st[2]), EnoughTraffic(db, s, st[2], Win),
                 ~(sat.retrans # None /\ 1000 * sat.retrans[1] = RS_NET_RETRANS_TENTHS * sat.retrans[2]),
                 ~(sat.drop # None /\ 1000 * sat.drop[1] = RS_NET_DROP_TENTHS * sat.drop[2])
          PROVE  "saturated" \in {Live(s).net_retrans, Live(s).net_drop, Live(s).net_conntrack}
                    <=> Raised(NetFlags(db, {s}, Win), <<s, st[2]>>)
      BY <1>1, <2>2, <2>4, <3>1, <3>5, LiveNetFlag
    <3> QED
      BY <3>1, <3>2, <3>3, <3>4, <3>5 DEF RatesMatch
  <2> QED
    BY <2>1, <2>3, <2>4
<1> QED
  BY <1>1, HistoryHolds, PTL

-----------------------------------------------------------------------------
(* No load is invented *)

\* Less, divided by the same, is not more.
LEMMA DivMono ==
    ASSUME NEW j \in Int, NEW k \in Int, j <= k, NEW n \in Nat, n > 0
    PROVE  j \div n <= k \div n /\ j \div n \in Int /\ k \div n \in Int
<1> DEFINE p == j \div n
           q == k \div n
           r == j % n
           t == k % n
<1>1. /\ p \in Int /\ q \in Int /\ r \in Int /\ t \in Int
      /\ 0 <= r /\ r < n /\ 0 <= t /\ t < n /\ j = n * p + r /\ k = n * q + t
  BY SMT
<1> HIDE DEF p, q, r, t
<1>2. p <= q
  <2> SUFFICES ASSUME p >= q + 1 PROVE FALSE
    BY <1>1
  <2>1. n * p >= n * (q + 1)
    BY <1>1, SMT
  <2>2. n * (q + 1) = n * q + n
    BY <1>1, SMT
  <2>3. n * p \in Int /\ n * q \in Int
    BY <1>1
  <2> QED
    BY <1>1, <2>1, <2>2, <2>3
<1> QED
  BY <1>1, <1>2 DEF p, q

\* A mean is at most the largest value.
LEMMA MeanAtMost ==
    ASSUME NEW U, IsFiniteSet(U), U # {}, NEW f \in [U -> Int], NEW most \in Int,
           \A x \in U : f[x] <= most
    PROVE  Agg("avg", f) \in Int /\ Agg("avg", f) <= most
<1>1. PICK a \in [SUBSET U -> Int] :
         /\ a[{}] = 0
         /\ \A T \in SUBSET U : \A x \in U \ T : a[T \cup {x}] = f[x] + a[T]
         /\ a[U] = Total(f)
  BY Sums
<1> DEFINE F == {T \in SUBSET U : a[T] <= Cardinality(T) * most}
<1>2. {} \in F
  <2>1. Cardinality({}) = 0
    BY FS_EmptySet
  <2>2. 0 * most = 0
    OBVIOUS
  <2>3. a[{}] <= Cardinality({}) * most
    BY <1>1, <2>1, <2>2
  <2> QED
    BY <2>3
<1>3. ASSUME NEW T \in SUBSET U, T \in F, NEW x \in U \ T PROVE T \cup {x} \in F
  <2>1. PICK n \in Nat : n = Cardinality(T)
    BY FS_Subset, FS_CardinalityType
  <2>2. Cardinality(T \cup {x}) = n + 1
    BY <2>1, FS_Subset, FS_AddElement
  <2>3. a[T \cup {x}] = f[x] + a[T] /\ f[x] \in Int /\ a[T] \in Int /\ f[x] <= most /\ a[T] <= n * most
    BY <1>1, <1>3, <2>1
  <2>4. (n + 1) * most = n * most + most /\ n * most \in Int
    BY SMT
  <2>5. a[T \cup {x}] <= (n + 1) * most
    BY <2>3, <2>4
  <2> QED
    BY <2>2, <2>5
<1>4. U \in F
  <2> HIDE DEF F
  <2> QED
    BY <1>2, <1>3, FiniteInduction
<1>5. PICK n \in Nat : n = Cardinality(U) /\ n > 0
  BY FS_CardinalityType, FS_EmptySet
<1>6. PICK m \in Int : m = Total(f) /\ m <= n * most
  BY <1>1, <1>4, <1>5
<1>7. Agg("avg", f) = m \div n
  <2>1. DOMAIN f = U
    OBVIOUS
  <2> QED
    BY <1>5, <1>6, <2>1 DEF Agg
<1> DEFINE q == m \div n
           r == m % n
<1>8. q \in Int /\ r \in Int /\ 0 <= r /\ r < n /\ m = n * q + r
  BY <1>5, SMT
<1> HIDE DEF q, r
<1>9. q <= most
  <2> SUFFICES ASSUME q >= most + 1 PROVE FALSE
    BY <1>8
  <2>1. n * q >= n * (most + 1)
    BY <1>5, <1>8, SMT
  <2>2. n * (most + 1) = n * most + n
    BY SMT
  <2>3. n * q \in Int /\ n * most \in Int
    BY <1>8
  <2> QED
    BY <1>5, <1>6, <1>8, <2>1, <2>2, <2>3
<1> QED
  BY <1>7, <1>8, <1>9 DEF q

\* What an interface received between two samples is at most what it moved.
LEMMA RateAtMost ==
    ASSUME TypeOK, HistoryInv, NEW s \in Servers, Sane(s), NEW st \in Steps(Times(db, s), Win),
           NEW i \in Ifaces,
           NEW p, p = Row(db, s, st[1]).net[i]["rxb"], NEW c, c = Row(db, s, st[2]).net[i]["rxb"]
    PROVE  /\ p \in Nat /\ c \in Nat /\ st[2] - st[1] \in Nat \ {0}
           /\ Moved(s, i, st) \in Int /\ Moved(s, i, st) >= 0
           /\ (c - p) \div (st[2] - st[1]) <= Moved(s, i, st)
           /\ Rise(p, c) \div (st[2] - st[1]) <= Moved(s, i, st)
           /\ Rise(p, c) \div (st[2] - st[1]) \in Int
<1>1. PICK a \in Samples, b \in Samples : a = Row(db, s, st[1]) /\ b = Row(db, s, st[2]) /\ Later(a, b)
  BY StepMoved
<1>2. "rxb" \in NetFields
  BY DEF NetFields
<1>3. /\ p \in Nat /\ c \in Nat /\ a.real.net[i]["rxb"] \in Nat /\ b.real.net[i]["rxb"] \in Nat
  BY <1>1, <1>2, SampleNumbers
<1>4. a.real.net[i]["rxb"] <= b.real.net[i]["rxb"]
  BY <1>1, <1>2 DEF Later, GrewAll, Grew
<1>5. c - p <= b.real.net[i]["rxb"] - a.real.net[i]["rxb"]
  <2>1. p # None /\ c # None
    BY <1>3, NoneAssumption
  <2> QED
    BY <1>1, <1>2, <2>1 DEF Later, GrewAll, Grew
<1>6. PICK did \in Nat : did = DidNet(s, st[1], st[2], i, "rxb") /\ c - p <= did
  BY <1>1, <1>3, <1>4, <1>5 DEF DidNet
<1>7. PICK n \in Nat : n = st[2] - st[1] /\ n > 0
  BY StepIs
<1>8. PICK rise \in Nat : rise = Rise(p, c) /\ rise <= did
  <2>1. Rise(p, c) = (IF c >= p THEN c - p ELSE 0) /\ Rise(p, c) \in Nat
    BY <1>3, RiseIs
  <2>2. CASE c >= p
    BY <1>3, <1>6, <2>1, <2>2
  <2>3. CASE ~(c >= p)
    BY <1>3, <1>6, <2>1, <2>3
  <2> QED
    BY <2>2, <2>3
<1>9. Moved(s, i, st) = did \div n
  BY <1>6, <1>7 DEF Moved
<1>10. did \div n \in Int /\ rise \div n \in Int /\ rise \div n <= did \div n
  BY <1>7, <1>8, DivMono
<1>11. (c - p) \div n <= did \div n
  <2>1. c - p \in Int
    BY <1>3
  <2>2. PICK j \in Int : j = c - p /\ j <= did
    BY <1>6, <2>1
  <2>3. j \div n <= did \div n
    BY <1>7, <2>2, DivMono
  <2> QED
    BY <2>2, <2>3
<1>12. did \div n >= 0
  <2>1. 0 \div n <= did \div n
    BY <1>7, DivMono
  <2>2. 0 \div n = 0
    BY <1>7, SMT
  <2> QED
    BY <2>1, <2>2
<1> QED
  BY <1>3, <1>7, <1>8, <1>9, <1>10, <1>11, <1>12

\* The throughput drawn for a bucket.
LEMMA ThroughputAtMost ==
    ASSUME TypeOK, HistoryInv, NEW s \in Servers, Sane(s),
           NEW chart, chart = _trend_rate_per_dim(db, {s}, "net", "rxb", Win), NEW b \in DOMAIN chart
    PROVE  chart[b] <= Total([i \in db[s].ifaces |->
              Max({Moved(s, i, st) : st \in {z \in Steps(Times(db, s), Win) : Bucket(z[2], Win) = b}})])
<1> DEFINE steps == Steps(Times(db, s), Win)
           In == {z \in steps : Bucket(z[2], Win) = b}
           Most(i) == Max({Moved(s, i, st) : st \in In})
           I == db[s].ifaces
           phys(r) == IF "net" = "disk" THEN db[r].disks ELSE db[r].ifaces
           rates == UNION {UNION {{<<r, d, st>> : st \in Steps(TimesOf(db, r, "net", d), Win)}
                                  : d \in phys(r)} : r \in {s}}
           mine(r, d) == {x \in rates : x[1] = r /\ x[2] = d /\ Bucket(x[3][2], Win) = b}
           Mean(r, d) == Agg("avg", [x \in mine(r, d) |-> RateOf(db, r, "net", d, "rxb", x[3])])
           Active == {<<x[1], x[2]>> : x \in {z \in rates : Bucket(z[3][2], Win) = b}}
           f == [y \in Active |-> Mean(y[1], y[2])]
           g == [i \in I |-> Most(i)]
           h == [y \in Active |-> y[2]]
<1>1. b \in {Bucket(x[3][2], Win) : x \in rates} /\ chart[b] = Total(f)
  BY DEF _trend_rate_per_dim
<1>2. I \subseteq Ifaces /\ IsFiniteSet(I)
  BY KnownOf
<1>3. phys(s) = I /\ \A d \in I : TimesOf(db, s, "net", d) = Times(db, s)
  BY <1>2, Reported
<1>4. rates = UNION {{<<s, d, st>> : st \in steps} : d \in I}
  BY <1>3
<1>5. /\ \A x \in rates : x = <<x[1], x[2], x[3]>> /\ x[1] = s /\ x[2] \in I /\ x[3] \in steps
      /\ \A d \in I : \A st \in steps : <<s, d, st>> \in rates
  <2> HIDE DEF I, steps, rates
  <2>1. ASSUME NEW d \in I, NEW st \in steps PROVE <<s, d, st>> \in rates
    <3>1. <<s, d, st>> \in {<<s, d, z>> : z \in steps}
      OBVIOUS
    <3> QED
      BY <1>4, <3>1
  <2>2. ASSUME NEW x \in rates
        PROVE  x = <<x[1], x[2], x[3]>> /\ x[1] = s /\ x[2] \in I /\ x[3] \in steps
    <3>1. PICK d \in I : x \in {<<s, d, st>> : st \in steps}
      BY <1>4
    <3>2. PICK st \in steps : x = <<s, d, st>>
      BY <3>1
    <3> QED
      BY <3>2
  <2> QED
    BY <2>1, <2>2
<1> HIDE DEF rates
<1>6. In # {} /\ IsFiniteSet(In)
  <2>1. PICK x \in rates : Bucket(x[3][2], Win) = b
    BY <1>1
  <2>2. x[3] \in In
    BY <1>5, <2>1
  <2>3. IsFiniteSet(steps)
    BY TimesType, StepsFinite
  <2> QED
    BY <2>2, <2>3, FS_Subset
<1>7. ASSUME NEW i \in I
      PROVE  Most(i) \in Int /\ Most(i) >= 0 /\ \A st \in In : Moved(s, i, st) <= Most(i)
  <2> DEFINE m == [st \in In |-> Moved(s, i, st)]
             V == {m[st] : st \in In}
  <2>1. \A st \in In : m[st] = Moved(s, i, st) /\ m[st] \in Int /\ m[st] >= 0
    BY <1>2, RateAtMost
  <2>2. DOMAIN m = In /\ V = {Moved(s, i, st) : st \in In}
    OBVIOUS
  <2> HIDE DEF m
  <2>3. IsFiniteSet(V)
    BY <1>6, <2>2, FiniteImage
  <2>4. V \subseteq Int /\ V # {}
    BY <1>6, <2>1
  <2>5. Max(V) \in V /\ \A y \in V : Max(V) >= y
    <3> HIDE DEF V
    <3> QED
      BY <2>3, <2>4, Extremes
  <2>6. Most(i) = Max(V)
    BY <2>2
  <2>7. Max(V) \in Int /\ Max(V) >= 0
    BY <2>1, <2>5
  <2>8. \A st \in In : Moved(s, i, st) <= Max(V)
    <3> TAKE st \in In
    <3>1. m[st] \in V /\ m[st] = Moved(s, i, st) /\ m[st] \in Int
      BY <2>1
    <3> HIDE DEF V
    <3> QED
      BY <2>5, <2>7, <3>1
  <2> HIDE DEF V, Most
  <2> QED
    BY <2>6, <2>7, <2>8
<1>8. ASSUME NEW i \in I PROVE Mean(s, i) \in Int /\ Mean(s, i) <= Most(i)
  <2> DEFINE U == mine(s, i)
             v == [x \in U |-> RateOf(db, s, "net", i, "rxb", x[3])]
  <2>1. \A x \in U : x = <<s, i, x[3]>> /\ x[3] \in In
    BY <1>5
  <2>2. U # {} /\ IsFiniteSet(U)
    <3> DEFINE k == [st \in In |-> <<s, i, st>>]
    <3>1. DOMAIN k = In /\ {k[st] : st \in In} = U
      <4>1. \A st \in In : <<s, i, st>> \in U
        BY <1>5
      <4> HIDE DEF U, In
      <4> QED
        BY <2>1, <4>1
    <3> HIDE DEF k, U, In
    <3>2. IsFiniteSet({k[st] : st \in In})
      BY <1>6, <3>1, FiniteImage
    <3>3. {k[st] : st \in In} # {}
      BY <1>6
    <3> QED
      BY <3>1, <3>2, <3>3
  <2>3. \A x \in U : v[x] \in Int /\ v[x] <= Most(i)
    <3> TAKE x \in U
    <3>1. PICK st \in In : st = x[3]
      BY <2>1
    <3>2. v[x] = Rise(Row(db, s, st[1]).net[i]["rxb"], Row(db, s, st[2]).net[i]["rxb"]) \div (st[2] - st[1])
      BY <3>1 DEF RateOf
    <3>3. v[x] \in Int /\ v[x] <= Moved(s, i, st) /\ Moved(s, i, st) \in Int
      <4>1. st \in steps /\ i \in Ifaces
        BY <1>2, <3>1
      <4> HIDE DEF In, U, v
      <4> QED
        BY <3>2, <4>1, RateAtMost
    <3>4. Most(i) \in Int /\ Moved(s, i, st) <= Most(i)
      BY <1>7, <3>1
    <3> HIDE DEF In, U, v, Most
    <3> QED
      BY <3>3, <3>4
  <2>4. v \in [U -> Int]
    BY <2>3
  <2>5. PICK most \in Int : most = Most(i)
    BY <1>7
  <2> HIDE DEF U, v, Most
  <2>6. Agg("avg", v) \in Int /\ Agg("avg", v) <= most
    BY <2>2, <2>3, <2>4, <2>5, MeanAtMost
  <2> QED
    BY <2>5, <2>6 DEF v, U
<1> HIDE DEF Most, Mean, mine
<1>9. \A y \in Active : y = <<s, y[2]>> /\ y[1] = s /\ y[2] \in I
  BY <1>5
<1>10. IsFiniteSet(Active)
  <2> DEFINE k == [i \in I |-> <<s, i>>]
  <2>1. IsFiniteSet({k[i] : i \in I})
    <3>1. DOMAIN k = I
      OBVIOUS
    <3> HIDE DEF k
    <3> QED
      BY <1>2, <3>1, FiniteImage
  <2>2. Active \in SUBSET {k[i] : i \in I}
    BY <1>9
  <2> HIDE DEF k, Active
  <2> QED
    BY <2>1, <2>2, FS_Subset
<1> HIDE DEF Active
<1>11. /\ f \in [Active -> Int] /\ g \in [I -> Int] /\ h \in [Active -> I]
       /\ \A y \in Active : h[y] = y[2] /\ f[y] <= g[h[y]]
       /\ \A i \in I : g[i] >= 0
  BY <1>7, <1>8, <1>9
<1>12. \A x, y \in Active : h[x] = h[y] => x = y
  BY <1>9, <1>11
<1> HIDE DEF I, f, g, h
<1>13. Total(f) <= Total(g)
  BY <1>2, <1>10, <1>11, <1>12, SumThrough
<1> QED
  BY <1>1, <1>13 DEF g, Most, I

\* Paging pressure is drawn only where pages were read back.
LEMMA PagingReal ==
    ASSUME TypeOK, HistoryInv, NEW s \in Servers, Sane(s), NEW x \in PagingSteps(db, {s}, Win),
           Raised(PagingFlags(db, {s}, Win), <<s, x[3]>>)
    PROVE  Did(s, x[2], x[3], "pages") > 0
<1>1. PICK st \in Steps(Times(db, s), Win) : x = <<s, st[1], st[2]>>
  BY PagingIs DEF PagingSteps
<1>2. x[2] = st[1] /\ x[3] = st[2]
  BY <1>1
<1>3. PICK a \in Samples, b \in Samples : a = Row(db, s, st[1]) /\ b = Row(db, s, st[2]) /\ Later(a, b)
  BY StepMoved
<1>4. PICK p \in Nat, c \in Nat : p = a.paging_in /\ c = b.paging_in
  BY DEF Samples
<1>5. PICK n \in Nat : n = st[2] - st[1] /\ n > 0
  BY StepIs
<1>6. PICK m \in Nat : m = WIN_PAGES_INPUT * Interval * n /\ m > 0
  BY <1>5, IntervalAssumption DEF WIN_PAGES_INPUT
<1>7. IF Windows(db[s].os) THEN Rise(p, c) >= m ELSE Rise(p, c) > 0
  BY <1>2, <1>3, <1>4, <1>5, <1>6, PagingRaised
<1>8. Rise(p, c) = (IF c >= p THEN c - p ELSE 0) /\ Rise(p, c) > 0
  <2>1. PICK rise \in Nat : rise = Rise(p, c) /\ rise = (IF c >= p THEN c - p ELSE 0)
    BY RiseIs
  <2>2. rise > 0
    BY <1>6, <1>7, <2>1
  <2> QED
    BY <2>1, <2>2
<1>9. c - p > 0
  BY <1>8
<1>10. "pages" \in HostFields /\ Shown(a)["pages"] = p /\ Shown(b)["pages"] = c /\ p # None /\ c # None
  BY <1>4, NoneAssumption DEF HostFields, Shown
<1>11. PICK y \in Nat, z \in Nat : y = a.real.host["pages"] /\ z = b.real.host["pages"]
  BY <1>10, SampleNumbers
<1>12. c - p <= z - y
  BY <1>3, <1>10, <1>11 DEF Later, GrewAll, Grew
<1>13. Did(s, x[2], x[3], "pages") = z - y
  BY <1>2, <1>3, <1>11 DEF Did
<1> QED
  BY <1>9, <1>12, <1>13

\* The two newest of the recent rows are those of the newest step.
LEMMA NewestOfRecent ==
    ASSUME TypeOK, NEW s \in Servers, Sane(s), NEW st \in Steps(Times(db, s), Win),
           st[2] = Max(Times(db, s)), NEW since \in Int,
           NEW T, T = Recent(Times(db, s), since, now), Second(T) # None
    PROVE  First(T) = st[2] /\ Second(T) = st[1]
<1>1. T \subseteq Times(db, s) /\ T \subseteq Nat /\ IsFiniteSet(T)
  BY TimesType, FS_Subset DEF Recent
<1>2. /\ First(T) \in T /\ Second(T) \in T /\ Second(T) < First(T)
      /\ First(T) \in Nat /\ Second(T) \in Nat
  BY <1>1, NewestRows
<1>3. st[1] \in Nat /\ st[2] \in Nat /\ st[1] < st[2]
  BY StepIs
<1>4. since <= Second(T) /\ First(T) <= st[2]
  <2>1. since <= Second(T)
    BY <1>2 DEF Recent
  <2>2. Times(db, s) \subseteq Int /\ Times(db, s) # {} /\ IsFiniteSet(Times(db, s))
    BY TimesType, StepIs
  <2>3. First(T) <= Max(Times(db, s))
    BY <1>1, <1>2, <1>3, <2>2, Extremes
  <2> QED
    BY <2>1, <2>3
<1>5. Second(T) < st[2]
  BY <1>2, <1>3, <1>4
<1>6. since <= st[1]
  <2> SUFFICES ASSUME st[1] < since PROVE FALSE
    BY <1>3
  <2>1. st[1] < Second(T)
    BY <1>2, <1>3, <1>4
  <2>2. Second(T) \in WithLead(Times(db, s), Win)
    <3>1. Win.start - Win.width <= st[1] /\ Win.start - Win.width \in Int
      BY StepIs, WinIs DEF WithLead
    <3>2. Second(T) <= Win.end
      BY <1>1, <1>2, WinIs DEF Sane
    <3>3. Win.start - Win.width <= Second(T)
      BY <1>2, <1>3, <2>1, <3>1
    <3> QED
      BY <1>1, <1>2, <3>2, <3>3 DEF WithLead
  <2>3. Second(T) <= st[1] \/ Second(T) >= st[2]
    BY <2>2, StepIs
  <2> QED
    BY <1>2, <1>3, <1>5, <2>1, <2>3
<1> QED
  BY <1>6, NewestStep

\* The live rate.
LEMMA LiveRateAtMost ==
    ASSUME TypeOK, HistoryInv, NEW s \in Servers, Sane(s), NEW st \in Steps(Times(db, s), Win),
           st[2] = First(Times(db, s)), NEW i \in DashboardDims(db, s, "net", now)
    PROVE  OrNull(compute_rate(db, s, "net", i, "rxb", now)) <= Moved(s, i, st)
<1>1. i \in Ifaces
  <2>1. \A t \in Times(db, s) : DOMAIN Row(db, s, t)["net"] = Ifaces
    BY Reported
  <2>2. UNION {DOMAIN Row(db, s, t)["net"] : t \in Recent(Times(db, s), now - LatestWindow, now)} \subseteq Ifaces
    BY <2>1 DEF Recent
  <2> QED
    BY <2>2 DEF DashboardDims
<1>2. TimesOf(db, s, "net", i) = Times(db, s)
  BY <1>1, Reported
<1>3. PICK T : T = Recent(Times(db, s), now - LatestWindow, now)
  OBVIOUS
<1>4. st[2] = Max(Times(db, s))
  BY StepIs DEF First
<1>5. Moved(s, i, st) \in Int /\ Moved(s, i, st) >= 0
  BY <1>1, RateAtMost
<1>6. PICK rate : rate = compute_rate(db, s, "net", i, "rxb", now)
  OBVIOUS
<1>7. CASE Second(T) = None
  <2>1. rate = None
    BY <1>2, <1>3, <1>6, <1>7 DEF compute_rate
  <2> QED
    BY <1>5, <1>6, <2>1 DEF OrNull
<1>8. CASE Second(T) # None
  <2>1. now - LatestWindow \in Int
    BY WinIs, SnapshotAssumption
  <2>2. First(T) = st[2] /\ Second(T) = st[1]
    BY <1>3, <1>4, <1>8, <2>1, NewestOfRecent
  <2>3. PICK p, c : p = Row(db, s, st[1]).net[i]["rxb"] /\ c = Row(db, s, st[2]).net[i]["rxb"]
    OBVIOUS
  <2>4. rate = IF c < p THEN None ELSE (c - p) \div (st[2] - st[1])
    BY <1>2, <1>3, <1>6, <1>8, <2>2, <2>3 DEF compute_rate
  <2>5. p \in Nat /\ c \in Nat /\ st[2] - st[1] \in Nat \ {0} /\ (c - p) \div (st[2] - st[1]) <= Moved(s, i, st)
    BY <1>1, <2>3, RateAtMost
  <2>6. OrNull(rate) = 0 \/ OrNull(rate) = (c - p) \div (st[2] - st[1])
    BY <2>4 DEF OrNull
  <2> QED
    BY <1>5, <1>6, <2>5, <2>6
<1> QED
  BY <1>7, <1>8

\* A live stall is one that happened.
LEMMA StallReal ==
    ASSUME TypeOK, HistoryInv, NEW s \in Servers, Sane(s), NEW st \in Steps(Times(db, s), Win),
           st[2] = First(Times(db, s)), Live(s).mem_psi = "saturated"
    PROVE  100 * Did(s, st[1], st[2], "stall") >= PSI_STALL_DISPLAY_PCT * 1000 * Seconds(st)
<1>1. st[2] = Max(Times(db, s))
  BY StepIs DEF First
<1>2. PICK T : T = Recent(Times(db, s), LiveSince, now)
  OBVIOUS
<1>3. T \subseteq Times(db, s)
  BY <1>2 DEF Recent
<1>4. PICK psi : psi = LiveStall(db, s, T)
  OBVIOUS
<1>5. Live(s).mem_psi = _psi_signal(psi, db[s].os)
  BY <1>2, <1>4 DEF Live, build_saturation_signals, latest_saturation
<1>6. ~Windows(db[s].os) /\ psi # None /\ psi.rise >= 10 * PSI_STALL_DISPLAY_PCT * psi.secs
  BY <1>5 DEF _psi_signal, Signal
<1>7. \A t \in T : Row(db, s, t).stall # None
  <2> TAKE t \in T
  <2>1. Platform(s, Row(db, s, t)) /\ db[s].os = Machine[s].os
    BY <1>3 DEF HistoryInv, RowInv
  <2> QED
    BY <1>6, <2>1 DEF Platform
<1>8. {t \in T : Row(db, s, t).stall # None} = T
  BY <1>7
<1>9. PICK a \in Samples, b \in Samples : a = Row(db, s, st[1]) /\ b = Row(db, s, st[2]) /\ Later(a, b)
  BY StepMoved
<1>10. PICK n \in Nat : n = Interval * (st[2] - st[1]) /\ n > 0
  BY StepIs, IntervalAssumption
<1>18. First(T) = st[2] /\ Second(T) = st[1] /\ st[1] # None
  <2>1. Second(T) # None
    BY <1>4, <1>6, <1>8 DEF LiveStall, LiveRate
  <2>2. PICK since \in Int : T = Recent(Times(db, s), since, now)
    BY <1>2, LiveSinceIs
  <2>3. st[1] # None
    BY StepIs, NoneAssumption
  <2> QED
    BY <1>1, <2>1, <2>2, <2>3, NewestOfRecent
<1>11. /\ a.stall # None /\ b.stall # None /\ ~(b.stall < a.stall)
       /\ psi = [rise |-> b.stall - a.stall, secs |-> n]
  BY <1>18, <1>4, <1>6, <1>8, <1>9, <1>10 DEF LiveStall, LiveRate
<1>12. PICK p \in Nat, c \in Nat : p = a.stall /\ c = b.stall
  BY <1>11 DEF Samples, Gauge
<1>13. "stall" \in HostFields /\ Shown(a)["stall"] = p /\ Shown(b)["stall"] = c /\ p # None /\ c # None
  BY <1>11, <1>12 DEF HostFields, Shown
<1>14. PICK y \in Nat, z \in Nat : y = a.real.host["stall"] /\ z = b.real.host["stall"]
  BY <1>13, SampleNumbers
<1>15. c - p <= z - y
  BY <1>9, <1>13, <1>14 DEF Later, GrewAll, Grew
<1>16. c - p >= 10 * 10 * n
  BY <1>6, <1>11, <1>12 DEF PSI_STALL_DISPLAY_PCT
<1>17. Did(s, st[1], st[2], "stall") = z - y /\ Seconds(st) = n
  BY <1>9, <1>10, <1>14 DEF Did, Seconds
<1> QED
  BY <1>15, <1>16, <1>17 DEF PSI_STALL_DISPLAY_PCT

\* The charts and live figures of a server show no load that it did not have, for
\* every machine, whatever is lost or reset and whenever: GREATEST(.., 0) of the
\* charts and the decrease checks of the live figures suffice.
THEOREM LoadIsReal == Spec => []ChartsInventNoLoad
<1>1. ASSUME TypeOK, HistoryInv PROVE ChartsInventNoLoad
  <2> SUFFICES ASSUME NEW s \in Servers, Sane(s)
               PROVE  LET chart == _trend_rate_per_dim(db, {s}, "net", "rxb", Win)
                          In(b) == {st \in Steps(Times(db, s), Win) : Bucket(st[2], Win) = b}
                          Most(i, b) == Max({Moved(s, i, st) : st \in In(b)})
                      IN  /\ \A b \in DOMAIN chart : chart[b] <= Total([i \in db[s].ifaces |-> Most(i, b)])
                          /\ \A x \in PagingSteps(db, {s}, Win) :
                                Raised(PagingFlags(db, {s}, Win), <<s, x[3]>>) => Did(s, x[2], x[3], "pages") > 0
                          /\ \A i \in DashboardDims(db, s, "net", now) : \A st \in Steps(Times(db, s), Win) :
                                st[2] = First(Times(db, s)) =>
                                    OrNull(compute_rate(db, s, "net", i, "rxb", now)) <= Moved(s, i, st)
                          /\ \A st \in Steps(Times(db, s), Win) :
                                st[2] = First(Times(db, s)) /\ Live(s).mem_psi = "saturated" =>
                                    100 * Did(s, st[1], st[2], "stall") >=
                                        PSI_STALL_DISPLAY_PCT * 1000 * Seconds(st)
    BY DEF ChartsInventNoLoad
  <2>1. PICK chart : chart = _trend_rate_per_dim(db, {s}, "net", "rxb", Win)
    OBVIOUS
  <2>2. \A b \in DOMAIN chart :
           chart[b] <= Total([i \in db[s].ifaces |->
              Max({Moved(s, i, st) : st \in {z \in Steps(Times(db, s), Win) : Bucket(z[2], Win) = b}})])
    BY <1>1, <2>1, ThroughputAtMost
  <2>3. \A x \in PagingSteps(db, {s}, Win) :
           Raised(PagingFlags(db, {s}, Win), <<s, x[3]>>) => Did(s, x[2], x[3], "pages") > 0
    BY <1>1, PagingReal
  <2>4. \A i \in DashboardDims(db, s, "net", now) : \A st \in Steps(Times(db, s), Win) :
           st[2] = First(Times(db, s)) =>
              OrNull(compute_rate(db, s, "net", i, "rxb", now)) <= Moved(s, i, st)
    BY <1>1, LiveRateAtMost
  <2>5. \A st \in Steps(Times(db, s), Win) :
           st[2] = First(Times(db, s)) /\ Live(s).mem_psi = "saturated" =>
              100 * Did(s, st[1], st[2], "stall") >= PSI_STALL_DISPLAY_PCT * 1000 * Seconds(st)
    BY <1>1, StallReal
  <2> QED
    BY <2>1, <2>2, <2>3, <2>4, <2>5
<1> QED
  BY <1>1, HistoryHolds, PTL

-----------------------------------------------------------------------------
(* What happened is shown *)

\* The bucket of an instant is the last one that begins at or before it.
LEMMA BucketOrder ==
    ASSUME NEW w \in Nat, w > 0, NEW x \in Int, NEW y \in Int, x <= y
    PROVE  /\ x - (x % w) \in Int /\ y - (y % w) \in Int
           /\ x - (x % w) <= x /\ x < (x - (x % w)) + w
           /\ x - (x % w) <= y - (y % w)
           /\ x % w = 0 => x <= y - (y % w)
<1> DEFINE p == x \div w
           q == y \div w
           r == x % w
           t == y % w
<1>1. /\ p \in Int /\ q \in Int /\ r \in Int /\ t \in Int
      /\ 0 <= r /\ r < w /\ 0 <= t /\ t < w /\ x = w * p + r /\ y = w * q + t
  BY SMT
<1>2. p <= q
  BY DivMono
<1> HIDE DEF p, q, r, t
<1>3. w * p <= w * q /\ w * p \in Int /\ w * q \in Int
  BY <1>1, <1>2, SMT
<1>4. x - r = w * p /\ y - t = w * q
  BY <1>1, <1>3
<1> QED
  BY <1>1, <1>3, <1>4 DEF r, t

\* The fleet's file-system chart.
LEMMA FsChart ==
    ASSUME TypeOK, NEW s \in Servers, NEW t \in WithLead(Times(db, s), Win),
           NEW b \in Bucket(Max({t, Win.start}), Win)..now, b % Width = 0,
           NEW chart, chart = _trend_fs_usage_percent(db, Servers, Win)
    PROVE  b \in DOMAIN chart /\ chart[b] \in 0..100
<1> DEFINE targets == UNION {{<<r, m>> : m \in UNION {DOMAIN Row(db, r, u).fs :
                                 u \in WithLead(Times(db, r), Win)}} : r \in Servers}
           Upto(x, c) == FsReportsUpto(db, x, c, Win)
           LastOf(x, c) == Row(db, x[1], Max(Upto(x, c))).fs[x[2]]
           Found(c) == {x \in targets : Upto(x, c) # {}}
           used == [x \in Found(b) |-> LastOf(x, b).used]
           cap == [x \in Found(b) |-> LastOf(x, b).used + LastOf(x, b).free]
           Used(c) == Total([x \in Found(c) |-> LastOf(x, c).used])
           Cap(c) == Total([x \in Found(c) |-> LastOf(x, c).used + LastOf(x, c).free])
           buckets == {c \in Bucket(Win.start, Win)..Bucket(Win.end, Win) : c % Win.width = 0}
<1>1. chart = [c \in {k \in buckets : Cap(k) > 0} |-> Percent(Used(c), Cap(c))]
  BY DEF _trend_fs_usage_percent
<1>2. PICK w \in Nat : w = Width /\ w = Win.width /\ w > 0
  BY WinIs
<1>3. PICK start \in Int : start = Win.start
  BY WinIs
<1>4. now \in Nat /\ Win.end = now
  BY WinIs
<1>5. t \in Times(db, s) /\ t \in Nat /\ t <= now
  BY <1>4, TimesType DEF WithLead
<1>6. PICK m \in Int : m = Max({t, Win.start}) /\ m >= t /\ m >= start
  BY <1>3, <1>5, MaxOfTwo
<1>7. b \in Int /\ b <= now /\ m - (m % w) <= b
  <2>1. Bucket(Max({t, Win.start}), Win) = m - (m % w)
    BY <1>2, <1>6 DEF Bucket
  <2>2. m - (m % w) \in Int
    BY <1>2, BucketOrder
  <2> QED
    BY <1>4, <2>1, <2>2
<1>8. b \in buckets
  <2>1. start - (start % w) <= m - (m % w) /\ start - (start % w) \in Int /\ m - (m % w) \in Int
    BY <1>2, <1>6, BucketOrder
  <2>2. b <= now - (now % w) /\ now - (now % w) \in Int
    BY <1>2, <1>4, <1>7, BucketOrder
  <2>3. Bucket(Win.start, Win) = start - (start % w) /\ Bucket(Win.end, Win) = now - (now % w)
    BY <1>2, <1>3, <1>4 DEF Bucket
  <2>4. start - (start % w) <= b
    BY <1>7, <2>1
  <2> QED
    BY <1>2, <1>7, <2>1, <2>2, <2>3, <2>4
<1>9. t < b + w
  <2>1. m < (m - (m % w)) + w /\ m - (m % w) \in Int
    BY <1>2, <1>6, BucketOrder
  <2> QED
    BY <1>2, <1>5, <1>6, <1>7, <2>1
<1>10. \A r \in Servers : \A u \in Times(db, r) : Row(db, r, u).fs \in [{"data"} -> [used : Nat, free : Nat \ {0}]]
  BY StoredRows DEF Samples
<1>11. \A r \in Servers : \A u \in Times(db, r) : DOMAIN Row(db, r, u)["fs"] = {"data"}
  BY <1>10
<1>12. \A r \in Servers : TimesOf(db, r, "fs", "data") = Times(db, r)
  BY <1>11 DEF TimesOf, Row
<1>13. \A x \in targets : x = <<x[1], "data">> /\ x[1] \in Servers /\ x[2] = "data"
  <2> TAKE x \in targets
  <2>1. PICK r \in Servers : x \in {<<r, n>> : n \in UNION {DOMAIN Row(db, r, u).fs :
                                 u \in WithLead(Times(db, r), Win)}}
    OBVIOUS
  <2>2. PICK n \in UNION {DOMAIN Row(db, r, u).fs : u \in WithLead(Times(db, r), Win)} : x = <<r, n>>
    BY <2>1
  <2>3. n = "data"
    BY <1>10, <2>2 DEF WithLead
  <2> QED
    BY <2>2, <2>3
<1>14. PICK e : e = <<s, "data">>
  OBVIOUS
<1>15. e \in targets /\ e[1] = s /\ e[2] = "data"
  <2>1. "data" \in DOMAIN Row(db, s, t).fs
    BY <1>5, <1>10
  <2>2. "data" \in UNION {DOMAIN Row(db, s, u).fs : u \in WithLead(Times(db, s), Win)}
    BY <2>1
  <2> QED
    BY <1>14, <2>2
<1> HIDE DEF targets
<1>16. t \in Upto(e, b)
  <2>1. t \in TimesOf(db, s, "fs", "data") /\ Win.start - Win.width <= t
    BY <1>5, <1>12 DEF WithLead
  <2> QED
    BY <1>2, <1>9, <1>15, <2>1 DEF FsReportsUpto
<1>17. e \in Found(b)
  BY <1>15, <1>16
<1>18. IsFiniteSet(Found(b))
  <2> DEFINE k == [r \in Servers |-> <<r, "data">>]
  <2>1. IsFiniteSet({k[r] : r \in Servers})
    <3>1. DOMAIN k = Servers
      OBVIOUS
    <3> HIDE DEF k
    <3> QED
      BY <3>1, FiniteImage, StoreAssumption
  <2>2. Found(b) \in SUBSET {k[r] : r \in Servers}
    BY <1>13
  <2> HIDE DEF k, Found
  <2> QED
    BY <2>1, <2>2, FS_Subset
<1>19. ASSUME NEW x \in Found(b) PROVE LastOf(x, b) \in [used : Nat, free : Nat \ {0}]
  <2>1. x[1] \in Servers /\ x[2] = "data" /\ Upto(x, b) # {}
    BY <1>13
  <2>2. Upto(x, b) \subseteq Times(db, x[1])
    BY <2>1 DEF FsReportsUpto, TimesOf
  <2>3. Upto(x, b) \subseteq Int /\ IsFiniteSet(Upto(x, b))
    BY <2>1, <2>2, TimesType, FS_Subset
  <2>4. Max(Upto(x, b)) \in Times(db, x[1])
    <3> HIDE DEF Upto
    <3> QED
      BY <2>1, <2>2, <2>3, Extremes
  <2> QED
    BY <1>10, <2>1, <2>4
<1> HIDE DEF Found, LastOf
<1>20. /\ used \in [Found(b) -> Int] /\ cap \in [Found(b) -> Int]
       /\ \A x \in Found(b) : used[x] >= 0 /\ used[x] <= cap[x] /\ cap[x] > 0
  BY <1>19
<1> HIDE DEF used, cap
<1>21. PICK u \in Int : u = Total(used) /\ u >= 0
  BY <1>18, <1>20, SumNat, SumType
<1>22. PICK c \in Int : c = Total(cap) /\ u <= c /\ c > 0
  <2>1. \A x \in Found(b) : cap[x] >= 0
    BY <1>20
  <2>2. Total(cap) \in Int /\ Total(cap) >= cap[e] /\ cap[e] > 0 /\ cap[e] \in Int
    BY <1>17, <1>18, <1>20, <2>1, SumNat, SumType
  <2>3. Total(used) <= Total(cap)
    BY <1>18, <1>20, SumOrder
  <2> QED
    BY <1>21, <2>2, <2>3
<1>23. Used(b) = u /\ Cap(b) = c
  BY <1>21, <1>22 DEF used, cap
<1>24. Percent(u, c) \in 0..100
  <2>1. u \in Nat /\ c \in Nat
    BY <1>21, <1>22
  <2>2. PICK hundred \in Nat : hundred = 100
    OBVIOUS
  <2>3. (hundred * u) \div c \in 0..hundred
    BY <1>22, <2>1, ShareOf
  <2>4. Percent(u, c) = (100 * u) \div c
    BY <1>22 DEF Percent
  <2> QED
    BY <2>2, <2>3, <2>4
<1> HIDE DEF Used, Cap, buckets
<1>25. b \in DOMAIN chart /\ chart[b] = Percent(u, c)
  BY <1>1, <1>8, <1>22, <1>23
<1> QED
  BY <1>24, <1>25

\* Without a reset a clamped rise is what was done.
LEMMA RiseDone ==
    ASSUME NEW p \in Nat, NEW c \in Nat, NEW y \in Nat, NEW z \in Nat, c - p = z - y, y <= z
    PROVE  Rise(p, c) = z - y /\ c >= p
<1>1. c >= p
  OBVIOUS
<1>2. Rise(p, c) = c - p
  BY <1>1, RiseIs
<1> QED
  BY <1>1, <1>2

(* Without a reset the host's rise is the work done. *)
LEMMA HostDone ==
    ASSUME NEW a \in Samples, NEW b \in Samples, Later(a, b), ExactHost(a, b), NEW f \in {"pages", "retrans"}
    PROVE  Rise(Shown(a)[f], Shown(b)[f]) = b.real.host[f] - a.real.host[f]
<1>1. f \in HostFields
  BY DEF HostFields
<1>2. PICK p \in Nat, c \in Nat : p = Shown(a)[f] /\ c = Shown(b)[f]
  BY DEF Shown, Samples
<1>3. PICK y \in Nat, z \in Nat : y = a.real.host[f] /\ z = b.real.host[f]
  BY <1>1, SampleNumbers
<1>4. p # None /\ c # None
  BY <1>2, NoneAssumption
<1>5. c - p = z - y /\ y <= z
  BY <1>1, <1>2, <1>3, <1>4 DEF ExactHost, Exact, Later, GrewAll, Grew
<1>6. Rise(p, c) = z - y
  BY <1>5, RiseDone
<1> QED
  BY <1>2, <1>3, <1>6

\* A step over which paging was drawn is one in which it happened, and the reverse.
LEMMA PagingShown ==
    ASSUME TypeOK, HistoryInv, NEW s \in Servers, Sane(s), NEW st \in Steps(Times(db, s), Win),
           NoReset(s, st[1], st[2])
    PROVE  Raised(PagingFlags(db, {s}, Win), <<s, st[2]>>) <=>
              IF Windows(db[s].os)
              THEN Did(s, st[1], st[2], "pages") >= WIN_PAGES_INPUT * (Interval * (st[2] - st[1]))
              ELSE Did(s, st[1], st[2], "pages") > 0
<1>1. PICK a \in Samples, b \in Samples : /\ a = Row(db, s, st[1]) /\ b = Row(db, s, st[2])
                                          /\ Later(a, b) /\ ExactHost(a, b)
  BY StepMoved
<1>2. Rise(Shown(a)["pages"], Shown(b)["pages"]) = b.real.host["pages"] - a.real.host["pages"]
  BY <1>1, HostDone
<1>3. Shown(a)["pages"] = a.paging_in /\ Shown(b)["pages"] = b.paging_in
  BY DEF Shown
<1>4. PICK did : did = Did(s, st[1], st[2], "pages") /\ did = Rise(a.paging_in, b.paging_in)
  BY <1>1, <1>2, <1>3 DEF Did
<1>5. WIN_PAGES_INPUT * Interval * (st[2] - st[1]) = WIN_PAGES_INPUT * (Interval * (st[2] - st[1]))
  <2>1. PICK n \in Nat : n = st[2] - st[1]
    BY StepIs
  <2> QED
    BY <2>1, IntervalAssumption DEF WIN_PAGES_INPUT
<1> QED
  BY <1>1, <1>4, <1>5, PagingRaised

(* Without a reset the disk flag is up exactly if a disk was slow. *)
LEMMA DiskShown ==
    ASSUME TypeOK, HistoryInv, NEW s \in Servers, Sane(s), NEW st \in Steps(Times(db, s), Win),
           NoReset(s, st[1], st[2]), NEW secs, secs = Interval * (st[2] - st[1])
    PROVE  Raised(DiskFlags(db, {s}, Win), <<s, st[2]>>) <=> \E d \in db[s].disks :
              /\ DidDisk(s, st[1], st[2], d, "ops") > 0
              /\ DidDisk(s, st[1], st[2], d, "t") > RS_DISKIO_AWAIT_MS * DidDisk(s, st[1], st[2], d, "ops")
              /\ 100 * DidDisk(s, st[1], st[2], d, "iot") >= RS_DISKIO_UTIL_MIN_PCT * 1000 * secs
              /\ DidDisk(s, st[1], st[2], d, "iot") <= 1000 * secs
<1>1. PICK a \in Samples, b \in Samples : /\ a = Row(db, s, st[1]) /\ b = Row(db, s, st[2])
                                          /\ Later(a, b) /\ ExactDevices(a, b)
  BY StepMoved
<1>2. Seconds(st) = secs
  BY DEF Seconds
<1>3. ASSUME NEW d \in db[s].disks
      PROVE  DiskCrossed(a.disk[d], b.disk[d], st) <=>
                /\ DidDisk(s, st[1], st[2], d, "ops") > 0
                /\ DidDisk(s, st[1], st[2], d, "t") > RS_DISKIO_AWAIT_MS * DidDisk(s, st[1], st[2], d, "ops")
                /\ 100 * DidDisk(s, st[1], st[2], d, "iot") >= RS_DISKIO_UTIL_MIN_PCT * 1000 * secs
                /\ DidDisk(s, st[1], st[2], d, "iot") <= 1000 * secs
  <2>1. d \in Disks /\ {"ops", "t", "iot"} \subseteq DiskFields
    BY KnownOf DEF DiskFields
  <2>2. \A f \in {"ops", "t", "iot"} :
           /\ a.disk[d][f] \in Nat /\ b.disk[d][f] \in Nat
           /\ b.disk[d][f] - a.disk[d][f] = DidDisk(s, st[1], st[2], d, f)
           /\ DidDisk(s, st[1], st[2], d, f) \in Nat
    <3> TAKE f \in {"ops", "t", "iot"}
    <3>1. PICK p \in Nat, c \in Nat : p = a.disk[d][f] /\ c = b.disk[d][f]
      BY <1>1, <2>1, SampleNumbers
    <3>2. PICK y \in Nat, z \in Nat : y = a.real.disk[d][f] /\ z = b.real.disk[d][f]
      BY <1>1, <2>1, SampleNumbers
    <3>3. p # None /\ c # None
      BY NoneAssumption
    <3>4. f \in DiskFields
      BY <2>1
    <3>5. c - p = z - y
      BY <1>1, <2>1, <3>1, <3>2, <3>3, <3>4 DEF ExactDevices, Exact
    <3>6. y <= z
      BY <1>1, <2>1, <3>2, <3>4 DEF Later, GrewAll, Grew
    <3>7. DidDisk(s, st[1], st[2], d, f) = z - y
      BY <1>1, <3>2 DEF DidDisk
    <3> QED
      BY <3>1, <3>5, <3>6, <3>7
  <2>3. PICK ops \in Nat, tm \in Nat, iot \in Nat :
           /\ ops = DidDisk(s, st[1], st[2], d, "ops") /\ tm = DidDisk(s, st[1], st[2], d, "t")
           /\ iot = DidDisk(s, st[1], st[2], d, "iot")
           /\ b.disk[d].ops - a.disk[d].ops = ops /\ b.disk[d].t - a.disk[d].t = tm
           /\ b.disk[d].iot - a.disk[d].iot = iot
    BY <2>2
  <2>4. b.disk[d].ops > a.disk[d].ops <=> ops > 0
    BY <2>2, <2>3
  <2>5. DiskCrossed(a.disk[d], b.disk[d], st) <=>
           /\ ops > 0 /\ 0 <= iot /\ iot <= 1000 * secs
           /\ 100 * iot >= RS_DISKIO_UTIL_MIN_PCT * 1000 * secs /\ tm > RS_DISKIO_AWAIT_MS * ops
    BY <1>2, <2>3, <2>4 DEF DiskCrossed, DiskTrusted, DiskBusy
  <2> QED
    BY <2>3, <2>5
<1> QED
  BY <1>1, <1>3, DiskRaised

\* The counters of the interfaces rose by what was done.
LEMMA NetDone ==
    ASSUME TypeOK, HistoryInv, NEW s \in Servers, Sane(s), NEW st \in Steps(Times(db, s), Win),
           NoReset(s, st[1], st[2]), NEW F \in SUBSET NetFields
    PROVE  NetRise(db, s, st[2], Win, F) =
              Total([y \in db[s].ifaces \X F |-> DidNet(s, st[1], st[2], y[1], y[2])])
<1>1. PICK a \in Samples, b \in Samples : /\ a = Row(db, s, st[1]) /\ b = Row(db, s, st[2])
                                          /\ Later(a, b) /\ ExactDevices(a, b)
  BY StepMoved
<1>2. ASSUME NEW y \in db[s].ifaces \X F
      PROVE  Rise(a.net[y[1]][y[2]], b.net[y[1]][y[2]]) = DidNet(s, st[1], st[2], y[1], y[2])
  <2>1. PICK i \in Ifaces, f \in NetFields : i = y[1] /\ f = y[2]
    BY KnownOf
  <2>2. PICK p \in Nat, c \in Nat : p = a.net[i][f] /\ c = b.net[i][f]
    BY <1>1, SampleNumbers
  <2>3. PICK v \in Nat, z \in Nat : v = a.real.net[i][f] /\ z = b.real.net[i][f]
    BY <1>1, SampleNumbers
  <2>4. p # None /\ c # None
    BY NoneAssumption
  <2>5. c - p = z - v /\ v <= z
    BY <1>1, <2>2, <2>3, <2>4 DEF ExactDevices, Exact, Later, GrewAll, Grew
  <2>6. Rise(p, c) = z - v
    BY <2>5, RiseDone
  <2> QED
    BY <1>1, <2>1, <2>2, <2>3, <2>6 DEF DidNet
<1>3. NetRises(s, F, a, b) = [y \in db[s].ifaces \X F |-> DidNet(s, st[1], st[2], y[1], y[2])]
  BY <1>2 DEF NetRises
<1> QED
  BY <1>1, <1>3, NetRiseIs

(* Without a reset the network flag is up exactly if it was congested. *)
LEMMA NetShown ==
    ASSUME TypeOK, HistoryInv, NEW s \in Servers, Sane(s), NEW st \in Steps(Times(db, s), Win),
           NoReset(s, st[1], st[2]), NEW secs, secs = Interval * (st[2] - st[1]), db[s].ifaces # {}
    PROVE  LET Net(F) == Total([y \in db[s].ifaces \X F |-> DidNet(s, st[1], st[2], y[1], y[2])])
           IN  Raised(NetFlags(db, {s}, Win), <<s, st[2]>>) <=>
                  \/ /\ Net({"rxb", "txb"}) >= RS_NET_MIN_TRAFFIC_KBPS * secs
                     /\ \/ Exceeds(Did(s, st[1], st[2], "retrans"), Net({"txp"}), RS_NET_RETRANS_TENTHS)
                        \/ Exceeds(Net({"rxd", "txd"}), Net({"rxp", "txp"}), RS_NET_DROP_TENTHS)
                  \/ AtLeast(Row(db, s, st[2]).conntrack, RS_CONNTRACK_PCT)
<1> DEFINE Net(F) == Total([y \in db[s].ifaces \X F |-> DidNet(s, st[1], st[2], y[1], y[2])])
<1>1. {"rxb", "txb"} \in SUBSET NetFields /\ {"txp"} \in SUBSET NetFields
      /\ {"rxd", "txd"} \in SUBSET NetFields /\ {"rxp", "txp"} \in SUBSET NetFields
  BY DEF NetFields
<1>2. /\ NetRise(db, s, st[2], Win, {"rxb", "txb"}) = Net({"rxb", "txb"})
      /\ NetRise(db, s, st[2], Win, {"txp"}) = Net({"txp"})
      /\ NetRise(db, s, st[2], Win, {"rxd", "txd"}) = Net({"rxd", "txd"})
      /\ NetRise(db, s, st[2], Win, {"rxp", "txp"}) = Net({"rxp", "txp"})
  BY <1>1, NetDone
<1>3. RetransRise(db, s, st[2], Win) = Did(s, st[1], st[2], "retrans")
  <2>1. PICK a \in Samples, b \in Samples : /\ a = Row(db, s, st[1]) /\ b = Row(db, s, st[2])
                                            /\ Later(a, b) /\ ExactHost(a, b)
    BY StepMoved
  <2>2. Rise(Shown(a)["retrans"], Shown(b)["retrans"]) = b.real.host["retrans"] - a.real.host["retrans"]
    BY <2>1, HostDone
  <2>3. Shown(a)["retrans"] = a.retrans /\ Shown(b)["retrans"] = b.retrans
    BY DEF Shown
  <2> QED
    BY <2>1, <2>2, <2>3, RetransIs DEF Did
<1>4. Seconds(st) = secs
  BY DEF Seconds
<1> HIDE DEF Net
<1>5. EnoughTraffic(db, s, st[2], Win) <=> Net({"rxb", "txb"}) >= RS_NET_MIN_TRAFFIC_KBPS * secs
  BY <1>2, <1>4, NetRaised
<1>6. Raised(NetFlags(db, {s}, Win), <<s, st[2]>>) <=> Congested(db, s, st[2], Win)
  BY NetRaised
<1>7. Congested(db, s, st[2], Win) <=>
         \/ /\ EnoughTraffic(db, s, st[2], Win)
            /\ \/ Exceeds(Did(s, st[1], st[2], "retrans"), Net({"txp"}), RS_NET_RETRANS_TENTHS)
               \/ Exceeds(Net({"rxd", "txd"}), Net({"rxp", "txp"}), RS_NET_DROP_TENTHS)
         \/ AtLeast(Row(db, s, st[2]).conntrack, RS_CONNTRACK_PCT)
  BY <1>2, <1>3 DEF Congested
<1> QED
  BY <1>5, <1>6, <1>7 DEF Net

\* A server that was short of memory, had a slow disk or a congested network
\* between two samples is shown so, and no other, for every machine and window, as
\* long as nothing was reset; and a fleet's file-system chart keeps a value for
\* every mount that has reported.
THEOREM HappeningsShow == Spec => []ChartsShowWhatHappened
<1>1. ASSUME TypeOK, HistoryInv PROVE ChartsShowWhatHappened
  <2>1. ASSUME NEW s \in Servers, NEW t \in WithLead(Times(db, s), Win),
               NEW b \in Bucket(Max({t, Win.start}), Win)..now, b % Width = 0
        PROVE  /\ b \in DOMAIN _trend_fs_usage_percent(db, Servers, Win)
               /\ _trend_fs_usage_percent(db, Servers, Win)[b] \in 0..100
    BY <1>1, <2>1, FsChart
  <2>2. ASSUME NEW s \in Servers, Sane(s), NEW x \in HostSteps(db, {s}, Win), NoReset(s, x[2], x[3])
        PROVE  LET u == x[2]
                   t == x[3]
                   secs == Interval * (t - u)
                   pages == Did(s, u, t, "pages")
                   Disk(d, f) == DidDisk(s, u, t, d, f)
                   Net(F) == Total([y \in db[s].ifaces \X F |-> DidNet(s, u, t, y[1], y[2])])
               IN  /\ Raised(PagingFlags(db, {s}, Win), <<s, t>>) <=>
                         IF Windows(db[s].os) THEN pages >= WIN_PAGES_INPUT * secs ELSE pages > 0
                   /\ Raised(DiskFlags(db, {s}, Win), <<s, t>>) <=> \E d \in db[s].disks :
                         /\ Disk(d, "ops") > 0
                         /\ Disk(d, "t") > RS_DISKIO_AWAIT_MS * Disk(d, "ops")
                         /\ 100 * Disk(d, "iot") >= RS_DISKIO_UTIL_MIN_PCT * 1000 * secs
                         /\ Disk(d, "iot") <= 1000 * secs
                   /\ db[s].ifaces # {} => (Raised(NetFlags(db, {s}, Win), <<s, t>>) <=>
                         \/ /\ Net({"rxb", "txb"}) >= RS_NET_MIN_TRAFFIC_KBPS * secs
                            /\ \/ Exceeds(Did(s, u, t, "retrans"), Net({"txp"}), RS_NET_RETRANS_TENTHS)
                               \/ Exceeds(Net({"rxd", "txd"}), Net({"rxp", "txp"}), RS_NET_DROP_TENTHS)
                         \/ AtLeast(Row(db, s, t).conntrack, RS_CONNTRACK_PCT))
    <3>1. PICK st \in Steps(Times(db, s), Win) : x[2] = st[1] /\ x[3] = st[2]
      BY HostStepIs
    <3>2. NoReset(s, st[1], st[2])
      BY <2>2, <3>1
    <3>3. PICK secs : secs = Interval * (st[2] - st[1])
      OBVIOUS
    <3>4. Raised(PagingFlags(db, {s}, Win), <<s, st[2]>>) <=>
             IF Windows(db[s].os) THEN Did(s, st[1], st[2], "pages") >= WIN_PAGES_INPUT * secs
             ELSE Did(s, st[1], st[2], "pages") > 0
      BY <1>1, <2>2, <3>2, <3>3, PagingShown
    <3>5. Raised(DiskFlags(db, {s}, Win), <<s, st[2]>>) <=> \E d \in db[s].disks :
             /\ DidDisk(s, st[1], st[2], d, "ops") > 0
             /\ DidDisk(s, st[1], st[2], d, "t") > RS_DISKIO_AWAIT_MS * DidDisk(s, st[1], st[2], d, "ops")
             /\ 100 * DidDisk(s, st[1], st[2], d, "iot") >= RS_DISKIO_UTIL_MIN_PCT * 1000 * secs
             /\ DidDisk(s, st[1], st[2], d, "iot") <= 1000 * secs
      BY <1>1, <2>2, <3>2, <3>3, DiskShown
    <3>6. db[s].ifaces # {} =>
             LET Net(F) == Total([y \in db[s].ifaces \X F |-> DidNet(s, st[1], st[2], y[1], y[2])])
             IN  Raised(NetFlags(db, {s}, Win), <<s, st[2]>>) <=>
                    \/ /\ Net({"rxb", "txb"}) >= RS_NET_MIN_TRAFFIC_KBPS * secs
                       /\ \/ Exceeds(Did(s, st[1], st[2], "retrans"), Net({"txp"}), RS_NET_RETRANS_TENTHS)
                          \/ Exceeds(Net({"rxd", "txd"}), Net({"rxp", "txp"}), RS_NET_DROP_TENTHS)
                    \/ AtLeast(Row(db, s, st[2]).conntrack, RS_CONNTRACK_PCT)
      BY <1>1, <2>2, <3>2, <3>3, NetShown
    <3> QED
      BY <3>1, <3>3, <3>4, <3>5, <3>6
  <2> QED
    BY <2>1, <2>2 DEF ChartsShowWhatHappened
<1> QED
  BY <1>1, HistoryHolds, PTL

-----------------------------------------------------------------------------
(* The fleet and its servers *)

\* A ratio of sums is at most the largest of the ratios.
LEMMA Mediant ==
    ASSUME NEW A, IsFiniteSet(A), NEW f \in [A -> Int], NEW g \in [A -> Int],
           \A x \in A : g[x] >= 0 /\ (g[x] = 0 => f[x] <= 0),
           NEW sf \in Int, sf = Total(f), NEW sg \in Int, sg = Total(g), sg > 0
    PROVE  \E x \in A : g[x] > 0 /\ (100 * sf) \div sg <= (100 * f[x]) \div g[x]
<1> DEFINE q == (100 * sf) \div sg
           r == (100 * sf) % sg
<1>1. q \in Int /\ r \in Int /\ 0 <= r /\ r < sg /\ 100 * sf = sg * q + r
  BY SMT
<1> HIDE DEF q, r
<1> SUFFICES ASSUME \A x \in A : g[x] > 0 => ~(q <= (100 * f[x]) \div g[x]) PROVE FALSE
  BY DEF q
<1>2. ASSUME NEW x \in A
      PROVE  100 * f[x] <= q * g[x] /\ (g[x] > 0 => 100 * f[x] < q * g[x])
  <2>1. PICK n \in Int, d \in Int : n = f[x] /\ d = g[x] /\ d >= 0 /\ (d = 0 => n <= 0)
    OBVIOUS
  <2>2. CASE d = 0
    <3>1. q * d = 0
      BY <1>1, <2>2, SMT
    <3> QED
      BY <2>1, <2>2, <3>1
  <2>3. CASE d > 0
    <3> DEFINE p == (100 * n) \div d
               m == (100 * n) % d
    <3>1. p \in Int /\ m \in Int /\ 0 <= m /\ m < d /\ 100 * n = d * p + m
      BY <2>3, SMT
    <3>2. ~(q <= p)
      BY <2>1, <2>3
    <3> HIDE DEF p, m
    <3>3. d * (p + 1) <= d * q
      <4>1. p + 1 <= q
        BY <1>1, <3>1, <3>2
      <4> QED
        BY <1>1, <2>3, <3>1, <4>1, SMT
    <3>4. d * (p + 1) = d * p + d /\ d * p \in Int /\ d * q = q * d /\ q * d \in Int
      BY <1>1, <3>1, SMT
    <3>5. 100 * n < q * d
      BY <2>3, <3>1, <3>3, <3>4
    <3> QED
      BY <2>1, <3>4, <3>5
  <2> QED
    BY <2>1, <2>2, <2>3
<1>3. PICK a \in [SUBSET A -> Int] :
         /\ a[{}] = 0
         /\ \A T \in SUBSET A : \A x \in A \ T : a[T \cup {x}] = f[x] + a[T]
         /\ a[A] = Total(f)
  BY Sums
<1>4. PICK c \in [SUBSET A -> Int] :
         /\ c[{}] = 0
         /\ \A T \in SUBSET A : \A x \in A \ T : c[T \cup {x}] = g[x] + c[T]
         /\ c[A] = Total(g)
  BY Sums
<1> DEFINE F == {T \in SUBSET A : c[T] >= 0 /\ 100 * a[T] <= q * c[T] /\ (c[T] > 0 => 100 * a[T] < q * c[T])}
<1>5. {} \in F
  <2>1. q * 0 = 0
    BY <1>1, SMT
  <2>2. /\ c[{}] >= 0 /\ 100 * a[{}] <= q * c[{}] /\ (c[{}] > 0 => 100 * a[{}] < q * c[{}])
    BY <1>3, <1>4, <2>1
  <2> QED
    BY <2>2
<1>6. ASSUME NEW T \in SUBSET A, T \in F, NEW x \in A \ T PROVE T \cup {x} \in F
  <2>1. PICK i \in Int, j \in Int, n \in Int, d \in Int : i = a[T] /\ j = c[T] /\ n = f[x] /\ d = g[x]
    OBVIOUS
  <2>2. a[T \cup {x}] = n + i /\ c[T \cup {x}] = d + j
    BY <1>3, <1>4, <2>1
  <2>3. /\ j >= 0 /\ 100 * i <= q * j /\ (j > 0 => 100 * i < q * j) /\ d >= 0
        /\ 100 * n <= q * d /\ (d > 0 => 100 * n < q * d)
    BY <1>2, <1>6, <2>1
  <2>4. q * (d + j) = q * d + q * j /\ q * d \in Int /\ q * j \in Int
    BY <1>1, SMT
  <2>5. d + j >= 0 /\ 100 * (n + i) <= q * (d + j) /\ (d + j > 0 => 100 * (n + i) < q * (d + j))
    BY <2>3, <2>4
  <2> QED
    BY <2>2, <2>5
<1>7. A \in F
  <2> HIDE DEF F
  <2> QED
    BY <1>5, <1>6, FiniteInduction
<1>8. 100 * sf < q * sg
  BY <1>3, <1>4, <1>7
<1>9. q * sg = sg * q /\ sg * q \in Int
  BY <1>1, SMT
<1> QED
  BY <1>1, <1>8, <1>9

(* The sum over one element. *)
LEMMA SumOfOne ==
    ASSUME NEW x, NEW f \in [{x} -> Int]
    PROVE  Total(f) = f[x]
<1>1. PICK a \in [SUBSET {x} -> Int] :
         /\ a[{}] = 0
         /\ \A T \in SUBSET {x} : \A y \in {x} \ T : a[T \cup {y}] = f[y] + a[T]
         /\ a[{x}] = Total(f)
  BY Sums, FS_Singleton
<1>2. {} \in SUBSET {x} /\ x \in {x} \ {} /\ {} \cup {x} = {x}
  OBVIOUS
<1>3. a[{} \cup {x}] = f[x] + a[{}]
  BY <1>1, <1>2
<1> QED
  BY <1>1, <1>2, <1>3

\* What a bucket of a ratio chart shows.
LEMMA RatioMax ==
    ASSUME NEW R, IsFiniteSet(R), NEW num \in [R -> Int], NEW den \in [R -> Int], NEW at, DOMAIN at = R,
           \A x \in R : den[x] >= 0,
           NEW win, NEW chart, chart = RatioTrend(num, den, at, win, "max")
    PROVE  /\ \A x \in R : SumAt(num, at, at[x]) \in Int /\ SumAt(den, at, at[x]) \in Int
           /\ \A b \in DOMAIN chart :
                 /\ chart[b] \in Int
                 /\ \E x \in R : /\ Bucket(at[x], win) = b /\ SumAt(den, at, at[x]) > 0
                                 /\ chart[b] = (100 * SumAt(num, at, at[x])) \div SumAt(den, at, at[x])
           /\ \A x \in R : SumAt(den, at, at[x]) > 0 =>
                 /\ Bucket(at[x], win) \in DOMAIN chart
                 /\ (100 * SumAt(num, at, at[x])) \div SumAt(den, at, at[x]) <= chart[Bucket(at[x], win)]
<1> DEFINE times == {at[x] : x \in R}
           p == [t \in times |-> RatioAt(num, den, at, t)]
<1>1. chart = Trend(p, win, "max") /\ DOMAIN p = times
  BY DEF RatioTrend, RatioAt, SumAt
<1>2. ASSUME NEW t \in times
      PROVE  SumAt(num, at, t) \in Int /\ SumAt(den, at, t) \in Int /\ SumAt(den, at, t) >= 0
  <2>1. PICK A : A = {y \in R : at[y] = t}
    OBVIOUS
  <2>2. A \subseteq R /\ IsFiniteSet(A)
    BY <2>1, FS_Subset
  <2>3. PICK f, g : f = [x \in A |-> num[x]] /\ g = [x \in A |-> den[x]]
    OBVIOUS
  <2>4. f \in [A -> Int] /\ g \in [A -> Int] /\ \A x \in A : g[x] >= 0
    BY <2>2, <2>3
  <2>5. Total(f) \in Int /\ Total(g) \in Int /\ Total(g) >= 0
    BY <2>2, <2>4, SumType, SumNat
  <2>6. SumAt(num, at, t) = Total(f) /\ SumAt(den, at, t) = Total(g)
    BY <2>1, <2>3 DEF SumAt
  <2> QED
    BY <2>5, <2>6
<1>3. \A t \in times :
         /\ SumAt(den, at, t) > 0 => /\ p[t] = (100 * SumAt(num, at, t)) \div SumAt(den, at, t)
                                     /\ p[t] \in Int /\ p[t] # None
         /\ ~(SumAt(den, at, t) > 0) => p[t] = None
  <2> TAKE t \in times
  <2>1. PICK n \in Int, d \in Int : n = SumAt(num, at, t) /\ d = SumAt(den, at, t) /\ d >= 0
    BY <1>2
  <2>2. p[t] = Percent(n, d)
    BY <2>1 DEF RatioAt
  <2>3. CASE d > 0
    <3>1. (100 * n) \div d \in Int
      BY <2>3, SMT
    <3>2. p[t] = (100 * n) \div d
      BY <2>2, <2>3 DEF Percent
    <3> QED
      BY <2>1, <2>3, <3>1, <3>2, NoneAssumption
  <2>4. CASE ~(d > 0)
    BY <2>1, <2>2, <2>4 DEF Percent
  <2> QED
    BY <2>1, <2>3, <2>4
<1> HIDE DEF p
<1>4. IsFiniteSet(DOMAIN p)
  BY <1>1, FiniteImage
<1>5. \A t \in DOMAIN p : p[t] \in Int \cup {None}
  BY <1>1, <1>3
<1>6. \A b \in DOMAIN chart : \E t \in times :
         /\ p[t] # None /\ Bucket(t, win) = b /\ chart[b] = p[t]
  BY <1>1, <1>4, <1>5, TrendMax
<1>7. ASSUME NEW b \in DOMAIN chart
      PROVE  /\ chart[b] \in Int
             /\ \E x \in R : /\ Bucket(at[x], win) = b /\ SumAt(den, at, at[x]) > 0
                             /\ chart[b] = (100 * SumAt(num, at, at[x])) \div SumAt(den, at, at[x])
  <2>1. PICK t \in times : p[t] # None /\ Bucket(t, win) = b /\ chart[b] = p[t]
    BY <1>6
  <2>2. PICK x \in R : at[x] = t
    OBVIOUS
  <2> QED
    BY <1>3, <2>1, <2>2
<1>8. ASSUME NEW x \in R, SumAt(den, at, at[x]) > 0
      PROVE  /\ Bucket(at[x], win) \in DOMAIN chart
             /\ (100 * SumAt(num, at, at[x])) \div SumAt(den, at, at[x]) <= chart[Bucket(at[x], win)]
  <2>1. PICK t \in times : t = at[x]
    OBVIOUS
  <2>2. p[t] # None /\ p[t] = (100 * SumAt(num, at, t)) \div SumAt(den, at, t)
    BY <1>3, <1>8, <2>1
  <2>3. Bucket(t, win) \in DOMAIN chart
    BY <1>1, <2>2 DEF Trend, Measured
  <2>4. p[t] <= chart[Bucket(t, win)]
    BY <1>1, <1>4, <1>5, <2>2, <2>3, TrendMax
  <2> QED
    BY <2>1, <2>2, <2>3, <2>4
<1>9. \A x \in R : SumAt(num, at, at[x]) \in Int /\ SumAt(den, at, at[x]) \in Int
  BY <1>2
<1> QED
  BY <1>7, <1>8, <1>9

\* The worst server of a bucket.
LEMMA WorstIs ==
    ASSUME NEW own, \A s \in Servers : \A b \in DOMAIN own[s] : own[s][b] \in Int, NEW b
    PROVE  /\ Worst(own, b) \in Int /\ Worst(own, b) >= -1
           /\ \A s \in Servers : b \in DOMAIN own[s] => own[s][b] <= Worst(own, b)
           /\ Worst(own, b) = -1 \/ \E s \in Servers : b \in DOMAIN own[s] /\ Worst(own, b) = own[s][b]
<1> DEFINE D == {r \in Servers : b \in DOMAIN own[r]}
           h == [s \in D |-> own[s][b]]
           V == {h[s] : s \in D}
           W == {-1} \cup V
<1>1. Worst(own, b) = Max(W)
  <2>1. V = {own[s][b] : s \in D}
    OBVIOUS
  <2> QED
    BY <2>1 DEF Worst
<1>2. IsFiniteSet(D) /\ DOMAIN h = D /\ \A s \in D : h[s] = own[s][b] /\ h[s] \in Int
  BY StoreAssumption, FS_Subset
<1> HIDE DEF h, D
<1>3. IsFiniteSet(V)
  BY <1>2, FiniteImage
<1>4. V \subseteq Int
  BY <1>2
<1> HIDE DEF V
<1>5. IsFiniteSet(W)
  BY <1>3, FS_Singleton, FS_Union
<1>6. W \subseteq Int /\ W # {} /\ -1 \in W
  BY <1>4
<1>7. Max(W) \in W /\ \A y \in W : Max(W) >= y
  <2> HIDE DEF W
  <2> QED
    BY <1>5, <1>6, Extremes
<1>8. Max(W) \in Int /\ Max(W) >= -1
  BY <1>6, <1>7
<1>9. ASSUME NEW s \in Servers, b \in DOMAIN own[s] PROVE own[s][b] <= Max(W)
  <2>1. h[s] \in W /\ h[s] = own[s][b] /\ h[s] \in Int
    BY <1>2, <1>9 DEF D, V
  <2>2. Max(W) >= h[s]
    <3> HIDE DEF W
    <3> QED
      BY <1>7, <2>1
  <2> HIDE DEF W
  <2> QED
    BY <1>8, <2>1, <2>2
<1>10. Max(W) = -1 \/ \E s \in Servers : b \in DOMAIN own[s] /\ Max(W) = own[s][b]
  <2>1. Max(W) = -1 \/ Max(W) \in V
    BY <1>7
  <2>2. ASSUME Max(W) \in V PROVE \E s \in Servers : b \in DOMAIN own[s] /\ Max(W) = own[s][b]
    <3>1. PICK s \in D : Max(W) = h[s]
      BY <2>2 DEF V
    <3> QED
      BY <1>2, <3>1 DEF D
  <2> QED
    BY <2>1, <2>2
<1> HIDE DEF W
<1> QED
  BY <1>1, <1>8, <1>9, <1>10

\* A part of a function.
Cut(f, Q) == [x \in Q |-> f[x]]

\* A fleet's ratio is at most that of its worst server, where a server has one row
\* for an instant and no numerator without a denominator.
LEMMA FleetRatio ==
    ASSUME NEW R, IsFiniteSet(R), NEW num \in [R -> Int], NEW den \in [R -> Int], NEW at, DOMAIN at = R,
           \A x \in R : den[x] >= 0 /\ (den[x] = 0 => num[x] <= 0) /\ x[1] \in Servers,
           NEW Q, \A s \in Servers : Q[s] \subseteq R /\ \A x, y \in Q[s] : at[x] = at[y] => x = y,
           \A x \in R : den[x] > 0 => x \in Q[x[1]],
           NEW all, all = RatioTrend(num, den, at, Win, "max"),
           NEW own, \A s \in Servers :
                       own[s] = RatioTrend(Cut(num, Q[s]), Cut(den, Q[s]), Cut(at, Q[s]), Win, "max")
    PROVE  Within(all, own)
<1>1. PICK win : win = Win
  OBVIOUS
<1>2. ASSUME NEW s \in Servers
      PROVE  /\ \A b \in DOMAIN own[s] : own[s][b] \in Int
             /\ \A x \in Q[s] : den[x] > 0 =>
                   /\ Bucket(at[x], win) \in DOMAIN own[s]
                   /\ (100 * num[x]) \div den[x] <= own[s][Bucket(at[x], win)]
  <2>1. PICK q : q = Q[s]
    OBVIOUS
  <2>2. q \in SUBSET R /\ IsFiniteSet(q) /\ \A x, y \in q : at[x] = at[y] => x = y
    BY <2>1, FS_Subset
  <2>3. PICK n, d, a : n = Cut(num, q) /\ d = Cut(den, q) /\ a = Cut(at, q)
    OBVIOUS
  <2>4. /\ n \in [q -> Int] /\ d \in [q -> Int] /\ DOMAIN a = q
        /\ \A x \in q : n[x] = num[x] /\ d[x] = den[x] /\ a[x] = at[x] /\ d[x] >= 0
    <3>1. n \in [q -> Int] /\ d \in [q -> Int] /\ \A x \in q : n[x] = num[x] /\ d[x] = den[x]
      <4>1. Cut(num, q) \in [q -> Int] /\ \A x \in q : Cut(num, q)[x] = num[x]
        BY <2>2 DEF Cut
      <4>2. Cut(den, q) \in [q -> Int] /\ \A x \in q : Cut(den, q)[x] = den[x]
        BY <2>2 DEF Cut
      <4> QED
        BY <2>3, <4>1, <4>2
    <3>2. DOMAIN a = q /\ \A x \in q : a[x] = at[x]
      BY <2>3 DEF Cut
    <3> QED
      BY <2>2, <3>1, <3>2
  <2>5. PICK chart : chart = own[s]
    OBVIOUS
  <2>6. chart = RatioTrend(n, d, a, win, "max")
    BY <1>1, <2>1, <2>3, <2>5
  <2>7. /\ \A b \in DOMAIN chart : chart[b] \in Int
        /\ \A x \in q : SumAt(d, a, a[x]) > 0 =>
              /\ Bucket(a[x], win) \in DOMAIN chart
              /\ (100 * SumAt(n, a, a[x])) \div SumAt(d, a, a[x]) <= chart[Bucket(a[x], win)]
    BY <2>2, <2>4, <2>6, RatioMax
  <2>8. ASSUME NEW x \in q PROVE SumAt(n, a, a[x]) = num[x] /\ SumAt(d, a, a[x]) = den[x]
    <3>1. {y \in DOMAIN a : a[y] = a[x]} = {x}
      BY <2>2, <2>4
    <3>2. PICK f, g : f = [y \in {x} |-> n[y]] /\ g = [y \in {x} |-> d[y]]
      OBVIOUS
    <3>3. f \in [{x} -> Int] /\ g \in [{x} -> Int] /\ f[x] = num[x] /\ g[x] = den[x]
      BY <2>4, <3>2
    <3>4. Total(f) = num[x] /\ Total(g) = den[x]
      BY <3>3, SumOfOne
    <3> QED
      BY <3>1, <3>2, <3>4 DEF SumAt
  <2>9. \A x \in q : den[x] > 0 =>
           /\ Bucket(at[x], win) \in DOMAIN chart
           /\ (100 * num[x]) \div den[x] <= chart[Bucket(at[x], win)]
    BY <2>4, <2>7, <2>8
  <2> QED
    BY <2>1, <2>5, <2>7, <2>9
<1>3. ASSUME NEW b \in DOMAIN all PROVE all[b] <= Worst(own, b)
  <2>1. PICK x \in R : /\ Bucket(at[x], win) = b /\ SumAt(den, at, at[x]) > 0
                       /\ all[b] = (100 * SumAt(num, at, at[x])) \div SumAt(den, at, at[x])
                       /\ SumAt(num, at, at[x]) \in Int /\ SumAt(den, at, at[x]) \in Int /\ all[b] \in Int
    BY <1>1, RatioMax
  <2>2. PICK A : A = {y \in R : at[y] = at[x]}
    OBVIOUS
  <2>3. A \subseteq R /\ IsFiniteSet(A)
    BY <2>2, FS_Subset
  <2>4. PICK f, g : f = [y \in A |-> num[y]] /\ g = [y \in A |-> den[y]]
    OBVIOUS
  <2>5. /\ f \in [A -> Int] /\ g \in [A -> Int]
        /\ \A y \in A : f[y] = num[y] /\ g[y] = den[y] /\ g[y] >= 0 /\ (g[y] = 0 => f[y] <= 0)
    BY <2>3, <2>4
  <2>6. PICK sf \in Int, sg \in Int : /\ sf = Total(f) /\ sg = Total(g) /\ sg > 0
                                      /\ all[b] = (100 * sf) \div sg
    <3>1. SumAt(num, at, at[x]) = Total(f) /\ SumAt(den, at, at[x]) = Total(g)
      BY <2>2, <2>4 DEF SumAt
    <3> QED
      BY <2>1, <3>1
  <2>7. PICK y \in A : g[y] > 0 /\ (100 * sf) \div sg <= (100 * f[y]) \div g[y]
    BY <2>3, <2>5, <2>6, Mediant
  <2>8. /\ y \in R /\ at[y] = at[x] /\ den[y] > 0 /\ y[1] \in Servers /\ y \in Q[y[1]]
        /\ all[b] <= (100 * num[y]) \div den[y]
    BY <2>2, <2>5, <2>6, <2>7
  <2>9. PICK s \in Servers : s = y[1]
    BY <2>8
  <2>10. b \in DOMAIN own[s] /\ (100 * num[y]) \div den[y] <= own[s][b]
    BY <1>2, <2>1, <2>8, <2>9
  <2>11. own[s][b] <= Worst(own, b) /\ Worst(own, b) \in Int /\ own[s][b] \in Int
    BY <1>2, <2>10, WorstIs
  <2>12. (100 * num[y]) \div den[y] \in Int
    <3>1. PICK n \in Int, d \in Int : n = num[y] /\ d = den[y] /\ d > 0
      BY <2>8
    <3>2. (100 * n) \div d \in Int
      BY <3>1, SMT
    <3> QED
      BY <3>1, <3>2
  <2> QED
    BY <2>1, <2>8, <2>10, <2>11, <2>12
<1> QED
  BY <1>3 DEF Within

\* The steps, and the instants, of each server.
StepsOf(T, S) == UNION {{<<s, st[1], st[2]>> : st \in Steps(T[s], Win)} : s \in S}
PairsOf(T, S) == UNION {{<<s, t>> : t \in T[s]} : s \in S}

(* The steps of a fleet belong to one server each. *)
LEMMA OwnSteps ==
    ASSUME TypeOK, NEW T, \A s \in Servers : T[s] \subseteq Times(db, s)
    PROVE  /\ IsFiniteSet(StepsOf(T, Servers))
           /\ \A x \in StepsOf(T, Servers) :
                 /\ x[1] \in Servers /\ x \in StepsOf(T, {x[1]})
                 /\ x[2] \in T[x[1]] /\ x[3] \in T[x[1]] /\ x[2] < x[3]
           /\ \A s \in Servers : /\ StepsOf(T, {s}) \subseteq StepsOf(T, Servers)
                                 /\ \A x, y \in StepsOf(T, {s}) : x[3] = y[3] => x = y
<1>1. ASSUME NEW s \in Servers, NEW st \in Steps(T[s], Win)
      PROVE  /\ st[1] \in T[s] /\ st[2] \in T[s] /\ st[1] < st[2] /\ st[1] \in Nat /\ st[2] \in Nat
             /\ st[1] \in WithLead(T[s], Win) /\ \A v \in WithLead(T[s], Win) : v <= st[1] \/ v >= st[2]
  BY TimesType DEF Steps, WithLead, InWindow
<1>2. ASSUME NEW x \in StepsOf(T, Servers)
      PROVE  /\ x[1] \in Servers /\ x \in StepsOf(T, {x[1]})
             /\ x[2] \in T[x[1]] /\ x[3] \in T[x[1]] /\ x[2] < x[3]
  <2>1. PICK s \in Servers : x \in {<<s, st[1], st[2]>> : st \in Steps(T[s], Win)}
    BY DEF StepsOf
  <2>2. PICK st \in Steps(T[s], Win) : x = <<s, st[1], st[2]>>
    BY <2>1
  <2>3. x[1] = s /\ x[2] = st[1] /\ x[3] = st[2]
    BY <2>2
  <2>4. x \in StepsOf(T, {s})
    BY <2>1 DEF StepsOf
  <2> QED
    BY <1>1, <2>3, <2>4
<1>3. ASSUME NEW s \in Servers PROVE StepsOf(T, {s}) \subseteq StepsOf(T, Servers)
  BY DEF StepsOf
<1>4. ASSUME NEW s \in Servers, NEW x \in StepsOf(T, {s}), NEW y \in StepsOf(T, {s}), x[3] = y[3]
      PROVE  x = y
  <2>1. PICK st \in Steps(T[s], Win) : x = <<s, st[1], st[2]>>
    BY DEF StepsOf
  <2>2. PICK z \in Steps(T[s], Win) : y = <<s, z[1], z[2]>>
    BY DEF StepsOf
  <2>3. st[2] = z[2]
    BY <1>4, <2>1, <2>2
  <2>4. st[1] <= z[1] /\ z[1] <= st[1] /\ st[1] \in Nat /\ z[1] \in Nat
    BY <1>1, <2>3
  <2>5. st[1] = z[1]
    BY <2>4
  <2> QED
    BY <2>1, <2>2, <2>3, <2>5
<1>5. IsFiniteSet(StepsOf(T, Servers))
  <2> DEFINE Of(s) == {<<s, st[1], st[2]>> : st \in Steps(T[s], Win)}
             g == [s \in Servers |-> Of(s)]
  <2>1. ASSUME NEW s \in Servers PROVE IsFiniteSet(Of(s))
    <3> DEFINE D == Steps(T[s], Win)
               h == [st \in D |-> <<s, st[1], st[2]>>]
    <3>1. IsFiniteSet(D)
      <4>1. IsFiniteSet(T[s])
        BY TimesType, FS_Subset
      <4> QED
        BY <4>1, StepsFinite
    <3>2. DOMAIN h = D /\ Of(s) = {h[st] : st \in D}
      OBVIOUS
    <3> HIDE DEF h, D
    <3>3. IsFiniteSet({h[st] : st \in D})
      BY <3>1, <3>2, FiniteImage
    <3> HIDE DEF Of
    <3> QED
      BY <3>2, <3>3
  <2>2. DOMAIN g = Servers /\ {g[s] : s \in Servers} = {Of(s) : s \in Servers}
    OBVIOUS
  <2>3. IsFiniteSet({g[s] : s \in Servers})
    <3> HIDE DEF g
    <3> QED
      BY <2>2, StoreAssumption, FiniteImage
  <2>4. StepsOf(T, Servers) = UNION {Of(s) : s \in Servers}
    BY DEF StepsOf
  <2> HIDE DEF Of
  <2>5. \A X \in {Of(s) : s \in Servers} : IsFiniteSet(X)
    BY <2>1
  <2> QED
    BY <2>2, <2>3, <2>4, <2>5, FS_UNION
<1> QED
  BY <1>2, <1>3, <1>4, <1>5

(* The samples of a fleet belong to one server each. *)
LEMMA OwnPairs ==
    ASSUME TypeOK, NEW T, \A s \in Servers : T[s] \subseteq Times(db, s)
    PROVE  /\ IsFiniteSet(PairsOf(T, Servers))
           /\ \A x \in PairsOf(T, Servers) :
                 x = <<x[1], x[2]>> /\ x[1] \in Servers /\ x \in PairsOf(T, {x[1]}) /\ x[2] \in T[x[1]]
           /\ \A s \in Servers : /\ PairsOf(T, {s}) \subseteq PairsOf(T, Servers)
                                 /\ \A x, y \in PairsOf(T, {s}) : x[2] = y[2] => x = y
<1>2. ASSUME NEW x \in PairsOf(T, Servers)
      PROVE  x = <<x[1], x[2]>> /\ x[1] \in Servers /\ x \in PairsOf(T, {x[1]}) /\ x[2] \in T[x[1]]
  <2>1. PICK s \in Servers : x \in {<<s, t>> : t \in T[s]}
    BY DEF PairsOf
  <2>2. PICK t \in T[s] : x = <<s, t>>
    BY <2>1
  <2>3. x \in PairsOf(T, {s})
    BY <2>1 DEF PairsOf
  <2> QED
    BY <2>2, <2>3
<1>3. ASSUME NEW s \in Servers PROVE PairsOf(T, {s}) \subseteq PairsOf(T, Servers)
  BY DEF PairsOf
<1>4. ASSUME NEW s \in Servers, NEW x \in PairsOf(T, {s}), NEW y \in PairsOf(T, {s}), x[2] = y[2]
      PROVE  x = y
  <2>1. PICK t \in T[s] : x = <<s, t>>
    BY DEF PairsOf
  <2>2. PICK z \in T[s] : y = <<s, z>>
    BY DEF PairsOf
  <2> QED
    BY <1>4, <2>1, <2>2
<1>5. IsFiniteSet(PairsOf(T, Servers))
  <2> DEFINE Of(s) == {<<s, t>> : t \in T[s]}
             g == [s \in Servers |-> Of(s)]
  <2>1. ASSUME NEW s \in Servers PROVE IsFiniteSet(Of(s))
    <3> DEFINE D == T[s]
               h == [t \in D |-> <<s, t>>]
    <3>1. IsFiniteSet(D)
      BY TimesType, FS_Subset
    <3>2. DOMAIN h = D /\ Of(s) = {h[t] : t \in D}
      OBVIOUS
    <3> HIDE DEF h, D
    <3>3. IsFiniteSet({h[t] : t \in D})
      BY <3>1, <3>2, FiniteImage
    <3> HIDE DEF Of
    <3> QED
      BY <3>2, <3>3
  <2>2. DOMAIN g = Servers /\ {g[s] : s \in Servers} = {Of(s) : s \in Servers}
    OBVIOUS
  <2>3. IsFiniteSet({g[s] : s \in Servers})
    <3> HIDE DEF g
    <3> QED
      BY <2>2, StoreAssumption, FiniteImage
  <2>4. PairsOf(T, Servers) = UNION {Of(s) : s \in Servers}
    BY DEF PairsOf
  <2> HIDE DEF Of
  <2>5. \A X \in {Of(s) : s \in Servers} : IsFiniteSet(X)
    BY <2>1
  <2> QED
    BY <2>2, <2>3, <2>4, <2>5, FS_UNION
<1> QED
  BY <1>2, <1>3, <1>4, <1>5

\* The CPU share of the fleet.
LEMMA CpuWithin ==
    ASSUME TypeOK
    PROVE  Within(_trend_cpu_utilization(db, Servers, "usage", Win, "max"),
                  [s \in Servers |-> _trend_cpu_utilization(db, {s}, "usage", Win, "max")])
<1> DEFINE T == [s \in Servers |-> Times(db, s)]
           Rows(S) == CpuSteps(db, S, "usage", Win)
           R == Rows(Servers)
           num == [x \in R |-> CpuRise(db, "usage", x)]
           den == [x \in R |-> CpuTotalRise(db, x)]
           at == [x \in R |-> x[3]]
           Q == [s \in Servers |-> Rows({s})]
           all == _trend_cpu_utilization(db, Servers, "usage", Win, "max")
           own == [s \in Servers |-> _trend_cpu_utilization(db, {s}, "usage", Win, "max")]
<1>1. /\ HostSteps(db, Servers, Win) = StepsOf(T, Servers)
      /\ \A s \in Servers : HostSteps(db, {s}, Win) = StepsOf(T, {s})
  BY DEF HostSteps, StepsOf
<1>2. \A s \in Servers : T[s] = Times(db, s)
  OBVIOUS
<1> HIDE DEF T
<1>3. /\ IsFiniteSet(StepsOf(T, Servers))
      /\ \A x \in StepsOf(T, Servers) :
            /\ x[1] \in Servers /\ x \in StepsOf(T, {x[1]})
            /\ x[2] \in T[x[1]] /\ x[3] \in T[x[1]] /\ x[2] < x[3]
      /\ \A s \in Servers : /\ StepsOf(T, {s}) \subseteq StepsOf(T, Servers)
                            /\ \A x, y \in StepsOf(T, {s}) : x[3] = y[3] => x = y
  BY <1>2, OwnSteps
<1>4. R \subseteq StepsOf(T, Servers) /\ IsFiniteSet(R)
  <2>1. R \subseteq StepsOf(T, Servers)
    BY <1>1 DEF CpuSteps
  <2> QED
    BY <1>3, <2>1, FS_Subset
<1>5. ASSUME NEW x \in R
      PROVE  /\ x[1] \in Servers /\ x \in Rows({x[1]})
             /\ CpuRise(db, "usage", x) \in Int /\ CpuTotalRise(db, x) \in Int /\ CpuTotalRise(db, x) > 0
  <2>1. x[1] \in Servers /\ x \in Rows({x[1]})
    BY <1>1, <1>3, <1>4 DEF CpuSteps
  <2>2. x[2] \in Times(db, x[1]) /\ x[3] \in Times(db, x[1])
    <3>1. x \in StepsOf(T, Servers)
      BY <1>4
    <3>2. x[2] \in T[x[1]] /\ x[3] \in T[x[1]] /\ T[x[1]] = Times(db, x[1])
      BY <1>2, <1>3, <2>1, <3>1
    <3> QED
      BY <3>2
  <2>3. PICK a \in Samples, b \in Samples : a = Row(db, x[1], x[2]) /\ b = Row(db, x[1], x[3])
    BY <2>1, <2>2, StoredRows
  <2>4. OrNull(a.iowait) \in Nat /\ OrNull(b.iowait) \in Nat
    BY DEF Samples, Gauge, OrNull
  <2>5. a.user \in Nat /\ b.user \in Nat /\ a.idle \in Nat /\ b.idle \in Nat
    BY DEF Samples
  <2>6. CpuTotalRise(db, x) \in Int
    BY <2>3, <2>4, <2>5 DEF CpuTotalRise, CpuTotal
  <2>7. CpuTotalRise(db, x) > 0 /\ CpuRise(db, "usage", x) # None
    BY DEF CpuSteps
  <2>8. CpuRise(db, "usage", x) = (b.user + OrNull(b.iowait)) - (a.user + OrNull(a.iowait))
    BY <2>3, <2>7 DEF CpuRise, CpuNumerator
  <2> QED
    BY <2>1, <2>4, <2>5, <2>6, <2>7, <2>8
<1>6. ASSUME NEW s \in Servers PROVE Rows({s}) \subseteq R /\ \A x, y \in Rows({s}) : x[3] = y[3] => x = y
  <2>1. HostSteps(db, {s}, Win) \subseteq HostSteps(db, Servers, Win)
    <3>1. StepsOf(T, {s}) \subseteq StepsOf(T, Servers)
      BY <1>3
    <3>2. HostSteps(db, {s}, Win) = StepsOf(T, {s})
      BY <1>1
    <3>3. HostSteps(db, Servers, Win) = StepsOf(T, Servers)
      BY <1>1
    <3> QED
      BY <3>1, <3>2, <3>3
  <2>2. Rows({s}) \subseteq R
    BY <2>1 DEF CpuSteps
  <2>3. Rows({s}) \subseteq StepsOf(T, {s})
    BY <1>1 DEF CpuSteps
  <2> HIDE DEF Rows
  <2> QED
    BY <1>3, <2>2, <2>3
<1>7. all = RatioTrend(num, den, at, Win, "max")
  BY DEF _trend_cpu_utilization
<1>8. ASSUME NEW s \in Servers
      PROVE  own[s] = RatioTrend(Cut(num, Q[s]), Cut(den, Q[s]), Cut(at, Q[s]), Win, "max")
  <2>1. /\ Cut(num, Q[s]) = [x \in Rows({s}) |-> CpuRise(db, "usage", x)]
        /\ Cut(den, Q[s]) = [x \in Rows({s}) |-> CpuTotalRise(db, x)]
        /\ Cut(at, Q[s]) = [x \in Rows({s}) |-> x[3]]
    <3> HIDE DEF Rows
    <3> QED
      BY <1>6 DEF Cut
  <2>2. own[s] = _trend_cpu_utilization(db, {s}, "usage", Win, "max")
    OBVIOUS
  <2> QED
    BY <2>1, <2>2 DEF _trend_cpu_utilization
<1> HIDE DEF Rows, all, own
<1>9. /\ num \in [R -> Int] /\ den \in [R -> Int] /\ DOMAIN at = R
      /\ \A x \in R : den[x] >= 0 /\ (den[x] = 0 => num[x] <= 0) /\ x[1] \in Servers
      /\ \A x \in R : den[x] > 0 => x \in Q[x[1]]
  <2> HIDE DEF R
  <2>1. num \in [R -> Int] /\ den \in [R -> Int] /\ DOMAIN at = R
    BY <1>5
  <2>2. \A x \in R : den[x] = CpuTotalRise(db, x)
    OBVIOUS
  <2>3. \A x \in R : den[x] \in Int /\ den[x] > 0 /\ x[1] \in Servers /\ x \in Q[x[1]]
    BY <1>5, <2>2
  <2> HIDE DEF num, den, at, Q
  <2>4. \A x \in R : den[x] >= 0 /\ den[x] # 0
    BY <2>3
  <2> QED
    BY <2>1, <2>3, <2>4
<1>10. \A s \in Servers : Q[s] \subseteq R /\ \A x, y \in Q[s] : at[x] = at[y] => x = y
  BY <1>6
<1> HIDE DEF num, den, at, Q, R
<1>11. Within(all, own)
  BY <1>4, <1>7, <1>8, <1>9, <1>10, FleetRatio
<1> QED
  BY <1>11 DEF all, own

\* The stall time of the fleet.
LEMMA PsiWithin ==
    ASSUME TypeOK
    PROVE  Within(_trend_psi(db, Servers, Win, "max"), [s \in Servers |-> _trend_psi(db, {s}, Win, "max")])
<1> DEFINE T == [s \in Servers |-> {t \in Times(db, s) : Row(db, s, t).stall # None}]
           R == StepsOf(T, Servers)
           N(x) == Rise(Row(db, x[1], x[2]).stall, Row(db, x[1], x[3]).stall)
           D(x) == 1000 * Interval * (x[3] - x[2])
           num == [x \in R |-> N(x)]
           den == [x \in R |-> D(x)]
           at == [x \in R |-> x[3]]
           Q == [s \in Servers |-> StepsOf(T, {s})]
           all == _trend_psi(db, Servers, Win, "max")
           own == [s \in Servers |-> _trend_psi(db, {s}, Win, "max")]
<1>1. ASSUME NEW S \in SUBSET Servers
      PROVE  _trend_psi(db, S, Win, "max") =
                RatioTrend([x \in StepsOf(T, S) |-> N(x)], [x \in StepsOf(T, S) |-> D(x)],
                           [x \in StepsOf(T, S) |-> x[3]], Win, "max")
  <2> DEFINE With(s) == {t \in Times(db, s) : Row(db, s, t).stall # None}
             steps == UNION {{<<s, st[1], st[2]>> : st \in Steps(With(s), Win)} : s \in S}
  <2>1. steps = StepsOf(T, S)
    <3>1. \A s \in S : T[s] = With(s)
      OBVIOUS
    <3> HIDE DEF T, With
    <3> QED
      BY <3>1 DEF StepsOf
  <2>2. _trend_psi(db, S, Win, "max") =
           RatioTrend([x \in steps |-> N(x)], [x \in steps |-> D(x)], [x \in steps |-> x[3]], Win, "max")
    BY DEF _trend_psi
  <2> HIDE DEF steps, N, D, T
  <2> QED
    BY <2>1, <2>2
<1>2. \A s \in Servers : T[s] \subseteq Times(db, s) /\ \A t \in T[s] : Row(db, s, t).stall # None
  OBVIOUS
<1> HIDE DEF T
<1>3. /\ IsFiniteSet(R)
      /\ \A x \in R : /\ x[1] \in Servers /\ x \in StepsOf(T, {x[1]})
                      /\ x[2] \in T[x[1]] /\ x[3] \in T[x[1]] /\ x[2] < x[3]
      /\ \A s \in Servers : /\ StepsOf(T, {s}) \subseteq R
                            /\ \A x, y \in StepsOf(T, {s}) : x[3] = y[3] => x = y
  BY <1>2, OwnSteps
<1> HIDE DEF R
<1>4. ASSUME NEW x \in R PROVE N(x) \in Int /\ D(x) \in Int /\ D(x) > 0
  <2>1. PICK s \in Servers : s = x[1]
    BY <1>3
  <2>2. PICK u \in T[s], t \in T[s] : u = x[2] /\ t = x[3] /\ u < t
    BY <1>3, <2>1
  <2>3. u \in Times(db, s) /\ t \in Times(db, s) /\ u \in Nat /\ t \in Nat
    BY <1>2, TimesType
  <2>4. PICK a \in Samples, b \in Samples : a = Row(db, s, u) /\ b = Row(db, s, t)
    BY <2>3, StoredRows
  <2>5. a.stall # None /\ b.stall # None
    BY <1>2, <2>4
  <2>6. a.stall \in Nat /\ b.stall \in Nat
    BY <2>5 DEF Samples, Gauge
  <2>7. N(x) = Rise(a.stall, b.stall)
    BY <2>1, <2>2, <2>4
  <2>8. N(x) \in Int
    <3>1. PICK p \in Nat, c \in Nat : p = a.stall /\ c = b.stall
      BY <2>6
    <3>2. Rise(p, c) \in Nat
      BY RiseIs
    <3> HIDE DEF N
    <3> QED
      BY <2>7, <3>1, <3>2
  <2>9. D(x) = 1000 * Interval * (t - u)
    BY <2>2
  <2>10. 1000 * Interval * (t - u) \in Int /\ 1000 * Interval * (t - u) > 0
    <3>1. PICK n \in Nat, i \in Nat : n = t - u /\ n > 0 /\ i = 1000 * Interval /\ i > 0
      BY <2>2, <2>3, IntervalAssumption
    <3>2. i * n \in Int /\ i * n > 0
      BY <3>1, SMT
    <3> QED
      BY <3>1, <3>2
  <2> QED
    BY <2>8, <2>9, <2>10
<1>5. all = RatioTrend(num, den, at, Win, "max")
  BY <1>1 DEF R
<1>6. ASSUME NEW s \in Servers
      PROVE  own[s] = RatioTrend(Cut(num, Q[s]), Cut(den, Q[s]), Cut(at, Q[s]), Win, "max")
  <2>1. /\ Cut(num, Q[s]) = [x \in StepsOf(T, {s}) |-> N(x)]
        /\ Cut(den, Q[s]) = [x \in StepsOf(T, {s}) |-> D(x)]
        /\ Cut(at, Q[s]) = [x \in StepsOf(T, {s}) |-> x[3]]
    <3> HIDE DEF N, D
    <3> QED
      BY <1>3 DEF Cut
  <2>2. own[s] = _trend_psi(db, {s}, Win, "max") /\ {s} \in SUBSET Servers
    OBVIOUS
  <2> HIDE DEF N, D, num, den, at, Q, own
  <2> QED
    BY <1>1, <2>1, <2>2
<1> HIDE DEF all, own, N, D
<1>7. num \in [R -> Int] /\ den \in [R -> Int] /\ DOMAIN at = R
  BY <1>4
<1>8. \A x \in R : den[x] \in Int /\ den[x] > 0 /\ x[1] \in Servers /\ x \in Q[x[1]]
  BY <1>3, <1>4
<1>9. \A s \in Servers : Q[s] \subseteq R /\ \A x, y \in Q[s] : at[x] = at[y] => x = y
  BY <1>3
<1> HIDE DEF num, den, at, Q
<1>10. \A x \in R : den[x] >= 0 /\ den[x] # 0
  BY <1>8
<1>11. Within(all, own)
  BY <1>3, <1>5, <1>6, <1>7, <1>8, <1>9, <1>10, FleetRatio
<1> QED
  BY <1>11 DEF all, own

\* The memory of the fleet.
LEMMA MemWithin ==
    ASSUME TypeOK
    PROVE  Within(_trend_env_scalar_weighted(db, Servers, Win, "max"),
                  [s \in Servers |-> _trend_env_scalar_weighted(db, {s}, Win, "max")])
<1> DEFINE Has(s, u) == LET m == Row(db, s, u).mem IN Above(m.limit, 0) /\ m.available # None
           T == [s \in Servers |-> {u \in InWindow(Times(db, s), Win) : Has(s, u)}]
           R == PairsOf(T, Servers)
           Mem(x) == Row(db, x[1], x[2]).mem
           N(x) == Mem(x).limit - Mem(x).available
           D(x) == Mem(x).limit
           num == [x \in R |-> N(x)]
           den == [x \in R |-> D(x)]
           at == [x \in R |-> x[2]]
           Q == [s \in Servers |-> PairsOf(T, {s})]
           all == _trend_env_scalar_weighted(db, Servers, Win, "max")
           own == [s \in Servers |-> _trend_env_scalar_weighted(db, {s}, Win, "max")]
<1>1. ASSUME NEW S \in SUBSET Servers
      PROVE  _trend_env_scalar_weighted(db, S, Win, "max") =
                RatioTrend([x \in PairsOf(T, S) |-> N(x)], [x \in PairsOf(T, S) |-> D(x)],
                           [x \in PairsOf(T, S) |-> x[2]], Win, "max")
  <2> DEFINE With(s) == {u \in InWindow(Times(db, s), Win) : Has(s, u)}
             rows == UNION {{<<s, t>> : t \in With(s)} : s \in S}
  <2>1. rows = PairsOf(T, S)
    <3>1. \A s \in S : T[s] = With(s)
      OBVIOUS
    <3> HIDE DEF T, With
    <3> QED
      BY <3>1 DEF PairsOf
  <2>2. _trend_env_scalar_weighted(db, S, Win, "max") =
           RatioTrend([x \in rows |-> N(x)], [x \in rows |-> D(x)], [x \in rows |-> x[2]], Win, "max")
    BY DEF _trend_env_scalar_weighted
  <2> HIDE DEF rows, N, D, T
  <2> QED
    BY <2>1, <2>2
<1>2. \A s \in Servers : T[s] \subseteq Times(db, s) /\ \A t \in T[s] : Has(s, t)
  BY DEF InWindow
<1> HIDE DEF T
<1>3. /\ IsFiniteSet(R)
      /\ \A x \in R : x = <<x[1], x[2]>> /\ x[1] \in Servers /\ x \in PairsOf(T, {x[1]}) /\ x[2] \in T[x[1]]
      /\ \A s \in Servers : /\ PairsOf(T, {s}) \subseteq R
                            /\ \A x, y \in PairsOf(T, {s}) : x[2] = y[2] => x = y
  BY <1>2, OwnPairs
<1> HIDE DEF R
<1>4. ASSUME NEW x \in R PROVE N(x) \in Int /\ D(x) \in Int /\ D(x) > 0
  <2>1. PICK s \in Servers : s = x[1]
    BY <1>3
  <2>2. PICK t \in T[s] : t = x[2]
    BY <1>3, <2>1
  <2>3. PICK a \in Samples : a = Row(db, s, t)
    BY <1>2, StoredRows
  <2>4. Above(a.mem.limit, 0) /\ a.mem.available # None
    BY <1>2, <2>2, <2>3
  <2>5. a.mem.limit \in Gauge /\ a.mem.available \in Gauge
    BY DEF Samples
  <2>6. a.mem.limit \in Nat /\ a.mem.limit > 0 /\ a.mem.available \in Nat
    BY <2>4, <2>5 DEF Above, Gauge
  <2>7. Mem(x) = a.mem
    BY <2>1, <2>2, <2>3
  <2> HIDE DEF Mem
  <2> QED
    BY <2>6, <2>7
<1>5. all = RatioTrend(num, den, at, Win, "max")
  BY <1>1 DEF R
<1>6. ASSUME NEW s \in Servers
      PROVE  own[s] = RatioTrend(Cut(num, Q[s]), Cut(den, Q[s]), Cut(at, Q[s]), Win, "max")
  <2>1. /\ Cut(num, Q[s]) = [x \in PairsOf(T, {s}) |-> N(x)]
        /\ Cut(den, Q[s]) = [x \in PairsOf(T, {s}) |-> D(x)]
        /\ Cut(at, Q[s]) = [x \in PairsOf(T, {s}) |-> x[2]]
    <3> HIDE DEF N, D
    <3> QED
      BY <1>3 DEF Cut
  <2>2. own[s] = _trend_env_scalar_weighted(db, {s}, Win, "max") /\ {s} \in SUBSET Servers
    OBVIOUS
  <2> QED
    BY <1>1, <2>1, <2>2
<1> HIDE DEF all, own, N, D
<1>7. num \in [R -> Int] /\ den \in [R -> Int] /\ DOMAIN at = R
  BY <1>4
<1>8. \A x \in R : den[x] \in Int /\ den[x] > 0 /\ x[1] \in Servers /\ x \in Q[x[1]]
  BY <1>3, <1>4
<1>9. \A s \in Servers : Q[s] \subseteq R /\ \A x, y \in Q[s] : at[x] = at[y] => x = y
  BY <1>3
<1> HIDE DEF num, den, at, Q
<1>10. \A x \in R : den[x] >= 0 /\ den[x] # 0
  BY <1>8
<1>11. Within(all, own)
  BY <1>3, <1>5, <1>6, <1>7, <1>8, <1>9, <1>10, FleetRatio
<1> QED
  BY <1>11 DEF all, own

\* The run queue of the servers with one operating system.
LEMMA QueueWithin ==
    ASSUME TypeOK, NEW os
    PROVE  Within(_trend_cpu_run_queue(db, Servers, os, Win, "max"),
                  [s \in Servers |-> _trend_cpu_run_queue(db, {s}, os, Win, "max")])
<1> DEFINE Has(s, u) == Row(db, s, u).queue # None /\ Above(db[s].cores, 0) /\ db[s].os = os
           T == [s \in Servers |-> {u \in InWindow(Times(db, s), Win) : Has(s, u)}]
           R == PairsOf(T, Servers)
           N(x) == Row(db, x[1], x[2]).queue
           D(x) == db[x[1]].cores
           num == [x \in R |-> N(x)]
           den == [x \in R |-> D(x)]
           at == [x \in R |-> x[2]]
           Q == [s \in Servers |-> PairsOf(T, {s})]
           all == _trend_cpu_run_queue(db, Servers, os, Win, "max")
           own == [s \in Servers |-> _trend_cpu_run_queue(db, {s}, os, Win, "max")]
<1>1. ASSUME NEW S \in SUBSET Servers
      PROVE  _trend_cpu_run_queue(db, S, os, Win, "max") =
                RatioTrend([x \in PairsOf(T, S) |-> N(x)], [x \in PairsOf(T, S) |-> D(x)],
                           [x \in PairsOf(T, S) |-> x[2]], Win, "max")
  <2> DEFINE With(s) == {u \in InWindow(Times(db, s), Win) : Row(db, s, u).queue # None /\ Above(db[s].cores, 0)}
             known == UNION {{<<s, t>> : t \in With(s)} : s \in S}
             rows == {x \in DOMAIN CpuFlags(db, S, Win) : db[x[1]].os = os}
  <2>1. DOMAIN CpuFlags(db, S, Win) = known
    BY DEF CpuFlags
  <2>2. \A s \in S : T[s] = {t \in With(s) : db[s].os = os}
    OBVIOUS
  <2> HIDE DEF T, With, N, D
  <2>3. rows = PairsOf(T, S)
    <3>1. ASSUME NEW x \in rows PROVE x \in PairsOf(T, S)
      <4>1. PICK s \in S : x \in {<<s, t>> : t \in With(s)}
        BY <2>1
      <4>2. PICK t \in With(s) : x = <<s, t>>
        BY <4>1
      <4>3. t \in T[s]
        BY <2>2, <4>2
      <4>4. x \in {<<s, u>> : u \in T[s]}
        BY <4>2, <4>3
      <4> QED
        BY <4>4 DEF PairsOf
    <3>2. ASSUME NEW x \in PairsOf(T, S) PROVE x \in rows
      <4>1. PICK s \in S : x \in {<<s, t>> : t \in T[s]}
        BY DEF PairsOf
      <4>2. PICK t \in T[s] : x = <<s, t>>
        BY <4>1
      <4>3. t \in With(s) /\ db[s].os = os
        BY <2>2
      <4>4. x \in {<<s, u>> : u \in With(s)} /\ x[1] = s
        BY <4>2, <4>3
      <4>5. x \in known
        BY <4>4
      <4> QED
        BY <2>1, <4>3, <4>4, <4>5
    <3> QED
      BY <3>1, <3>2
  <2>4. _trend_cpu_run_queue(db, S, os, Win, "max") =
           RatioTrend([x \in rows |-> N(x)], [x \in rows |-> D(x)], [x \in rows |-> x[2]], Win, "max")
    BY DEF _trend_cpu_run_queue, N, D
  <2> HIDE DEF rows
  <2> QED
    BY <2>3, <2>4
<1>2. \A s \in Servers : T[s] \subseteq Times(db, s) /\ \A t \in T[s] : Has(s, t)
  BY DEF InWindow
<1> HIDE DEF T
<1>3. /\ IsFiniteSet(R)
      /\ \A x \in R : x = <<x[1], x[2]>> /\ x[1] \in Servers /\ x \in PairsOf(T, {x[1]}) /\ x[2] \in T[x[1]]
      /\ \A s \in Servers : /\ PairsOf(T, {s}) \subseteq R
                            /\ \A x, y \in PairsOf(T, {s}) : x[2] = y[2] => x = y
  BY <1>2, OwnPairs
<1> HIDE DEF R
<1>4. ASSUME NEW x \in R PROVE N(x) \in Int /\ D(x) \in Int /\ D(x) > 0
  <2>1. PICK s \in Servers : s = x[1]
    BY <1>3
  <2>2. PICK t \in T[s] : t = x[2]
    BY <1>3, <2>1
  <2>3. PICK a \in Samples : a = Row(db, s, t)
    BY <1>2, StoredRows
  <2>4. a.queue # None /\ Above(db[s].cores, 0)
    BY <1>2, <2>2, <2>3
  <2>5. a.queue \in Gauge /\ db[s].cores \in Gauge
    BY KnownOf DEF Samples
  <2>6. a.queue \in Nat /\ db[s].cores \in Nat /\ db[s].cores > 0
    BY <2>4, <2>5 DEF Above, Gauge
  <2>7. N(x) = a.queue /\ D(x) = db[s].cores
    BY <2>1, <2>2, <2>3
  <2> HIDE DEF N, D
  <2> QED
    BY <2>6, <2>7
<1>5. all = RatioTrend(num, den, at, Win, "max")
  BY <1>1 DEF R
<1>6. ASSUME NEW s \in Servers
      PROVE  own[s] = RatioTrend(Cut(num, Q[s]), Cut(den, Q[s]), Cut(at, Q[s]), Win, "max")
  <2>1. /\ Cut(num, Q[s]) = [x \in PairsOf(T, {s}) |-> N(x)]
        /\ Cut(den, Q[s]) = [x \in PairsOf(T, {s}) |-> D(x)]
        /\ Cut(at, Q[s]) = [x \in PairsOf(T, {s}) |-> x[2]]
    <3> HIDE DEF N, D
    <3> QED
      BY <1>3 DEF Cut
  <2>2. own[s] = _trend_cpu_run_queue(db, {s}, os, Win, "max") /\ {s} \in SUBSET Servers
    OBVIOUS
  <2> QED
    BY <1>1, <2>1, <2>2
<1> HIDE DEF all, own, N, D
<1>7. num \in [R -> Int] /\ den \in [R -> Int] /\ DOMAIN at = R
  BY <1>4
<1>8. \A x \in R : den[x] \in Int /\ den[x] > 0 /\ x[1] \in Servers /\ x \in Q[x[1]]
  BY <1>3, <1>4
<1>9. \A s \in Servers : Q[s] \subseteq R /\ \A x, y \in Q[s] : at[x] = at[y] => x = y
  BY <1>3
<1> HIDE DEF num, den, at, Q
<1>10. \A x \in R : den[x] >= 0 /\ den[x] # 0
  BY <1>8
<1>11. Within(all, own)
  BY <1>3, <1>5, <1>6, <1>7, <1>8, <1>9, <1>10, FleetRatio
<1> QED
  BY <1>11 DEF all, own

\* Without a predecessor nothing rose.
LEMMA NetRiseNat ==
    ASSUME TypeOK, NEW s \in Servers, NEW t \in Times(db, s), NEW F \in SUBSET NetFields
    PROVE  /\ NetRise(db, s, t, Win, F) \in Int /\ NetRise(db, s, t, Win, F) >= 0
           /\ NetRise(db, s, t, Win, F) > 0 => PhysIfaces(db, s, t) # {}
<1> DEFINE V == UNION {UNION {{<<i, z[1], z[2], f>> :
                        z \in {y \in Steps(TimesOf(db, s, "net", i), Win) : y[2] = t}}
                    : i \in PhysIfaces(db, s, t)} : f \in F}
           g == [x \in V |-> Rise(Row(db, s, x[2]).net[x[1]][x[4]], Row(db, s, x[3]).net[x[1]][x[4]])]
<1>1. NetRise(db, s, t, Win, F) = Total(g)
  BY DEF NetRise
<1>2. PhysIfaces(db, s, t) = db[s].ifaces
  BY Reported, KnownOf DEF PhysIfaces
<1>3. \A i \in db[s].ifaces : TimesOf(db, s, "net", i) = Times(db, s)
  BY Reported, KnownOf
<1>4. ASSUME V = {} PROVE NetRise(db, s, t, Win, F) = 0
  <2>1. PICK h : h = g
    OBVIOUS
  <2>2. DOMAIN h = {} /\ h \in [{} -> Int]
    BY <1>4, <2>1
  <2>3. PICK a \in [SUBSET {} -> Int] : a[{}] = 0 /\ a[{}] = Total(h)
    BY <2>2, Sums, FS_EmptySet
  <2> QED
    BY <1>1, <2>1, <2>3
<1>5. CASE \E st \in Steps(Times(db, s), Win) : st[2] = t
  <2>1. PICK st \in Steps(Times(db, s), Win) : st[2] = t
    BY <1>5
  <2>2. PICK a \in Samples, b \in Samples : a = Row(db, s, st[1]) /\ b = Row(db, s, st[2])
    BY StepIs, StoredRows
  <2>3. NetRise(db, s, t, Win, F) = Total(NetRises(s, F, a, b))
    BY <2>1, <2>2, NetRiseIs
  <2>4. PICK U : U = db[s].ifaces \X F
    OBVIOUS
  <2>5. IsFiniteSet(U)
    <3>1. IsFiniteSet(db[s].ifaces) /\ IsFiniteSet(F)
      BY KnownOf, FieldsFinite
    <3> QED
      BY <2>4, <3>1, FS_Product
  <2>6. PICK h : h = NetRises(s, F, a, b)
    OBVIOUS
  <2>7. h \in [U -> Int] /\ \A y \in U : h[y] >= 0
    BY <2>2, <2>4, <2>6, NetRisesType
  <2>8. Total(h) \in Int /\ Total(h) >= 0
    BY <2>5, <2>7, SumType, SumNat
  <2>9. PhysIfaces(db, s, t) = {} => NetRise(db, s, t, Win, F) = 0
    BY <1>4
  <2> QED
    BY <2>3, <2>6, <2>8, <2>9
<1>6. CASE ~\E st \in Steps(Times(db, s), Win) : st[2] = t
  <2>1. \A i \in db[s].ifaces : {y \in Steps(TimesOf(db, s, "net", i), Win) : y[2] = t} = {}
    BY <1>3, <1>6
  <2>2. V = {}
    BY <1>2, <2>1
  <2> QED
    BY <1>4, <2>2
<1> QED
  BY <1>5, <1>6

(* Retransmissions are a number. *)
LEMMA RetransNat ==
    ASSUME TypeOK, NEW s \in Servers, NEW t \in Times(db, s)
    PROVE  RetransRise(db, s, t, Win) \in Int
<1>1. CASE \E st \in Steps(Times(db, s), Win) : st[2] = t
  <2>1. PICK st \in Steps(Times(db, s), Win) : st[2] = t
    BY <1>1
  <2>2. PICK a \in Samples, b \in Samples : a = Row(db, s, st[1]) /\ b = Row(db, s, st[2])
    BY StepIs, StoredRows
  <2>3. PICK p \in Nat, c \in Nat : p = a.retrans /\ c = b.retrans
    BY DEF Samples
  <2>4. Rise(p, c) \in Nat
    BY RiseIs
  <2>5. RetransRise(db, s, t, Win) = Rise(p, c)
    BY <2>1, <2>2, <2>3, RetransIs
  <2> QED
    BY <2>4, <2>5
<1>2. CASE ~\E st \in Steps(Times(db, s), Win) : st[2] = t
  <2>1. {x \in Steps(Times(db, s), Win) : x[2] = t} = {}
    BY <1>2
  <2> QED
    BY <2>1 DEF RetransRise
<1> QED
  BY <1>1, <1>2

\* The packets of a sample, and those of the samples.
Packets(G, x) == NetRise(db, x[1], x[2], Win, G)

NetRatio(num, G, q) ==
    RatioTrend([x \in q |-> num[x]], [x \in q |-> Packets(G, x)], [x \in q |-> x[2]], Win, "max")

(* The fleet's network ratio is within the worst server's. *)
LEMMA NetWithin ==
    ASSUME TypeOK, NEW G \in SUBSET NetFields, NEW R, R = NetSamples(db, Servers, Win),
           NEW num \in [R -> Int], \A x \in R : Packets(G, x) = 0 => num[x] <= 0,
           NEW all, all = NetRatio(num, G, R),
           NEW own, \A s \in Servers : own[s] = NetRatio(num, G, NetSamples(db, {s}, Win))
    PROVE  Within(all, own)
<1> DEFINE T == [s \in Servers |-> Times(db, s)]
           Of(s) == NetSamples(db, {s}, Win)
           den == [x \in R |-> Packets(G, x)]
           at == [x \in R |-> x[2]]
           Q == [s \in Servers |-> Of(s)]
<1>1. ASSUME NEW x \in R
      PROVE  /\ x = <<x[1], x[2]>> /\ x[1] \in Servers /\ x[2] \in Times(db, x[1])
             /\ x[2] \in InWindow(Times(db, x[1]), Win)
  <2>1. x \in Servers \X NetTimes(db, Servers, Win) /\ x[2] \in Times(db, x[1])
    BY DEF NetSamples
  <2>2. PICK r \in Servers : x[2] \in InWindow(Times(db, r), Win)
    BY <2>1 DEF NetTimes
  <2>3. x[2] \in InWindow(Times(db, x[1]), Win)
    BY <2>1, <2>2 DEF InWindow
  <2> QED
    BY <2>1, <2>3
<1>2. IsFiniteSet(R)
  <2>1. PairsOf(T, Servers) = UNION {{<<s, t>> : t \in Times(db, s)} : s \in Servers}
    BY DEF PairsOf
  <2>2. ASSUME NEW x \in R PROVE x \in PairsOf(T, Servers)
    <3>1. x = <<x[1], x[2]>> /\ x[1] \in Servers /\ x[2] \in Times(db, x[1])
      BY <1>1
    <3>2. PICK s \in Servers : s = x[1]
      BY <3>1
    <3>3. x \in {<<s, u>> : u \in Times(db, s)}
      BY <3>1, <3>2
    <3> QED
      BY <2>1, <3>3
  <2>3. \A s \in Servers : T[s] \subseteq Times(db, s)
    OBVIOUS
  <2> HIDE DEF T
  <2>4. IsFiniteSet(PairsOf(T, Servers))
    BY <2>3, OwnPairs
  <2> QED
    BY <2>2, <2>4, FS_Subset
<1>3. ASSUME NEW s \in Servers PROVE Of(s) \subseteq R /\ \A x, y \in Of(s) : x[2] = y[2] => x = y
  <2>1. NetTimes(db, {s}, Win) \subseteq NetTimes(db, Servers, Win)
    BY DEF NetTimes
  <2>2. Of(s) \subseteq R
    BY <2>1 DEF NetSamples
  <2>3. \A x \in Of(s) : x = <<s, x[2]>>
    BY DEF NetSamples
  <2> HIDE DEF Of
  <2> QED
    BY <2>2, <2>3
<1>4. ASSUME NEW x \in R
      PROVE  /\ Packets(G, x) \in Int /\ Packets(G, x) >= 0
             /\ Packets(G, x) > 0 => x \in Of(x[1])
  <2>1. PICK s, t : /\ s \in Servers /\ x = <<s, t>> /\ x[1] = s /\ x[2] = t /\ t \in Times(db, s)
                               /\ t \in InWindow(Times(db, s), Win)
    BY <1>1
  <2>2. /\ NetRise(db, s, t, Win, G) \in Int /\ NetRise(db, s, t, Win, G) >= 0
        /\ NetRise(db, s, t, Win, G) > 0 => PhysIfaces(db, s, t) # {}
    BY <2>1, NetRiseNat
  <2>3. ASSUME PhysIfaces(db, s, t) # {} PROVE x \in Of(s)
    <3>1. t \in NetTimes(db, {s}, Win)
      BY <2>1, <2>3 DEF NetTimes
    <3> QED
      BY <2>1, <3>1 DEF NetSamples
  <2>4. Packets(G, x) = NetRise(db, s, t, Win, G)
    BY <2>1 DEF Packets
  <2> HIDE DEF Of
  <2> QED
    BY <2>1, <2>2, <2>3, <2>4
<1> HIDE DEF Of
<1>5. ASSUME NEW s \in Servers
      PROVE  own[s] = RatioTrend(Cut(num, Q[s]), Cut(den, Q[s]), Cut(at, Q[s]), Win, "max")
  <2>1. /\ Cut(num, Q[s]) = [x \in Of(s) |-> num[x]]
        /\ Cut(den, Q[s]) = [x \in Of(s) |-> Packets(G, x)]
        /\ Cut(at, Q[s]) = [x \in Of(s) |-> x[2]]
    BY <1>3 DEF Cut
  <2>2. own[s] = NetRatio(num, G, Of(s))
    BY DEF Of
  <2> HIDE DEF Q, den, at
  <2> QED
    BY <2>1, <2>2 DEF NetRatio
<1>6. den \in [R -> Int] /\ DOMAIN at = R
  BY <1>4
<1>7. \A x \in R : den[x] >= 0 /\ (den[x] = 0 => num[x] <= 0) /\ x[1] \in Servers
  BY <1>1, <1>4
<1>8. \A x \in R : den[x] > 0 => x \in Q[x[1]]
  BY <1>1, <1>4
<1>9. \A s \in Servers : Q[s] \subseteq R /\ \A x, y \in Q[s] : at[x] = at[y] => x = y
  BY <1>3
<1>10. all = RatioTrend(num, den, at, Win, "max")
  <2>1. num = [x \in R |-> num[x]]
    OBVIOUS
  <2> QED
    BY <2>1 DEF NetRatio
<1>11. num \in [R -> Int]
  OBVIOUS
<1> HIDE DEF den, at, Q, T
<1> QED
  BY ONLY <1>2, <1>5, <1>6, <1>7, <1>8, <1>9, <1>10, <1>11, FleetRatio

(* So it is for retransmissions, if packets were sent. *)
LEMMA RetransWithin ==
    ASSUME TypeOK, PacketsSent
    PROVE  Within(_trend_net_retrans_percent(db, Servers, Win, "max"),
                  [s \in Servers |-> _trend_net_retrans_percent(db, {s}, Win, "max")])
<1> DEFINE Lost(x) == RetransRise(db, x[1], x[2], Win)
           all == _trend_net_retrans_percent(db, Servers, Win, "max")
           own == [s \in Servers |-> _trend_net_retrans_percent(db, {s}, Win, "max")]
<1>1. PICK R : R = NetSamples(db, Servers, Win)
  OBVIOUS
<1>2. PICK G \in SUBSET NetFields : G = {"txp"}
  BY DEF NetFields
<1>3. ASSUME NEW x \in R PROVE x[1] \in Servers /\ x[2] \in Times(db, x[1])
  BY <1>1 DEF NetSamples
<1>4. PICK num : num = [x \in R |-> Lost(x)]
  OBVIOUS
<1>5. num \in [R -> Int]
  BY <1>3, <1>4, RetransNat
<1>6. \A x \in R : Packets(G, x) = 0 => num[x] <= 0
  BY <1>2, <1>3, <1>4 DEF Packets, PacketsSent
<1>7. ASSUME NEW s \in Servers PROVE NetSamples(db, {s}, Win) \subseteq R
  BY <1>1 DEF NetSamples, NetTimes
<1>8. all = NetRatio(num, G, R)
  <2>1. num = [x \in R |-> num[x]]
    BY <1>4
  <2> QED
    BY <1>1, <1>2, <1>4, <2>1 DEF NetRatio, _trend_net_retrans_percent, Packets
<1>9. ASSUME NEW s \in Servers
      PROVE  own[s] = NetRatio(num, G, NetSamples(db, {s}, Win))
  <2>1. PICK q : q = NetSamples(db, {s}, Win)
    OBVIOUS
  <2>2. own[s] = RatioTrend([x \in q |-> Lost(x)], [x \in q |-> Packets(G, x)], [x \in q |-> x[2]], Win, "max")
    BY <1>2, <2>1 DEF _trend_net_retrans_percent, Packets
  <2>3. [x \in q |-> num[x]] = [x \in q |-> Lost(x)]
    <3> HIDE DEF Lost
    <3> QED
      BY <1>4, <1>7, <2>1
  <2> HIDE DEF own, Lost
  <2> QED
    BY <2>1, <2>2, <2>3 DEF NetRatio
<1> HIDE DEF all, own, Lost
<1>10. Within(all, own)
  BY <1>1, <1>5, <1>6, <1>8, <1>9, NetWithin
<1> QED
  BY <1>10 DEF all, own

(* So it is for drops, if packets were moved. *)
LEMMA DropWithin ==
    ASSUME TypeOK, PacketsMoved
    PROVE  Within(_trend_net_drop_percent(db, Servers, Win, "max"),
                  [s \in Servers |-> _trend_net_drop_percent(db, {s}, Win, "max")])
<1> DEFINE all == _trend_net_drop_percent(db, Servers, Win, "max")
           own == [s \in Servers |-> _trend_net_drop_percent(db, {s}, Win, "max")]
<1>1. PICK R : R = NetSamples(db, Servers, Win)
  OBVIOUS
<1>2. PICK G \in SUBSET NetFields, H \in SUBSET NetFields : G = {"rxp", "txp"} /\ H = {"rxd", "txd"}
  BY DEF NetFields
<1>3. ASSUME NEW x \in R PROVE x[1] \in Servers /\ x[2] \in Times(db, x[1])
  BY <1>1 DEF NetSamples
<1>4. PICK num : num = [x \in R |-> Packets(H, x)]
  OBVIOUS
<1>5. num \in [R -> Int]
  <2>1. \A x \in R : Packets(H, x) \in Int
    BY <1>3, NetRiseNat DEF Packets
  <2> QED
    BY <1>4, <2>1
<1>6. \A x \in R : Packets(G, x) = 0 => num[x] <= 0
  BY <1>2, <1>3, <1>4 DEF Packets, PacketsMoved
<1>7. ASSUME NEW s \in Servers PROVE NetSamples(db, {s}, Win) \subseteq R
  BY <1>1 DEF NetSamples, NetTimes
<1>8. all = NetRatio(num, G, R)
  <2>1. num = [x \in R |-> num[x]]
    BY <1>4
  <2> QED
    BY <1>1, <1>2, <1>4, <2>1 DEF NetRatio, _trend_net_drop_percent, Packets
<1>9. ASSUME NEW s \in Servers
      PROVE  own[s] = NetRatio(num, G, NetSamples(db, {s}, Win))
  <2>1. PICK q : q = NetSamples(db, {s}, Win)
    OBVIOUS
  <2>2. own[s] = RatioTrend([x \in q |-> Packets(H, x)], [x \in q |-> Packets(G, x)], [x \in q |-> x[2]], Win, "max")
    BY <1>2, <2>1 DEF _trend_net_drop_percent, Packets
  <2>3. [x \in q |-> num[x]] = [x \in q |-> Packets(H, x)]
    BY <1>4, <1>7, <2>1
  <2> HIDE DEF own
  <2> QED
    BY <2>1, <2>2, <2>3 DEF NetRatio
<1> HIDE DEF all, own
<1>10. Within(all, own)
  BY <1>1, <1>5, <1>6, <1>8, <1>9, NetWithin
<1> QED
  BY <1>10 DEF all, own

\* A count of servers is the count of those whose own chart shows the condition.
LEMMA CountsIs ==
    ASSUME NEW flags, NEW each,
           \A x : Raised(flags, x) => x[1] \in Servers,
           \A s \in Servers : \A x : Raised(each[s], x) <=> Raised(flags, x) /\ x[1] = s,
           NEW hosts, hosts = Hosts(flags, Win),
           NEW own, \A s \in Servers : own[s] = Ever(each[s], Win)
    PROVE  CountsServers(hosts, own)
<1> SUFFICES ASSUME NEW b \in DOMAIN hosts
             PROVE  hosts[b] = Cardinality({s \in Servers : b \in DOMAIN own[s] /\ own[s][b] = 1})
  BY DEF CountsServers
<1> DEFINE Up == {y \in DOMAIN flags : Bucket(y[2], Win) = b /\ flags[y]}
           H == {x[1] : x \in Up}
           O == {s \in Servers : b \in DOMAIN own[s] /\ own[s][b] = 1}
<1>1. hosts[b] = Cardinality(H)
  BY DEF Hosts
<1>2. ASSUME NEW s \in Servers
      PROVE  s \in O <=> \E x : Raised(each[s], x) /\ Bucket(x[2], Win) = b
  <2>1. PICK f : f = each[s]
    OBVIOUS
  <2> DEFINE D == {Bucket(x[2], Win) : x \in DOMAIN f}
             Some(c) == \E x \in DOMAIN f : Bucket(x[2], Win) = c /\ f[x]
             e == [c \in D |-> IF Some(c) THEN 1 ELSE 0]
  <2>2. own[s] = e
    BY <2>1 DEF Ever
  <2> HIDE DEF Some
  <2>3. b \in D => (e[b] = 1 <=> Some(b))
    BY SMT
  <2>4. Some(b) => b \in D
    BY DEF Some
  <2>5. s \in O <=> Some(b)
    BY <2>2, <2>3, <2>4
  <2> QED
    BY <2>1, <2>5 DEF Some, Raised
<1> HIDE DEF O
<1>3. ASSUME NEW s \in O PROVE s \in H
  <2>1. s \in Servers
    BY DEF O
  <2>2. PICK x : Raised(each[s], x) /\ Bucket(x[2], Win) = b
    BY <1>2, <2>1
  <2>3. Raised(flags, x) /\ x[1] = s
    BY <2>1, <2>2
  <2>4. x \in Up
    BY <2>2, <2>3 DEF Raised
  <2> HIDE DEF Up
  <2> QED
    BY <2>3, <2>4
<1>4. ASSUME NEW s \in H PROVE s \in O
  <2>1. PICK x \in Up : s = x[1]
    OBVIOUS
  <2>2. Raised(flags, x) /\ Bucket(x[2], Win) = b
    BY DEF Raised
  <2>3. s \in Servers /\ Raised(each[s], x)
    BY <2>1, <2>2
  <2> HIDE DEF Up
  <2> QED
    BY <1>2, <2>2, <2>3
<1>5. H = O
  <2> HIDE DEF H
  <2> QED
    BY <1>3, <1>4
<1> QED
  BY <1>1, <1>5 DEF O

\* The flags of the fleet are those of its servers.
Split(T, flags, each) ==
    /\ \A s \in Servers : T[s] \subseteq Times(db, s)
    /\ DOMAIN flags = PairsOf(T, Servers)
    /\ \A s \in Servers : /\ DOMAIN each[s] = PairsOf(T, {s})
                           /\ \A x \in PairsOf(T, {s}) : each[s][x] = flags[x]

Buckets(flags, each, hosts, own) ==
    /\ hosts = Hosts(flags, Win)
    /\ \A s \in Servers : own[s] = Ever(each[s], Win)

(* Flags split by server are counted as servers. *)
LEMMA CountsPairs ==
    ASSUME TypeOK, NEW T, NEW flags, NEW each, NEW hosts, NEW own,
           Split(T, flags, each), Buckets(flags, each, hosts, own)
    PROVE  CountsServers(hosts, own)
<1> USE DEF Split, Buckets
<1>1. /\ \A x \in PairsOf(T, Servers) : x[1] \in Servers /\ x \in PairsOf(T, {x[1]})
      /\ \A s \in Servers : PairsOf(T, {s}) \subseteq PairsOf(T, Servers)
  BY OwnPairs
<1>2. \A s \in Servers : \A x \in PairsOf(T, {s}) : x[1] = s
  BY DEF PairsOf
<1>3. \A x : Raised(flags, x) => x[1] \in Servers
  BY <1>1 DEF Raised
<1>4. ASSUME NEW s \in Servers, NEW x PROVE Raised(each[s], x) <=> Raised(flags, x) /\ x[1] = s
  <2>1. ASSUME Raised(each[s], x) PROVE Raised(flags, x) /\ x[1] = s
    <3>1. x \in PairsOf(T, {s}) /\ each[s][x]
      BY <2>1 DEF Raised
    <3> QED
      BY <1>1, <1>2, <3>1 DEF Raised
  <2>2. ASSUME Raised(flags, x), x[1] = s PROVE Raised(each[s], x)
    <3>1. x \in PairsOf(T, Servers) /\ flags[x]
      BY <2>2 DEF Raised
    <3>2. x \in PairsOf(T, {s})
      BY <1>1, <2>2, <3>1
    <3> QED
      BY <3>1, <3>2 DEF Raised
  <2> QED
    BY <2>1, <2>2
<1> QED
  BY <1>3, <1>4, CountsIs

(* The CPU chart of a fleet counts its saturated servers. *)
LEMMA CpuCounts ==
    ASSUME TypeOK
    PROVE  CountsServers(_trend_cpu_saturation_hosts(db, Servers, Win),
                         [s \in Servers |-> _trend_cpu_saturation(db, {s}, Win)])
<1> DEFINE Has(s, u) == Row(db, s, u).queue # None /\ Above(db[s].cores, 0)
           With(s) == {u \in InWindow(Times(db, s), Win) : Has(s, u)}
           T == [s \in Servers |-> With(s)]
           flags == CpuFlags(db, Servers, Win)
           each == [s \in Servers |-> CpuFlags(db, {s}, Win)]
           hosts == _trend_cpu_saturation_hosts(db, Servers, Win)
           own == [s \in Servers |-> _trend_cpu_saturation(db, {s}, Win)]
<1>1. ASSUME NEW S \in SUBSET Servers
      PROVE  CpuFlags(db, S, Win) = [x \in PairsOf(T, S) |-> CpuSaturated(db, x[1], x[2])]
  <2> DEFINE rows == UNION {{<<s, t>> : t \in With(s)} : s \in S}
  <2>1. rows = PairsOf(T, S)
    <3>1. \A s \in S : T[s] = With(s)
      OBVIOUS
    <3> HIDE DEF T, With
    <3> QED
      BY <3>1 DEF PairsOf
  <2>2. CpuFlags(db, S, Win) = [x \in rows |-> CpuSaturated(db, x[1], x[2])]
    BY DEF CpuFlags
  <2> HIDE DEF rows, T
  <2> QED
    BY <2>1, <2>2
<1>2. \A s \in Servers : T[s] \subseteq Times(db, s)
  BY DEF InWindow
<1> HIDE DEF T
<1>3. \A s \in Servers : PairsOf(T, {s}) \subseteq PairsOf(T, Servers)
  BY DEF PairsOf
<1>4. DOMAIN flags = PairsOf(T, Servers)
  BY <1>1
<1>5. ASSUME NEW s \in Servers
      PROVE  /\ DOMAIN each[s] = PairsOf(T, {s}) /\ \A x \in PairsOf(T, {s}) : each[s][x] = flags[x]
  <2>1. {s} \in SUBSET Servers /\ each[s] = CpuFlags(db, {s}, Win)
    OBVIOUS
  <2>2. each[s] = [x \in PairsOf(T, {s}) |-> CpuSaturated(db, x[1], x[2])]
    BY <1>1, <2>1
  <2>3. flags = [x \in PairsOf(T, Servers) |-> CpuSaturated(db, x[1], x[2])]
    BY <1>1
  <2> HIDE DEF each, flags
  <2> QED
    BY <1>3, <2>2, <2>3
<1>6. hosts = Hosts(flags, Win)
  BY DEF _trend_cpu_saturation_hosts
<1>7. \A s \in Servers : own[s] = Ever(each[s], Win)
  BY DEF _trend_cpu_saturation
<1> HIDE DEF flags, each, hosts, own
<1> HIDE DEF Has, With
<1>8. Split(T, flags, each) /\ Buckets(flags, each, hosts, own)
  BY <1>2, <1>4, <1>5, <1>6, <1>7 DEF Split, Buckets
<1>9. CountsServers(hosts, own)
  BY ONLY TypeOK, <1>8, CountsPairs
<1> QED
  BY <1>9 DEF hosts, own

(* The disk chart of a fleet counts its servers with a slow disk. *)
LEMMA DiskCounts ==
    ASSUME TypeOK
    PROVE  CountsServers(_trend_disk_saturation_hosts(db, Servers, Win),
                         [s \in Servers |-> _trend_disk_saturation(db, {s}, Win)])
<1> DEFINE With(s) == {u \in InWindow(Times(db, s), Win) : PhysDisks(db, s, u) # {}}
           Body(x) == \E d \in PhysDisks(db, x[1], x[2]) : \E st \in DiskSteps(db, x[1], d, Win) :
                         st[2] = x[2] /\ DiskCrossed(Row(db, x[1], st[1]).disk[d],
                                                     Row(db, x[1], st[2]).disk[d], st)
           T == [s \in Servers |-> With(s)]
           flags == DiskFlags(db, Servers, Win)
           each == [s \in Servers |-> DiskFlags(db, {s}, Win)]
           hosts == _trend_disk_saturation_hosts(db, Servers, Win)
           own == [s \in Servers |-> _trend_disk_saturation(db, {s}, Win)]
<1>1. ASSUME NEW S \in SUBSET Servers
      PROVE  DiskFlags(db, S, Win) = [x \in PairsOf(T, S) |-> Body(x)]
  <2> DEFINE rows == UNION {{<<s, t>> : t \in With(s)} : s \in S}
  <2>1. rows = PairsOf(T, S)
    <3>1. \A s \in S : T[s] = With(s)
      OBVIOUS
    <3> HIDE DEF T, With
    <3> QED
      BY <3>1 DEF PairsOf
  <2>2. DiskFlags(db, S, Win) = [x \in rows |-> Body(x)]
    BY DEF DiskFlags
  <2> HIDE DEF rows, T, Body
  <2> QED
    BY <2>1, <2>2
<1>2. \A s \in Servers : T[s] \subseteq Times(db, s)
  BY DEF InWindow
<1> HIDE DEF T, Body
<1>3. \A s \in Servers : PairsOf(T, {s}) \subseteq PairsOf(T, Servers)
  BY DEF PairsOf
<1>4. DOMAIN flags = PairsOf(T, Servers)
  BY <1>1
<1>5. ASSUME NEW s \in Servers
      PROVE  /\ DOMAIN each[s] = PairsOf(T, {s}) /\ \A x \in PairsOf(T, {s}) : each[s][x] = flags[x]
  <2>1. {s} \in SUBSET Servers /\ each[s] = DiskFlags(db, {s}, Win)
    OBVIOUS
  <2>2. each[s] = [x \in PairsOf(T, {s}) |-> Body(x)]
    BY <1>1, <2>1
  <2>3. flags = [x \in PairsOf(T, Servers) |-> Body(x)]
    BY <1>1
  <2> HIDE DEF each, flags
  <2> QED
    BY <1>3, <2>2, <2>3
<1>6. hosts = Hosts(flags, Win)
  BY DEF _trend_disk_saturation_hosts
<1>7. \A s \in Servers : own[s] = Ever(each[s], Win)
  BY DEF _trend_disk_saturation
<1> HIDE DEF flags, each, hosts, own
<1> HIDE DEF With
<1>8. Split(T, flags, each) /\ Buckets(flags, each, hosts, own)
  BY <1>2, <1>4, <1>5, <1>6, <1>7 DEF Split, Buckets
<1>9. CountsServers(hosts, own)
  BY ONLY TypeOK, <1>8, CountsPairs
<1> QED
  BY <1>9 DEF hosts, own

(* The network chart of a fleet counts its congested servers. *)
LEMMA NetCounts ==
    ASSUME TypeOK
    PROVE  CountsServers(_trend_net_congested_hosts(db, Servers, Win),
                         [s \in Servers |-> _trend_net_congested(db, {s}, Win)])
<1> DEFINE With(s) == NetTimes(db, {s}, Win)
           T == [s \in Servers |-> With(s)]
           flags == NetFlags(db, Servers, Win)
           each == [s \in Servers |-> NetFlags(db, {s}, Win)]
           hosts == _trend_net_congested_hosts(db, Servers, Win)
           own == [s \in Servers |-> _trend_net_congested(db, {s}, Win)]
<1>1. ASSUME NEW S \in SUBSET Servers
      PROVE  NetFlags(db, S, Win) = [x \in PairsOf(T, S) |-> Congested(db, x[1], x[2], Win)]
  <2> DEFINE rows == UNION {{<<s, t>> : t \in With(s)} : s \in S}
  <2>1. rows = PairsOf(T, S)
    <3>1. \A s \in S : T[s] = With(s)
      OBVIOUS
    <3> HIDE DEF T, With
    <3> QED
      BY <3>1 DEF PairsOf
  <2>2. NetFlags(db, S, Win) = [x \in rows |-> Congested(db, x[1], x[2], Win)]
    BY DEF NetFlags
  <2> HIDE DEF rows, T
  <2> QED
    BY <2>1, <2>2
<1>2. \A s \in Servers : T[s] \subseteq Times(db, s)
  BY DEF InWindow, NetTimes
<1> HIDE DEF T
<1>3. \A s \in Servers : PairsOf(T, {s}) \subseteq PairsOf(T, Servers)
  BY DEF PairsOf
<1>4. DOMAIN flags = PairsOf(T, Servers)
  BY <1>1
<1>5. ASSUME NEW s \in Servers
      PROVE  /\ DOMAIN each[s] = PairsOf(T, {s}) /\ \A x \in PairsOf(T, {s}) : each[s][x] = flags[x]
  <2>1. {s} \in SUBSET Servers /\ each[s] = NetFlags(db, {s}, Win)
    OBVIOUS
  <2>2. each[s] = [x \in PairsOf(T, {s}) |-> Congested(db, x[1], x[2], Win)]
    BY <1>1, <2>1
  <2>3. flags = [x \in PairsOf(T, Servers) |-> Congested(db, x[1], x[2], Win)]
    BY <1>1
  <2> HIDE DEF each, flags
  <2> QED
    BY <1>3, <2>2, <2>3
<1>6. hosts = Hosts(flags, Win)
  BY DEF _trend_net_congested_hosts
<1>7. \A s \in Servers : own[s] = Ever(each[s], Win)
  BY DEF _trend_net_congested
<1> HIDE DEF flags, each, hosts, own
<1> HIDE DEF With
<1>8. Split(T, flags, each) /\ Buckets(flags, each, hosts, own)
  BY <1>2, <1>4, <1>5, <1>6, <1>7 DEF Split, Buckets
<1>9. CountsServers(hosts, own)
  BY ONLY TypeOK, <1>8, CountsPairs
<1> QED
  BY <1>9 DEF hosts, own

(* The paging chart of a fleet counts its servers that page. *)
LEMMA PagingCounts ==
    ASSUME TypeOK
    PROVE  CountsServers(_trend_mem_paging_pressure_hosts(db, Servers, Win),
                         [s \in Servers |-> _trend_mem_paging_pressure(db, {s}, Win)])
<1> DEFINE With(s) == {t \in Times(db, s) : PagingOf(db, s, t) # None}
           T == [s \in Servers |-> With(s)]
           Pages(x) == Rise(PagingOf(db, x[1], x[2]), PagingOf(db, x[1], x[3]))
           Over(x) == IF Windows(db[x[1]].os)
                      THEN Pages(x) >= WIN_PAGES_INPUT * Interval * (x[3] - x[2])
                      ELSE Pages(x) > 0
           Seen(S, y) == \E x \in StepsOf(T, S) : <<x[1], x[3]>> = y /\ Over(x)
           flags == PagingFlags(db, Servers, Win)
           each == [s \in Servers |-> PagingFlags(db, {s}, Win)]
           hosts == _trend_mem_paging_pressure_hosts(db, Servers, Win)
           own == [s \in Servers |-> _trend_mem_paging_pressure(db, {s}, Win)]
<1>1. ASSUME NEW S \in SUBSET Servers, NEW y
      PROVE  Raised(PagingFlags(db, S, Win), y) <=> Seen(S, y)
  <2> DEFINE rows == UNION {{<<s, st[1], st[2]>> : st \in Steps(With(s), Win)} : s \in S}
             keys == {<<x[1], x[3]>> : x \in StepsOf(T, S)}
  <2>1. rows = StepsOf(T, S)
    <3>1. \A s \in S : T[s] = With(s)
      OBVIOUS
    <3> HIDE DEF T, With
    <3> QED
      BY <3>1 DEF StepsOf
  <2>2. PagingSteps(db, S, Win) = StepsOf(T, S)
    BY <2>1 DEF PagingSteps
  <2> HIDE DEF rows, T, With
  <2>3. PagingFlags(db, S, Win) = [z \in keys |-> Seen(S, z)]
    BY <2>2 DEF PagingFlags
  <2>4. Seen(S, y) => y \in keys
    OBVIOUS
  <2> HIDE DEF keys, Seen
  <2>5. Raised([z \in keys |-> Seen(S, z)], y) <=> y \in keys /\ Seen(S, y)
    BY DEF Raised
  <2> QED
    BY <2>3, <2>4, <2>5
<1>2. \A s \in Servers : T[s] \subseteq Times(db, s)
  OBVIOUS
<1> HIDE DEF T, With, Over, Pages
<1>3. /\ \A x \in StepsOf(T, Servers) : x[1] \in Servers /\ x \in StepsOf(T, {x[1]})
      /\ \A s \in Servers : StepsOf(T, {s}) \subseteq StepsOf(T, Servers)
  BY <1>2, OwnSteps
<1>4. ASSUME NEW s \in Servers, NEW x \in StepsOf(T, {s}) PROVE x[1] = s
  <2>1. PICK st \in Steps(T[s], Win) : x = <<s, st[1], st[2]>>
    BY DEF StepsOf
  <2> QED
    BY <2>1
<1>5. \A y : Raised(flags, y) => y[1] \in Servers
  <2> TAKE y
  <2> HAVE Raised(flags, y)
  <2>1. Seen(Servers, y)
    BY <1>1
  <2>2. PICK x \in StepsOf(T, Servers) : <<x[1], x[3]>> = y
    BY <2>1
  <2> QED
    BY <1>3, <2>2
<1>6. ASSUME NEW s \in Servers, NEW y PROVE Raised(each[s], y) <=> Raised(flags, y) /\ y[1] = s
  <2>1. {s} \in SUBSET Servers /\ each[s] = PagingFlags(db, {s}, Win)
    OBVIOUS
  <2>2. Raised(each[s], y) <=> Seen({s}, y)
    BY <1>1, <2>1
  <2>3. Raised(flags, y) <=> Seen(Servers, y)
    BY <1>1
  <2>4. ASSUME Seen({s}, y) PROVE Seen(Servers, y) /\ y[1] = s
    <3>1. PICK x \in StepsOf(T, {s}) : <<x[1], x[3]>> = y /\ Over(x)
      BY <2>4
    <3>2. x[1] = s /\ x \in StepsOf(T, Servers)
      BY <1>3, <1>4
    <3> QED
      BY <3>1, <3>2
  <2>5. ASSUME Seen(Servers, y), y[1] = s PROVE Seen({s}, y)
    <3>1. PICK x \in StepsOf(T, Servers) : <<x[1], x[3]>> = y /\ Over(x)
      BY <2>5
    <3>2. x[1] = s
      BY <2>5, <3>1
    <3>3. x \in StepsOf(T, {s})
      BY <1>3, <3>2
    <3> QED
      BY <3>1, <3>3
  <2> HIDE DEF each, flags, Seen
  <2> QED
    BY <2>2, <2>3, <2>4, <2>5
<1>7. hosts = Hosts(flags, Win)
  BY DEF _trend_mem_paging_pressure_hosts
<1>8. \A s \in Servers : own[s] = Ever(each[s], Win)
  BY DEF _trend_mem_paging_pressure
<1> HIDE DEF flags, each, hosts, own, Seen
<1>9. CountsServers(hosts, own)
  BY <1>5, <1>6, <1>7, <1>8, CountsIs
<1> QED
  BY <1>9 DEF hosts, own

\* What the busy disks of the servers took at an instant.
WaitsOn(s, d, t) == {AwaitClamped(db, s, d, st) : st \in {x \in DiskSteps(db, s, d, Win) : x[2] = t}}
WaitsAt(S, t) == UNION {UNION {WaitsOn(s, d, t) : d \in db[s].disks} : s \in S}

(* A wait is a natural number or missing. *)
LEMMA AwaitType ==
    ASSUME TypeOK, NEW s \in Servers, NEW d \in db[s].disks, NEW st \in DiskSteps(db, s, d, Win)
    PROVE  AwaitClamped(db, s, d, st) \in Nat \cup {None} /\ st[2] \in InWindow(Times(db, s), Win)
<1>1. d \in Disks
  BY KnownOf
<1>2. DiskSteps(db, s, d, Win) = Steps(Times(db, s), Win)
  BY <1>1, Reported DEF DiskSteps
<1>3. st[1] \in Times(db, s) /\ st[2] \in Times(db, s) /\ st[2] \in InWindow(Times(db, s), Win)
  BY <1>2 DEF Steps, WithLead, InWindow
<1>4. PICK a \in Samples, b \in Samples : a = Row(db, s, st[1]) /\ b = Row(db, s, st[2])
  BY <1>3, StoredRows
<1>5. PICK p, c : p = a.disk[d] /\ c = b.disk[d]
  OBVIOUS
<1>6. p \in [DiskFields -> Nat] /\ c \in [DiskFields -> Nat]
  BY <1>1, <1>5 DEF Samples
<1>7. p.ops \in Nat /\ c.ops \in Nat /\ p.t \in Nat /\ c.t \in Nat
  BY <1>6 DEF DiskFields
<1>8. PICK n, m : n = Rise(p.ops, c.ops) /\ m = Rise(p.t, c.t)
  OBVIOUS
<1>9. n \in Nat /\ m \in Nat
  <2>1. PICK po \in Nat, co \in Nat, pt \in Nat, ct \in Nat :
           po = p.ops /\ co = c.ops /\ pt = p.t /\ ct = c.t
    BY <1>7
  <2>2. Rise(po, co) \in Nat /\ Rise(pt, ct) \in Nat
    BY RiseIs
  <2> QED
    BY <1>8, <2>1, <2>2
<1>10. AwaitClamped(db, s, d, st) = IF n > 0 /\ DiskBusy(Rise(p.iot, c.iot), st) THEN m \div n ELSE None
  BY <1>4, <1>5, <1>8 DEF AwaitClamped
<1>11. n > 0 => m \div n \in Nat
  <2> HAVE n > 0
  <2>1. 0 \div n <= m \div n /\ m \div n \in Int
    BY <1>9, DivMono
  <2>2. 0 \div n = 0
    BY <1>9, SMT
  <2> QED
    BY <2>1, <2>2
<1> QED
  BY <1>3, <1>10, <1>11

(* The waits at a time are finitely many, each of one server. *)
LEMMA WaitsType ==
    ASSUME TypeOK, NEW S \in SUBSET Servers, NEW t
    PROVE  /\ IsFiniteSet(WaitsAt(S, t)) /\ WaitsAt(S, t) \subseteq Nat \cup {None}
           /\ \A a \in WaitsAt(S, t) : \E s \in S : a \in WaitsAt({s}, t)
           /\ \A s \in S : WaitsAt({s}, t) \subseteq WaitsAt(S, t)
           /\ WaitsAt(S, t) # {} => t \in UNION {InWindow(Times(db, s), Win) : s \in S}
<1>1. ASSUME NEW s \in S, NEW d \in db[s].disks
      PROVE  /\ IsFiniteSet(WaitsOn(s, d, t)) /\ WaitsOn(s, d, t) \subseteq Nat \cup {None}
             /\ WaitsOn(s, d, t) # {} => t \in InWindow(Times(db, s), Win)
  <2> DEFINE D == {x \in DiskSteps(db, s, d, Win) : x[2] = t}
             h == [st \in D |-> AwaitClamped(db, s, d, st)]
  <2>1. IsFiniteSet(D)
    <3>1. DiskSteps(db, s, d, Win) = Steps(Times(db, s), Win)
      BY Reported, KnownOf DEF DiskSteps
    <3>2. IsFiniteSet(DiskSteps(db, s, d, Win))
      BY <3>1, TimesType, StepsFinite
    <3> QED
      BY <3>2, FS_Subset
  <2>2. DOMAIN h = D /\ WaitsOn(s, d, t) = {h[st] : st \in D}
    BY DEF WaitsOn
  <2>3. \A st \in D : h[st] \in Nat \cup {None} /\ t \in InWindow(Times(db, s), Win)
    BY AwaitType
  <2> HIDE DEF h, D
  <2>4. IsFiniteSet({h[st] : st \in D})
    BY <2>1, <2>2, FiniteImage
  <2> QED
    BY <2>2, <2>3, <2>4
<1> DEFINE Own(s) == UNION {WaitsOn(s, d, t) : d \in db[s].disks}
<1>2. ASSUME NEW s \in S PROVE IsFiniteSet(Own(s))
  <2> DEFINE K == db[s].disks
             g == [d \in K |-> WaitsOn(s, d, t)]
  <2>1. DOMAIN g = K /\ {g[d] : d \in K} = {WaitsOn(s, d, t) : d \in K}
    OBVIOUS
  <2>2. IsFiniteSet(K)
    BY KnownOf
  <2>3. IsFiniteSet({g[d] : d \in K})
    <3> HIDE DEF g, K
    <3> QED
      BY <2>1, <2>2, FiniteImage
  <2>4. \A X \in {WaitsOn(s, d, t) : d \in K} : IsFiniteSet(X)
    BY <1>1
  <2> QED
    BY <2>1, <2>3, <2>4, FS_UNION
<1>3. IsFiniteSet(UNION {Own(s) : s \in S})
  <2> DEFINE g == [s \in S |-> Own(s)]
  <2>1. DOMAIN g = S /\ {g[s] : s \in S} = {Own(s) : s \in S}
    OBVIOUS
  <2>2. IsFiniteSet(S)
    BY StoreAssumption, FS_Subset
  <2>3. IsFiniteSet({g[s] : s \in S})
    <3> HIDE DEF g
    <3> QED
      BY <2>1, <2>2, FiniteImage
  <2> HIDE DEF Own
  <2>4. \A X \in {Own(s) : s \in S} : IsFiniteSet(X)
    BY <1>2
  <2> QED
    BY <2>1, <2>3, <2>4, FS_UNION
<1>4. WaitsAt(S, t) = UNION {Own(s) : s \in S} /\ \A s : WaitsAt({s}, t) = Own(s)
  BY DEF WaitsAt
<1>5. \A s \in S : Own(s) \subseteq Nat \cup {None} /\ (Own(s) # {} => t \in InWindow(Times(db, s), Win))
  BY <1>1
<1> HIDE DEF Own
<1>6. WaitsAt(S, t) \subseteq Nat \cup {None}
  BY <1>4, <1>5
<1>7. \A a \in WaitsAt(S, t) : \E s \in S : a \in WaitsAt({s}, t)
  BY <1>4
<1>8. \A s \in S : WaitsAt({s}, t) \subseteq WaitsAt(S, t)
  BY <1>4
<1>9. WaitsAt(S, t) # {} => t \in UNION {InWindow(Times(db, s), Win) : s \in S}
  BY <1>4, <1>5
<1> QED
  BY <1>3, <1>4, <1>6, <1>7, <1>8, <1>9

(* A bucket of the slowest-disk chart is its greatest wait. *)
LEMMA SlowestIs ==
    ASSUME TypeOK, NEW S \in SUBSET Servers,
           NEW chart, chart = _trend_disk_io_saturation(db, S, Win, "max")
    PROVE  /\ \A b \in DOMAIN chart :
                 \E t : chart[b] \in Nat /\ chart[b] \in WaitsAt(S, t) /\ Bucket(t, Win) = b
           /\ \A t : \A a \in WaitsAt(S, t) : a # None =>
                 Bucket(t, Win) \in DOMAIN chart /\ a <= chart[Bucket(t, Win)]
<1> DEFINE times == UNION {InWindow(Times(db, s), Win) : s \in S}
           Top(t) == IF Known(WaitsAt(S, t)) = {} THEN None ELSE Max(Known(WaitsAt(S, t)))
           p == [t \in times |-> Top(t)]
<1>1. chart = Trend(p, Win, "max") /\ DOMAIN p = times
  BY DEF _trend_disk_io_saturation, WaitsAt, WaitsOn
<1>2. IsFiniteSet(times)
  <2> DEFINE Of(s) == InWindow(Times(db, s), Win)
             g == [s \in S |-> Of(s)]
  <2>1. DOMAIN g = S /\ {g[s] : s \in S} = {Of(s) : s \in S}
    OBVIOUS
  <2>2. IsFiniteSet(S)
    BY StoreAssumption, FS_Subset
  <2>3. IsFiniteSet({g[s] : s \in S})
    <3> HIDE DEF g
    <3> QED
      BY <2>1, <2>2, FiniteImage
  <2>4. \A s \in S : IsFiniteSet(Of(s))
    BY TimesType, FS_Subset DEF InWindow
  <2> HIDE DEF Of
  <2>5. \A X \in {Of(s) : s \in S} : IsFiniteSet(X)
    BY <2>4
  <2>6. IsFiniteSet(UNION {Of(s) : s \in S})
    BY <2>1, <2>3, <2>5, FS_UNION
  <2> QED
    BY <2>6 DEF Of
<1>3. ASSUME NEW t
      PROVE  /\ Top(t) = None \/ (Top(t) \in Nat /\ Top(t) \in WaitsAt(S, t))
             /\ \A a \in WaitsAt(S, t) : a # None => Top(t) # None /\ a <= Top(t)
  <2> DEFINE K == Known(WaitsAt(S, t))
  <2>1. IsFiniteSet(K) /\ K \subseteq Nat /\ K \subseteq WaitsAt(S, t)
    BY WaitsType, FS_Subset DEF Known
  <2>2. \A a \in WaitsAt(S, t) : a # None => a \in K
    BY DEF Known
  <2>3. Top(t) = IF K = {} THEN None ELSE Max(K)
    OBVIOUS
  <2> HIDE DEF K, Top
  <2>4. CASE K = {}
    BY <2>2, <2>3, <2>4
  <2>5. CASE K # {}
    <3>1. Max(K) \in K /\ \A y \in K : Max(K) >= y
      <4>1. K \subseteq Int
        BY <2>1
      <4> QED
        BY <2>1, <2>5, <4>1, Extremes
    <3>2. Max(K) \in Nat /\ Max(K) # None
      <4>1. PICK m : m = Max(K)
        OBVIOUS
      <4>2. m \in Nat
        BY <2>1, <3>1, <4>1, Zenon
      <4> QED
        BY <4>1, <4>2, NoneAssumption
    <3> QED
      BY <2>1, <2>2, <2>3, <2>5, <3>1, <3>2
  <2> QED
    BY <2>4, <2>5
<1>4. \A t \in times : p[t] = Top(t)
  OBVIOUS
<1>5. \A t : WaitsAt(S, t) # {} => t \in times
  BY WaitsType
<1> HIDE DEF p, times, Top
<1>6. \A t \in DOMAIN p : p[t] \in Int \cup {None}
  BY <1>1, <1>3, <1>4
<1>7. ASSUME NEW b \in DOMAIN chart
      PROVE  \E t : chart[b] \in Nat /\ chart[b] \in WaitsAt(S, t) /\ Bucket(t, Win) = b
  <2>1. PICK t \in DOMAIN p : p[t] # None /\ Bucket(t, Win) = b /\ chart[b] = p[t]
    BY <1>1, <1>2, <1>6, TrendMax
  <2>2. p[t] = Top(t)
    BY <1>1, <1>4
  <2>3. p[t] \in Nat /\ p[t] \in WaitsAt(S, t)
    BY <1>3, <2>1, <2>2
  <2> QED
    BY <2>1, <2>3
<1>8. ASSUME NEW t, NEW a \in WaitsAt(S, t), a # None
      PROVE  Bucket(t, Win) \in DOMAIN chart /\ a <= chart[Bucket(t, Win)]
  <2>1. t \in times
    BY <1>5
  <2>2. p[t] # None /\ a <= p[t] /\ t \in DOMAIN p
    BY <1>1, <1>3, <1>4, <1>8, <2>1
  <2>3. Bucket(t, Win) \in DOMAIN chart
    BY <1>1, <2>2 DEF Trend, Measured
  <2>4. p[t] <= chart[Bucket(t, Win)]
    BY <1>1, <1>2, <1>6, <2>2, <2>3, TrendMax
  <2>5. PICK n \in Nat, m \in Nat : n = a /\ m = p[t]
    BY <1>3, <1>4, <1>8, <2>1, <2>2, WaitsType
  <2>6. PICK k \in Int : k = chart[Bucket(t, Win)]
    BY <1>7, <2>3
  <2> QED
    BY <2>2, <2>3, <2>4, <2>5, <2>6
<1> QED
  BY <1>7, <1>8

(* The slowest disk of a fleet is the slowest of a server's. *)
LEMMA SlowestMatches ==
    ASSUME TypeOK,
           NEW all, all = _trend_disk_io_saturation(db, Servers, Win, "max"),
           NEW own, own = [s \in Servers |-> _trend_disk_io_saturation(db, {s}, Win, "max")],
           NEW b \in DOMAIN all
    PROVE  all[b] = Worst(own, b)
<1>1. ASSUME NEW s \in Servers
      PROVE  /\ \A c \in DOMAIN own[s] :
                   \E t : own[s][c] \in Nat /\ own[s][c] \in WaitsAt({s}, t) /\ Bucket(t, Win) = c
             /\ \A t : \A a \in WaitsAt({s}, t) : a # None =>
                   Bucket(t, Win) \in DOMAIN own[s] /\ a <= own[s][Bucket(t, Win)]
  <2>1. PICK S \in SUBSET Servers : S = {s}
    OBVIOUS
  <2>2. PICK o : o = own[s]
    OBVIOUS
  <2>3. o = _trend_disk_io_saturation(db, S, Win, "max")
    BY <2>1, <2>2
  <2> QED
    BY <2>1, <2>2, <2>3, SlowestIs
<1>2. /\ \A s \in Servers : \A c \in DOMAIN own[s] : own[s][c] \in Int
  BY <1>1
<1>3. /\ Worst(own, b) \in Int
      /\ \A s \in Servers : b \in DOMAIN own[s] => own[s][b] <= Worst(own, b)
      /\ Worst(own, b) = -1 \/ \E s \in Servers : b \in DOMAIN own[s] /\ Worst(own, b) = own[s][b]
  BY <1>2, WorstIs
<1>4. PICK t : all[b] \in Nat /\ all[b] \in WaitsAt(Servers, t) /\ Bucket(t, Win) = b
  BY SlowestIs
<1>5. all[b] # None
  BY <1>4, NoneAssumption
<1>6. PICK s \in Servers : all[b] \in WaitsAt({s}, t)
  BY <1>4, WaitsType
<1>7. b \in DOMAIN own[s] /\ all[b] <= own[s][b] /\ own[s][b] <= Worst(own, b) /\ own[s][b] \in Int
  BY <1>1, <1>2, <1>3, <1>4, <1>5, <1>6
<1>8. PICK r \in Servers : b \in DOMAIN own[r] /\ Worst(own, b) = own[r][b]
  <2>1. PICK w \in Int, a \in Nat, o \in Int : w = Worst(own, b) /\ a = all[b] /\ o = own[s][b]
    BY <1>3, <1>4, <1>7
  <2>2. w # -1
    BY <1>7, <2>1
  <2> QED
    BY <1>3, <2>1, <2>2
<1>9. PICK u : own[r][b] \in Nat /\ own[r][b] \in WaitsAt({r}, u) /\ Bucket(u, Win) = b
  BY <1>1, <1>8
<1>10. own[r][b] \in WaitsAt(Servers, u) /\ own[r][b] # None
  BY <1>9, WaitsType, NoneAssumption
<1>11. own[r][b] <= all[b]
  BY <1>9, <1>10, SlowestIs
<1> QED
  BY <1>3, <1>4, <1>7, <1>8, <1>9, <1>11

\* The charts of the fleet agree with those of its servers, for any number of
\* servers, disks and interfaces and whatever they report: the _hosts queries
\* count the servers whose own chart shows the condition, the slowest disk is the
\* slowest of theirs, and SUM(num) / SUM(den) never exceeds the worst server's
\* ratio.
THEOREM FleetMatches == Spec => []FleetMatchesServers
<1>1. TypeOK => FleetMatchesServers
  <2> SUFFICES ASSUME TypeOK PROVE FleetMatchesServers
    OBVIOUS
  <2>1. LET all == _trend_disk_io_saturation(db, Servers, Win, "max")
            own == [s \in Servers |-> _trend_disk_io_saturation(db, {s}, Win, "max")]
        IN  \A b \in DOMAIN all : all[b] = Worst(own, b)
    BY SlowestMatches
  <2>2. ASSUME NEW os \in {"linux", "windows"}
        PROVE  Within(_trend_cpu_run_queue(db, Servers, os, Win, "max"),
                      [s \in Servers |-> _trend_cpu_run_queue(db, {s}, os, Win, "max")])
    BY QueueWithin
  <2>3. /\ CountsServers(_trend_cpu_saturation_hosts(db, Servers, Win),
                         [s \in Servers |-> _trend_cpu_saturation(db, {s}, Win)])
        /\ CountsServers(_trend_mem_paging_pressure_hosts(db, Servers, Win),
                         [s \in Servers |-> _trend_mem_paging_pressure(db, {s}, Win)])
        /\ CountsServers(_trend_disk_saturation_hosts(db, Servers, Win),
                         [s \in Servers |-> _trend_disk_saturation(db, {s}, Win)])
        /\ CountsServers(_trend_net_congested_hosts(db, Servers, Win),
                         [s \in Servers |-> _trend_net_congested(db, {s}, Win)])
    BY CpuCounts, PagingCounts, DiskCounts, NetCounts
  <2>4. /\ Within(_trend_cpu_utilization(db, Servers, "usage", Win, "max"),
                  [s \in Servers |-> _trend_cpu_utilization(db, {s}, "usage", Win, "max")])
        /\ Within(_trend_env_scalar_weighted(db, Servers, Win, "max"),
                  [s \in Servers |-> _trend_env_scalar_weighted(db, {s}, Win, "max")])
        /\ Within(_trend_psi(db, Servers, Win, "max"),
                  [s \in Servers |-> _trend_psi(db, {s}, Win, "max")])
    BY CpuWithin, MemWithin, PsiWithin
  <2>5. PacketsSent => Within(_trend_net_retrans_percent(db, Servers, Win, "max"),
                              [s \in Servers |-> _trend_net_retrans_percent(db, {s}, Win, "max")])
    BY RetransWithin
  <2>6. PacketsMoved => Within(_trend_net_drop_percent(db, Servers, Win, "max"),
                               [s \in Servers |-> _trend_net_drop_percent(db, {s}, Win, "max")])
    BY DropWithin
  <2> QED
    BY <2>1, <2>2, <2>3, <2>4, <2>5, <2>6 DEF FleetMatchesServers
<1> QED
  BY <1>1, TypeCorrect, PTL
=============================================================================
