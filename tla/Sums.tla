-------------------------------- MODULE Sums --------------------------------
(***************************************************************************)
(* Sums of natural numbers over finite sets: the sizes in bytes that the   *)
(* validator transaction pool and the mempool of the Aptos node add up.    *)
(* A sum is shown to be the number of units it counts, so that what is     *)
(* known of cardinalities carries over to sums.                            *)
(***************************************************************************)
EXTENDS Integers, FiniteSetsExt, FiniteSetTheorems, WellFoundedInduction, TLAPS

(* The sum of w[x] over the elements x of S. *)
SumOver(w, S) == MapThenSumSet(LAMBDA x : w[x], S)

(* Each element of S as many times as w says. *)
Units(w, S) == UNION {{x} \X (1..w[x]) : x \in S}
-----------------------------------------------------------------------------
(* The element the fold takes first, and what the fold computes. *)
Pick(s) == CHOOSE x \in s : TRUE

IsSum(g, w, S) ==
    g = [s \in SUBSET S |-> IF s = {} THEN 0 ELSE w[Pick(s)] + g[s \ {Pick(s)}]]

(***************************************************************************)
(* MapThenSumSet, which stands for the additions the Rust code makes one   *)
(* by one, is the value at S of a function that takes one element at a     *)
(* time.                                                                   *)
(***************************************************************************)
LEMMA SumUnfolds ==
  ASSUME NEW S, NEW w
  PROVE  SumOver(w, S) = (CHOOSE g : IsSum(g, w, S))[S]
  BY DEF SumOver, MapThenSumSet, MapThenFoldSet, IsSum, Pick

(***************************************************************************)
(* What the fold takes from a non-empty set is an element of it.           *)
(***************************************************************************)
LEMMA PickIsElement ==
  ASSUME NEW s, s # {}
  PROVE  Pick(s) \in s
  BY DEF Pick

(***************************************************************************)
(* A finite set of transactions or validators has finitely many units      *)
(* (bytes, votes) in all.                                                  *)
(***************************************************************************)
LEMMA FiniteUnits ==
  ASSUME NEW S, IsFiniteSet(S), NEW w, \A x \in S : w[x] \in Nat
  PROVE  IsFiniteSet(Units(w, S))
  <1> DEFINE f == [x \in S |-> {x} \X (1..w[x])]
             T == {{x} \X (1..w[x]) : x \in S}
  <1>1. f \in Surjection(S, T)
    BY Zenon DEF Surjection
  <1>2. IsFiniteSet(T)
    <2> HIDE DEF f, T
    <2> QED BY <1>1, FS_Surjection
  <1>3. ASSUME NEW x \in S PROVE IsFiniteSet({x} \X (1..w[x]))
    <2>1. IsFiniteSet({x})
      BY FS_Singleton, Zenon
    <2>2. w[x] \in Int /\ 1 \in Int
      OBVIOUS
    <2>3. IsFiniteSet(1..w[x])
      BY <2>2, FS_Interval
    <2> QED BY <2>1, <2>3, FS_Product
  <1>4. \A U \in T : IsFiniteSet(U)
    BY <1>3
  <1> QED
    <2> HIDE DEF T
    <2>1. IsFiniteSet(UNION T)
      BY <1>2, <1>4, FS_UNION
    <2> QED BY <2>1 DEF Units, T

(***************************************************************************)
(* One element more brings its own units: what adding a transaction's size *)
(* to a running total counts.                                              *)
(***************************************************************************)
LEMMA UnitsOfOneMore ==
  ASSUME NEW S, IsFiniteSet(S), NEW w, \A x \in S : w[x] \in Nat,
         NEW a \in S
  PROVE  Cardinality(Units(w, S)) = w[a] + Cardinality(Units(w, S \ {a}))
  <1> DEFINE A == {a} \X (1..w[a])
             R == Units(w, S \ {a})
  <1>1. Units(w, S) = A \cup R
    BY DEF Units
  <1>2. A \cap R = {}
    BY DEF Units
  <1>3. IsFiniteSet(R)
    BY FiniteUnits, FS_RemoveElement, Zenon
  <1>4. IsFiniteSet(A) /\ Cardinality(A) = w[a]
    <2>1. IsFiniteSet({a}) /\ Cardinality({a}) = 1
      BY FS_Singleton, Zenon
    <2>2. IsFiniteSet(1..w[a]) /\ Cardinality(1..w[a]) = w[a]
      BY FS_Interval
    <2>3. IsFiniteSet(A) /\ Cardinality(A) = 1 * w[a]
      BY <2>1, <2>2, FS_Product
    <2> QED BY <2>3
  <1>5. Cardinality(A \cup R) = Cardinality(A) + Cardinality(R) - Cardinality(A \cap R)
    BY <1>3, <1>4, FS_Union, Zenon
  <1>6. Cardinality(R) \in Nat
    BY <1>3, FS_CardinalityType
  <1>7. Cardinality(A \cap R) = 0
    BY <1>2, FS_EmptySet
  <1>8. w[a] \in Nat
    OBVIOUS
  <1> HIDE DEF A, R
  <1>9. Cardinality(Units(w, S)) = w[a] + Cardinality(R)
    BY <1>1, <1>4, <1>5, <1>6, <1>7, <1>8
  <1> QED
    BY <1>9 DEF R

(***************************************************************************)
(* Counting units is a way to compute the sum.                             *)
(***************************************************************************)
LEMMA UnitsAreASum ==
  ASSUME NEW S, IsFiniteSet(S), NEW w, \A x \in S : w[x] \in Nat
  PROVE  IsSum([s \in SUBSET S |-> Cardinality(Units(w, s))], w, S)
  <1> DEFINE g == [s \in SUBSET S |-> Cardinality(Units(w, s))]
  <1>1. Cardinality(Units(w, {})) = 0
    <2>1. Units(w, {}) = {}
      BY DEF Units
    <2> QED BY <2>1, FS_EmptySet
  <1>2. ASSUME NEW s \in SUBSET S, s # {}
        PROVE  g[s] = w[Pick(s)] + g[s \ {Pick(s)}]
    <2>1. Pick(s) \in s
      BY <1>2, PickIsElement
    <2>2. IsFiniteSet(s)
      BY FS_Subset
    <2>3. Cardinality(Units(w, s)) = w[Pick(s)] + Cardinality(Units(w, s \ {Pick(s)}))
      BY <2>1, <2>2, UnitsOfOneMore
    <2> QED BY <2>3
  <1>3. g[{}] = 0
    BY <1>1
  <1>4. \A s \in SUBSET S :
           g[s] = IF s = {} THEN 0 ELSE w[Pick(s)] + g[s \ {Pick(s)}]
    BY <1>2, <1>3, Zenon
  <1>5. g = [s \in SUBSET S |-> g[s]]
    OBVIOUS
  <1> HIDE DEF g
  <1>6. IsSum(g, w, S)
    BY <1>4, <1>5, Zenon DEF IsSum
  <1> QED BY <1>6 DEF g

(***************************************************************************)
(* Induction over the subsets of a finite set, in the form of a smallest   *)
(* counterexample.                                                         *)
(***************************************************************************)
LEMMA SmallestCounterexample ==
  ASSUME NEW S, IsFiniteSet(S), NEW B, B \subseteq SUBSET S, B # {}
  PROVE  \E T \in B : \A U \in B : U \subseteq T => U = T
  <1>1. B \subseteq FiniteSubsetsOf(S)
    BY FS_Subset DEF FiniteSubsetsOf
  <1>2. PICK T \in B : \A U \in B : ~(<<U, T>> \in StrictSubsetOrdering(S))
    BY <1>1, FS_StrictSubsetOrderingWellFounded, WFMin
  <1>3. ASSUME NEW U \in B, U \subseteq T, U # T PROVE FALSE
    BY <1>2, <1>3, Zenon DEF StrictSubsetOrdering
  <1> QED BY <1>3

(***************************************************************************)
(* Induction over the natural numbers, in the form of a smallest           *)
(* counterexample.                                                         *)
(***************************************************************************)
LEMMA SmallestNumber ==
  ASSUME NEW B, B \subseteq Nat, B # {}
  PROVE  \E n \in B : \A m \in B : n <= m
  <1>1. PICK n \in B : \A m \in B : ~(<<m, n>> \in OpToRel(<, Nat))
    BY NatLessThanWellFounded, WFMin
  <1>2. \A m \in B : ~(m < n)
    BY <1>1, Zenon DEF OpToRel
  <1> QED BY <1>2

(***************************************************************************)
(* There is one sum: two functions that take the elements one at a time    *)
(* agree.                                                                  *)
(***************************************************************************)
LEMMA SumIsUnique ==
  ASSUME NEW S, IsFiniteSet(S), NEW w, NEW g, NEW h, IsSum(g, w, S), IsSum(h, w, S)
  PROVE  g[S] = h[S]
  <1> DEFINE B == {s \in SUBSET S : g[s] # h[s]}
  <1>1. ASSUME B # {} PROVE FALSE
    <2>1. PICK T \in B : \A U \in B : U \subseteq T => U = T
      <3> HIDE DEF B
      <3>1. SUFFICES B \subseteq SUBSET S
        BY <1>1, SmallestCounterexample
      <3> QED BY DEF B
    <2>2. T \in SUBSET S /\ g[T] # h[T]
      OBVIOUS
    <2>3. g[T] = IF T = {} THEN 0 ELSE w[Pick(T)] + g[T \ {Pick(T)}]
      BY <2>2, Zenon DEF IsSum
    <2>4. h[T] = IF T = {} THEN 0 ELSE w[Pick(T)] + h[T \ {Pick(T)}]
      BY <2>2, Zenon DEF IsSum
    <2>5. T # {}
      BY <2>2, <2>3, <2>4
    <2>6. Pick(T) \in T
      BY <2>5, PickIsElement
    <2>7. T \ {Pick(T)} \notin B
      BY <2>1, <2>6
    <2>8. g[T \ {Pick(T)}] = h[T \ {Pick(T)}]
      BY <2>2, <2>7
    <2> QED BY <2>2, <2>3, <2>4, <2>5, <2>8
  <1>2. S \in SUBSET S
    OBVIOUS
  <1> QED BY <1>1, <1>2

(***************************************************************************)
(* A sum of sizes or of voting powers, however large the set, is the       *)
(* number of units in it.  The running totals of the pools (size_bytes,    *)
(* max_bytes) and PowerOf are such sums.                                   *)
(***************************************************************************)
LEMMA SumIsUnits ==
  ASSUME NEW S, IsFiniteSet(S), NEW w, \A x \in S : w[x] \in Nat
  PROVE  SumOver(w, S) = Cardinality(Units(w, S))
  <1> DEFINE u == [s \in SUBSET S |-> Cardinality(Units(w, s))]
             c == CHOOSE g : IsSum(g, w, S)
  <1>1. IsSum(u, w, S)
    BY UnitsAreASum
  <1>2. IsSum(c, w, S)
    <2> HIDE DEF u
    <2> QED BY <1>1
  <1>3. c[S] = u[S]
    <2> HIDE DEF u, c
    <2> QED BY <1>1, <1>2, SumIsUnique
  <1> QED BY <1>3, SumUnfolds
-----------------------------------------------------------------------------
(***************************************************************************)
(* An empty pool holds no bytes, and nobody has no power.                  *)
(***************************************************************************)
LEMMA SumEmpty == ASSUME NEW w PROVE SumOver(w, {}) = 0
  <1>1. Units(w, {}) = {}
    BY DEF Units
  <1>2. IsFiniteSet({}) /\ Cardinality({}) = 0
    BY FS_EmptySet
  <1>3. \A x \in {} : w[x] \in Nat
    OBVIOUS
  <1>4. SumOver(w, {}) = Cardinality(Units(w, {}))
    BY <1>2, <1>3, SumIsUnits
  <1> QED BY <1>1, <1>2, <1>4

(***************************************************************************)
(* A total never becomes negative.                                         *)
(***************************************************************************)
LEMMA SumIsNatural ==
  ASSUME NEW S, IsFiniteSet(S), NEW w, \A x \in S : w[x] \in Nat
  PROVE  SumOver(w, S) \in Nat
  BY SumIsUnits, FiniteUnits, FS_CardinalityType

(***************************************************************************)
(* The total of two disjoint parts is the sum of their totals.             *)
(***************************************************************************)
LEMMA SumOfSplit ==
  ASSUME NEW S, NEW T, IsFiniteSet(S), IsFiniteSet(T), S \cap T = {},
         NEW w, \A x \in S \cup T : w[x] \in Nat
  PROVE  SumOver(w, S \cup T) = SumOver(w, S) + SumOver(w, T)
  <1>1. Units(w, S \cup T) = Units(w, S) \cup Units(w, T)
    BY DEF Units
  <1>2. Units(w, S) \cap Units(w, T) = {}
    BY DEF Units
  <1>3. IsFiniteSet(S \cup T)
    BY FS_Union, Zenon
  <1>4. IsFiniteSet(Units(w, S)) /\ IsFiniteSet(Units(w, T))
    BY FiniteUnits
  <1>5. Cardinality(Units(w, S) \cup Units(w, T))
          = Cardinality(Units(w, S)) + Cardinality(Units(w, T)) - 0
    BY <1>2, <1>4, FS_Union, FS_EmptySet
  <1>6. /\ SumOver(w, S \cup T) = Cardinality(Units(w, S \cup T))
        /\ SumOver(w, S) = Cardinality(Units(w, S))
        /\ SumOver(w, T) = Cardinality(Units(w, T))
    BY <1>3, SumIsUnits
  <1>7. SumOver(w, S) \in Nat /\ SumOver(w, T) \in Nat
    BY SumIsNatural
  <1>8. Cardinality(Units(w, S)) \in Nat /\ Cardinality(Units(w, T)) \in Nat
    BY <1>6, <1>7
  <1>9. Cardinality(Units(w, S) \cup Units(w, T))
          = Cardinality(Units(w, S)) + Cardinality(Units(w, T))
    BY <1>5, <1>8
  <1> QED BY <1>1, <1>6, <1>9, Zenon

(***************************************************************************)
(* The total of one element is its size.                                   *)
(***************************************************************************)
LEMMA SumOfOne ==
  ASSUME NEW a, NEW w, w[a] \in Nat
  PROVE  SumOver(w, {a}) = w[a]
  <1>1. IsFiniteSet({a}) /\ a \in {a} /\ {a} \ {a} = {}
    BY FS_Singleton, SMTT(40)
  <1>2. \A x \in {a} : w[x] \in Nat
    OBVIOUS
  <1>3. Cardinality(Units(w, {a})) = w[a] + Cardinality(Units(w, {a} \ {a}))
    BY <1>1, <1>2, UnitsOfOneMore
  <1>4. Units(w, {}) = {} /\ Cardinality({}) = 0
    BY FS_EmptySet DEF Units
  <1>5. Cardinality(Units(w, {a})) = w[a]
    BY <1>1, <1>3, <1>4
  <1> QED BY <1>1, <1>2, <1>5, SumIsUnits

(***************************************************************************)
(* Taking a part out of a set takes its total away, which is what the      *)
(* counters do when transactions leave.                                    *)
(***************************************************************************)
LEMMA SumOfPart ==
  ASSUME NEW S, IsFiniteSet(S), NEW T, T \subseteq S,
         NEW w, \A x \in S : w[x] \in Nat
  PROVE  /\ IsFiniteSet(T) /\ IsFiniteSet(S \ T)
         /\ SumOver(w, T) \in Nat /\ SumOver(w, S \ T) \in Nat
         /\ SumOver(w, S) = SumOver(w, T) + SumOver(w, S \ T)
  <1>1. IsFiniteSet(T) /\ IsFiniteSet(S \ T)
    BY FS_Subset
  <1>2. S = T \cup (S \ T) /\ T \cap (S \ T) = {}
    OBVIOUS
  <1>3. SumOver(w, T) \in Nat /\ SumOver(w, S \ T) \in Nat
    BY <1>1, SumIsNatural
  <1>4. SumOver(w, T \cup (S \ T)) = SumOver(w, T) + SumOver(w, S \ T)
    BY <1>1, <1>2, SumOfSplit
  <1> QED BY <1>1, <1>2, <1>3, <1>4, Zenon

(***************************************************************************)
(* The total stays when each element is replaced by one of the same size,  *)
(* as when an update changes other fields of a stored transaction.         *)
(***************************************************************************)
LEMMA SumOfImage ==
  ASSUME NEW S, IsFiniteSet(S), NEW T, NEW f \in Bijection(S, T),
         NEW w, NEW v, \A x \in S : w[x] \in Nat /\ v[f[x]] = w[x]
  PROVE  IsFiniteSet(T) /\ SumOver(v, T) = SumOver(w, S)
  <1> DEFINE b == [p \in Units(w, S) |-> <<f[p[1]], p[2]>>]
  <1>0. /\ f \in [S -> T] /\ \A x, y \in S : f[x] = f[y] => x = y
        /\ \A y \in T : \E x \in S : f[x] = y
    BY DEF Bijection, Injection, Surjection, IsInjective
  <1>1. IsFiniteSet(T)
    BY FS_Bijection DEF ExistsBijection
  <1>2. \A y \in T : v[y] \in Nat
    BY <1>0
  <1>3. \A p : p \in Units(w, S) <=> p \in S \X Nat /\ p[2] \in 1..w[p[1]]
    <2>1. ASSUME NEW p \in S \X Nat, p[2] \in 1..w[p[1]] PROVE p \in Units(w, S)
      <3>1. p \in {p[1]} \X (1..w[p[1]])
        BY <2>1
      <3> QED BY <3>1 DEF Units
    <2>2. ASSUME NEW p \in Units(w, S) PROVE p \in S \X Nat /\ p[2] \in 1..w[p[1]]
      BY DEF Units
    <2> QED BY <2>1, <2>2
  <1>4. \A p : p \in Units(v, T) <=> p \in T \X Nat /\ p[2] \in 1..v[p[1]]
    <2>1. ASSUME NEW p \in T \X Nat, p[2] \in 1..v[p[1]] PROVE p \in Units(v, T)
      <3>1. p \in {p[1]} \X (1..v[p[1]])
        BY <2>1
      <3> QED BY <3>1 DEF Units
    <2>2. ASSUME NEW p \in Units(v, T) PROVE p \in T \X Nat /\ p[2] \in 1..v[p[1]]
      BY <1>2 DEF Units
    <2> QED BY <2>1, <2>2
  <1>5. b \in [Units(w, S) -> Units(v, T)]
    BY <1>0, <1>3, <1>4
  <1>6. ASSUME NEW p \in Units(w, S), NEW q \in Units(w, S), b[p] = b[q] PROVE p = q
    BY <1>0, <1>3, <1>6
  <1>7. ASSUME NEW q \in Units(v, T) PROVE \E p \in Units(w, S) : b[p] = q
    <2>1. q \in T \X Nat /\ q[2] \in 1..v[q[1]]
      BY <1>4
    <2>2. PICK x \in S : f[x] = q[1]
      BY <1>0, <2>1
    <2>3. <<x, q[2]>> \in Units(w, S)
      BY <1>3, <2>1, <2>2
    <2> QED BY <2>1, <2>2, <2>3
  <1>8. b \in Bijection(Units(w, S), Units(v, T))
    BY <1>5, <1>6, <1>7, Zenon DEF Bijection, Injection, Surjection, IsInjective
  <1>9. Cardinality(Units(v, T)) = Cardinality(Units(w, S))
    <2> HIDE DEF b
    <2> QED BY <1>8, FiniteUnits, FS_Bijection DEF ExistsBijection
  <1> QED BY <1>1, <1>2, <1>9, SumIsUnits

(***************************************************************************)
(* Only the weights of the elements themselves matter.                     *)
(***************************************************************************)
LEMMA SumOfRestriction ==
  ASSUME NEW S, IsFiniteSet(S), NEW w, \A x \in S : w[x] \in Nat
  PROVE  SumOver([x \in S |-> w[x]], S) = SumOver(w, S)
  <1> DEFINE v == [x \in S |-> w[x]]
  <1>1. \A x \in S : v[x] = w[x] /\ v[x] \in Nat
    OBVIOUS
  <1> HIDE DEF v
  <1>2. Units(v, S) = Units(w, S)
    BY <1>1 DEF Units
  <1>3. SumOver(v, S) = SumOver(w, S)
    BY <1>1, <1>2, SumIsUnits
  <1> QED BY <1>3 DEF v
=============================================================================
