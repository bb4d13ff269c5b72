--------------------------- MODULE Counting_proofs ---------------------------
(***************************************************************************)
(* What the proofs about pages and lists need of numbers and finite sets:  *)
(* induction over them, that the ranks of n elements are 1 to n, and what  *)
(* the elements of a list at some of its positions are.                    *)
(***************************************************************************)
EXTENDS Lists, FiniteSetsExt, FiniteSetTheorems, SequenceTheorems,
        WellFoundedInduction, TLAPS

(* Of some naturals, one is the least. *)
LEMMA Least ==
    ASSUME NEW S \in SUBSET Nat, S # {}
    PROVE  \E m \in S : \A n \in S : m <= n
<1>1. PICK m \in S : \A n \in S : <<n, m>> \notin OpToRel(<, Nat)
  BY WFMin, NatLessThanWellFounded, Zenon
<1>2. \A n \in S : ~(n < m)
  BY <1>1, Zenon DEF OpToRel
<1> QED
  BY <1>2

(* Induction over the naturals, of which good are some. *)
LEMMA CountingUp ==
    ASSUME NEW good, 0 \in good, \A n \in Nat : n \in good => n + 1 \in good
    PROVE  \A n \in Nat : n \in good
<1> SUFFICES ASSUME NEW b \in Nat, b \notin good PROVE FALSE
  OBVIOUS
<1> DEFINE bad == {n \in Nat : n \notin good}
<1>1. bad \in SUBSET Nat /\ bad # {}
  OBVIOUS
<1> HIDE DEF bad
<1>2. PICK m \in bad : \A n \in bad : m <= n
  BY <1>1, Least
<1> USE DEF bad
<1>3. m \in Nat /\ m # 0
  OBVIOUS
<1>4. m - 1 \in Nat /\ m - 1 \notin bad
  BY <1>2, <1>3
<1>5. (m - 1) + 1 \in good
  BY <1>4
<1> QED
  BY <1>3, <1>5

(* Of some subsets of a finite set, one is minimal. *)
LEMMA MinimalSubset ==
    ASSUME NEW S, IsFiniteSet(S), NEW X, X \subseteq SUBSET S, X # {}
    PROVE  \E T \in X : \A U \in X : U \subseteq T => U = T
<1>1. IsWellFoundedOn(StrictSubsetOrdering(S), SUBSET S)
  BY FS_FiniteSubsetsOfFinite, FS_StrictSubsetOrderingWellFounded, Zenon
<1>2. \E T \in X : \A U \in X : ~(<<U, T>> \in StrictSubsetOrdering(S))
  BY <1>1, WFMin, Zenon
<1> QED
  BY <1>2 DEF StrictSubsetOrdering

(* Induction over the subsets of a finite set, of which good are some. *)
LEMMA SubsetInduction ==
    ASSUME NEW S, IsFiniteSet(S), NEW good, {} \in good,
           \A T \in SUBSET S : T # {} /\ (\A x \in T : T \ {x} \in good) => T \in good
    PROVE  S \in good
<1> SUFFICES ASSUME S \notin good PROVE FALSE
  OBVIOUS
<1>1. PICK T \in {U \in SUBSET S : U \notin good} :
         \A U \in {V \in SUBSET S : V \notin good} : U \subseteq T => U = T
  <2> DEFINE X == {U \in SUBSET S : U \notin good}
  <2>1. X \subseteq SUBSET S /\ X # {}
    OBVIOUS
  <2> HIDE DEF X
  <2>2. \E T \in X : \A U \in X : U \subseteq T => U = T
    BY <2>1, MinimalSubset
  <2> QED
    BY <2>2 DEF X
<1>2. \A x \in T : T \ {x} \in good
  BY <1>1
<1> QED
  BY <1>1, <1>2

(* An element with the greatest key. *)
LEMMA Greatest ==
    ASSUME NEW S, IsFiniteSet(S), S # {}, NEW key \in [S -> Int]
    PROVE  \E m \in S : \A y \in S : key[y] <= key[m]
<1> DEFINE good == {T \in SUBSET S : T = {} \/ \E m \in T : \A y \in T : key[y] <= key[m]}
<1>1. {} \in good
  OBVIOUS
<1>2. ASSUME NEW T \in SUBSET S, T # {}, \A x \in T : T \ {x} \in good
      PROVE  T \in good
  <2>1. PICK x \in T : TRUE
    BY <1>2
  <2>2. CASE T \ {x} = {}
    <3>1. \A y \in T : key[y] <= key[x]
      BY <2>2
    <3> QED
      BY <3>1
  <2>3. CASE T \ {x} # {}
    <3>1. PICK m \in T \ {x} : \A y \in T \ {x} : key[y] <= key[m]
      BY <1>2, <2>3
    <3>2. \E n \in {m, x} : key[m] <= key[n] /\ key[x] <= key[n]
      OBVIOUS
    <3> QED
      BY <3>1, <3>2
  <2> QED
    BY <2>2, <2>3
<1> HIDE DEF good
<1>3. S \in good
  BY <1>1, <1>2, SubsetInduction
<1> QED
  BY <1>3 DEF good

(* The ranks of a finite set's elements by a key are 1 to its cardinality. *)
RankIn(x, S, key) == Cardinality({y \in S : key[y] <= key[x]})

LEMMA Ranks ==
    ASSUME NEW S, IsFiniteSet(S), NEW key \in [S -> Int],
           \A x, y \in S : key[x] = key[y] => x = y,
           NEW k \in 1..Cardinality(S)
    PROVE  \E x \in S : RankIn(x, S, key) = k
<1> DEFINE good == {T \in SUBSET S :
                      \A n \in 1..Cardinality(T) : \E x \in T : RankIn(x, T, key) = n}
<1>1. {} \in good
  BY FS_EmptySet
<1>2. ASSUME NEW T \in SUBSET S, T # {}, \A x \in T : T \ {x} \in good
      PROVE  T \in good
  <2>1. IsFiniteSet(T) /\ Cardinality(T) \in Nat
    BY FS_Subset, FS_CardinalityType
  <2>2. PICK m \in T : \A y \in T : key[y] <= key[m]
    <3>1. PICK f : f = [y \in T |-> key[y]]
      OBVIOUS
    <3>2. f \in [T -> Int]
      BY <3>1
    <3>3. \E m \in T : \A y \in T : f[y] <= f[m]
      BY <2>1, <1>2, <3>2, Greatest
    <3> QED
      BY <3>3, <3>1
  <2>4. Cardinality(T \ {m}) = Cardinality(T) - 1
    BY <2>1, FS_RemoveElement
  <2>5. ASSUME NEW n \in 1..Cardinality(T)
        PROVE  \E x \in T : RankIn(x, T, key) = n
    <3>1. CASE n = Cardinality(T)
      <4>1. {y \in T : key[y] <= key[m]} = T
        BY <2>2
      <4> QED
        BY <3>1, <4>1 DEF RankIn
    <3>2. CASE n # Cardinality(T)
      <4>1. n \in 1..Cardinality(T \ {m})
        BY <3>2, <2>1, <2>4
      <4>2. PICK x \in T \ {m} : RankIn(x, T \ {m}, key) = n
        BY <1>2, <4>1
      <4>3. ~(key[m] <= key[x])
        BY <4>2, <2>2
      <4>4. {y \in T : key[y] <= key[x]} = {y \in T \ {m} : key[y] <= key[x]}
        BY <4>3
      <4> QED
        BY <4>2, <4>4 DEF RankIn
    <3> QED
      BY <3>1, <3>2
  <2> QED
    BY <2>5
<1> HIDE DEF good
<1>3. S \in good
  BY <1>1, <1>2, SubsetInduction
<1> QED
  BY <1>3 DEF good

-------------------------------------------------------------------------------
(* The k-th element at some positions is the one at nth[k].                  *)
Numbers(nth, seq, positions) ==
    /\ nth \in [1..Cardinality(positions) -> positions]
    /\ \A k \in 1..Cardinality(positions) : Elements(seq, positions)[k] = seq[nth[k]]
    /\ \A k, l \in 1..Cardinality(positions) : nth[k] = nth[l] => k = l
    /\ \A i \in positions : \E k \in 1..Cardinality(positions) : nth[k] = i

(* The elements at some positions are those of the sequence there, each once. *)
LEMMA ElementsOnce ==
    ASSUME NEW seq, NEW positions, positions \subseteq Nat, IsFiniteSet(positions)
    PROVE  \E nth : Numbers(nth, seq, positions)
<1> DEFINE n == Cardinality(positions)
           upTo(i) == {j \in positions : j <= i}
           nth(k) == CHOOSE i \in positions : Cardinality(upTo(i)) = k
<1>1. n \in Nat /\ (n = 0 <=> positions = {})
  BY FS_CardinalityType, FS_EmptySet
<1>2. ASSUME NEW k \in 1..n PROVE nth(k) \in positions /\ Cardinality(upTo(nth(k))) = k
  <2>1. PICK key : key = [i \in positions |-> i]
    OBVIOUS
  <2>2. key \in [positions -> Int] /\ \A i \in positions : key[i] = i
    BY <2>1
  <2> HIDE DEF nth
  <2>3. \A x, y \in positions : key[x] = key[y] => x = y
    BY <2>2
  <2>4. k \in 1..Cardinality(positions)
    BY <1>2
  <2>5. PICK i \in positions : RankIn(i, positions, key) = k
    BY <2>2, <2>3, <2>4, Ranks
  <2>6. {j \in positions : key[j] <= key[i]} = {j \in positions : j <= i}
    BY <2>2
  <2>7. Cardinality(upTo(i)) = k
    BY <2>5, <2>6 DEF RankIn
  <2> HIDE DEF upTo
  <2> USE DEF nth
  <2> QED
    BY <2>7
<1>3. ASSUME NEW i \in positions, NEW j \in positions, Cardinality(upTo(i)) = Cardinality(upTo(j))
      PROVE  i = j
  <2>1. ASSUME NEW x \in positions, NEW y \in positions, x < y
        PROVE  Cardinality(upTo(x)) # Cardinality(upTo(y))
    <3>1. IsFiniteSet(upTo(y))
      BY FS_Subset
    <3>2. /\ \A p \in positions : p <= x => p <= y
          /\ y <= y /\ ~(y <= x)
      <4>1. x \in Int /\ y \in Int /\ \A p \in positions : p \in Int
        OBVIOUS
      <4> QED
        BY <2>1, <4>1
    <3>3. upTo(x) \subseteq upTo(y) /\ y \in upTo(y) /\ y \notin upTo(x)
      BY <3>2
    <3> HIDE DEF upTo
    <3> QED
      BY <3>1, <3>3, FS_Subset
  <2> HIDE DEF upTo
  <2>2. i < j \/ j < i \/ i = j
    OBVIOUS
  <2> QED
    BY <1>3, <2>1, <2>2
<1>4. ASSUME NEW i \in positions PROVE Cardinality(upTo(i)) \in 1..n
  <2>1. IsFiniteSet(upTo(i)) /\ i \in upTo(i) /\ upTo(i) \subseteq positions
    BY FS_Subset
  <2> HIDE DEF upTo
  <2>2. Cardinality(upTo(i)) \in Nat /\ Cardinality(upTo(i)) <= n
    BY <2>1, FS_Subset, FS_CardinalityType
  <2>3. Cardinality(upTo(i)) # 0
    BY <2>1, FS_EmptySet
  <2> QED
    BY <2>2, <2>3, <1>1
<1>5. Elements(seq, positions) = [k \in 1..n |-> seq[nth(k)]]
  BY DEF Elements
<1> HIDE DEF nth, n
<1>6. PICK f : f = [k \in 1..n |-> nth(k)]
  OBVIOUS
<1>7. f \in [1..n -> positions] /\ \A k \in 1..n : f[k] = nth(k)
  BY <1>2, <1>6
<1>8. \A k, l \in 1..n : f[k] = f[l] => k = l
  <2> HIDE DEF upTo
  <2> QED
    BY <1>2, <1>7
<1>9. \A i \in positions : \E k \in 1..n : f[k] = i
  <2> SUFFICES ASSUME NEW i \in positions PROVE \E k \in 1..n : f[k] = i
    OBVIOUS
  <2> DEFINE k == Cardinality(upTo(i))
  <2>1. k \in 1..n
    BY <1>4
  <2>2. nth(k) \in positions /\ Cardinality(upTo(nth(k))) = k
    BY <1>2, <2>1
  <2>3. nth(k) = i
    <3> HIDE DEF upTo
    <3> QED
      BY <2>2, <1>3
  <2> HIDE DEF k
  <2> QED
    BY <2>1, <2>3, <1>7
<1>10. \A k \in 1..n : Elements(seq, positions)[k] = seq[f[k]]
  BY <1>5, <1>7
<1> QED
  BY <1>7, <1>8, <1>9, <1>10 DEF n, Numbers

(* They are as many as there are positions. *)
LEMMA ElementsFrom ==
    ASSUME NEW seq, NEW positions, positions \subseteq Nat, IsFiniteSet(positions)
    PROVE  /\ Cardinality(positions) \in Nat
           /\ Elements(seq, positions) = <<>> <=> Cardinality(positions) = 0
           /\ Len(Elements(seq, positions)) = Cardinality(positions)
           /\ DOMAIN Elements(seq, positions) = 1..Cardinality(positions)
           /\ \A k \in 1..Cardinality(positions) :
                  \E i \in positions : Elements(seq, positions)[k] = seq[i]
<1> DEFINE n == Cardinality(positions)
<1>1. n \in Nat
  BY FS_CardinalityType
<1>2. \A k \in 1..n : \E i \in positions : Elements(seq, positions)[k] = seq[i]
  <2>1. PICK nth : Numbers(nth, seq, positions)
    BY ElementsOnce
  <2> QED
    BY <2>1 DEF Numbers
<1>3. DOMAIN Elements(seq, positions) = 1..n
  BY DEF Elements
<1>4. PICK V : V = {Elements(seq, positions)[k] : k \in 1..n}
  OBVIOUS
<1>5. Elements(seq, positions) \in Seq(V)
  <2>1. Elements(seq, positions) = [k \in 1..n |-> Elements(seq, positions)[k]]
    BY DEF Elements
  <2> QED
    BY <1>1, <1>4, <2>1
<1>6. Len(Elements(seq, positions)) = n
  BY <1>1, <1>3, <1>5
<1>7. Elements(seq, positions) = <<>> <=> n = 0
  BY <1>5, <1>6, <1>1, EmptySeq
<1> QED
  BY <1>1, <1>2, <1>3, <1>6, <1>7

(* Together they are what the sequence has there. *)
LEMMA ElementsRange ==
    ASSUME NEW seq, NEW positions, positions \subseteq Nat, IsFiniteSet(positions)
    PROVE  /\ Elements(seq, positions) \in Seq({seq[i] : i \in positions})
           /\ \A i \in positions :
                  \E k \in DOMAIN Elements(seq, positions) : Elements(seq, positions)[k] = seq[i]
<1> DEFINE n == Cardinality(positions)
<1>1. PICK V : V = {seq[i] : i \in positions}
  OBVIOUS
<1>2. PICK e : e = Elements(seq, positions)
  OBVIOUS
<1>3. n \in Nat /\ DOMAIN e = 1..n
  BY <1>2, ElementsFrom
<1>4. e = [k \in 1..n |-> e[k]]
  BY <1>2 DEF Elements
<1>5. PICK nth : Numbers(nth, seq, positions)
  BY ElementsOnce
<1>6. /\ nth \in [1..n -> positions]
      /\ \A k \in 1..n : e[k] = seq[nth[k]]
      /\ \A i \in positions : \E k \in 1..n : nth[k] = i
  BY <1>5, <1>2 DEF Numbers
<1> HIDE DEF n
<1>7. \A k \in 1..n : e[k] \in V
  BY <1>1, <1>6
<1>8. e \in Seq(V)
  BY <1>3, <1>4, <1>7
<1>9. \A i \in positions : \E k \in DOMAIN e : e[k] = seq[i]
  BY <1>3, <1>6
<1> QED
  BY <1>1, <1>2, <1>8, <1>9

-------------------------------------------------------------------------------
(* The sum that the fold of the community module computes, as a recursion    *)
(* that picks the elements one by one.                                       *)
Picked(T) == CHOOSE x \in T : TRUE

AddPicked(f, g) == [T \in SUBSET DOMAIN f |->
                      IF T = {} THEN 0 ELSE f[Picked(T)] + g[T \ {Picked(T)}]]
PartialSums(f) == CHOOSE g : g = AddPicked(f, g)

LEMMA SumIs == \A f : SumFunction(f) = PartialSums(f)[DOMAIN f]
BY DEF SumFunction, SumFunctionOnSet, FoldFunctionOnSet, MapThenFoldSet,
       Picked, AddPicked, PartialSums

(* The union of some of the sets of a family. *)
Together(F, T) == UNION {F[x] : x \in T}

LEMMA TogetherRemove ==
    ASSUME NEW F, NEW T, NEW x \in T, IsFiniteSet(F[x]), IsFiniteSet(Together(F, T \ {x})),
           \A y \in T \ {x} : F[x] \intersect F[y] = {}
    PROVE  /\ IsFiniteSet(Together(F, T))
           /\ Cardinality(Together(F, T)) = Cardinality(F[x]) + Cardinality(Together(F, T \ {x}))
<1>1. Together(F, T) = F[x] \union Together(F, T \ {x})
  BY DEF Together
<1>2. F[x] \intersect Together(F, T \ {x}) = {}
  BY DEF Together
<1>3. Cardinality(F[x]) \in Nat /\ Cardinality(Together(F, T \ {x})) \in Nat
  BY FS_CardinalityType
<1>4. PICK U : U = Together(F, T \ {x})
  OBVIOUS
<1>5. /\ IsFiniteSet(F[x] \union U)
      /\ Cardinality(F[x] \union U) = Cardinality(F[x]) + Cardinality(U) - Cardinality(F[x] \intersect U)
  BY <1>4, FS_Union
<1>6. Cardinality(F[x] \intersect U) = 0
  BY <1>2, <1>4, FS_EmptySet
<1> QED
  BY <1>1, <1>3, <1>4, <1>5, <1>6

(* A union of disjoint sets has as many elements as they have together. *)
LEMMA CountTogether ==
    ASSUME NEW S, IsFiniteSet(S), NEW F, \A x \in S : IsFiniteSet(F[x]),
           \A x, y \in S : x # y => F[x] \intersect F[y] = {},
           NEW f, DOMAIN f = S, \A x \in S : f[x] = Cardinality(F[x])
    PROVE  IsFiniteSet(Together(F, S)) /\ Cardinality(Together(F, S)) = SumFunction(f)
<1>1. {} = Together(F, {})
  BY DEF Together
<1>2. \A T \in SUBSET S : IsFiniteSet(Together(F, T))
  <2> DEFINE good == {T \in SUBSET S : IsFiniteSet(Together(F, T))}
  <2> SUFFICES ASSUME NEW R \in SUBSET S PROVE R \in good
    OBVIOUS
  <2>1. {} \in good
    BY <1>1, FS_EmptySet
  <2>2. ASSUME NEW T \in SUBSET R, T # {}, \A x \in T : T \ {x} \in good
        PROVE  T \in good
    <3>1. PICK x \in T : TRUE
      BY <2>2
    <3>2. /\ IsFiniteSet(F[x]) /\ IsFiniteSet(Together(F, T \ {x}))
          /\ \A y \in T \ {x} : F[x] \intersect F[y] = {}
      BY <2>2, <3>1
    <3> QED
      BY <3>1, <3>2, TogetherRemove
  <2>3. IsFiniteSet(R)
    BY FS_Subset
  <2> HIDE DEF good
  <2> QED
    BY <2>1, <2>2, <2>3, SubsetInduction
<1>3. ASSUME NEW T \in SUBSET S, NEW x \in T
      PROVE  Cardinality(Together(F, T)) = f[x] + Cardinality(Together(F, T \ {x}))
  <2>1. \A y \in T \ {x} : F[x] \intersect F[y] = {}
    OBVIOUS
  <2>2. IsFiniteSet(F[x]) /\ IsFiniteSet(Together(F, T \ {x}))
    BY <1>2
  <2> QED
    BY <2>1, <2>2, TogetherRemove
<1> DEFINE sum == PartialSums(f)
<1>4. sum = AddPicked(f, sum)
  <2>1. PICK g : g = [T \in SUBSET S |-> Cardinality(Together(F, T))]
    OBVIOUS
  <2>2. ASSUME NEW T \in SUBSET S
        PROVE  g[T] = IF T = {} THEN 0 ELSE f[Picked(T)] + g[T \ {Picked(T)}]
    <3>1. CASE T = {}
      BY <2>1, <3>1, <1>1, FS_EmptySet
    <3>2. CASE T # {}
      <4>1. Picked(T) \in T
        BY <3>2 DEF Picked
      <4>2. T \ {Picked(T)} \in SUBSET S
        OBVIOUS
      <4> QED
        BY <3>2, <4>1, <4>2, <2>1, <1>3
    <3> QED
      BY <3>1, <3>2
  <2>3. g = AddPicked(f, g)
    BY <2>1, <2>2 DEF AddPicked
  <2> QED
    BY <2>3 DEF PartialSums
<1>5. \A T \in SUBSET S : sum[T] = IF T = {} THEN 0 ELSE f[Picked(T)] + sum[T \ {Picked(T)}]
  <2> HIDE DEF sum
  <2> QED
    BY <1>4 DEF AddPicked
<1>6. sum[S] = Cardinality(Together(F, S))
  <2> DEFINE good == {T \in SUBSET S : sum[T] = Cardinality(Together(F, T))}
  <2> HIDE DEF sum
  <2>1. {} \in good
    BY <1>1, <1>5, FS_EmptySet
  <2>2. ASSUME NEW T \in SUBSET S, T # {}, \A x \in T : T \ {x} \in good
        PROVE  T \in good
    <3>1. Picked(T) \in T
      BY <2>2 DEF Picked
    <3>2. sum[T \ {Picked(T)}] = Cardinality(Together(F, T \ {Picked(T)}))
      BY <2>2, <3>1
    <3>3. sum[T] = f[Picked(T)] + sum[T \ {Picked(T)}]
      BY <2>2, <1>5
    <3> QED
      BY <3>1, <3>2, <3>3, <1>3
  <2> HIDE DEF good
  <2>3. S \in good
    BY <2>1, <2>2, SubsetInduction
  <2> QED
    BY <2>3 DEF good
<1>7. SumFunction(f) = sum[S]
  BY SumIs
<1> QED
  BY <1>2, <1>6, <1>7
===============================================================================
