------------------------------- MODULE Numbers -------------------------------
(* Least and greatest elements of sets of natural numbers, induction over the *)
(* subsets of a finite set, and what the elements of a finite set weigh       *)
(* together.                                                                  *)
EXTENDS Integers, WellFoundedInduction, FiniteSetTheorems, TLAPS

LEMMA MinimalIsLeast ==
  ASSUME NEW R, NEW T \in SUBSET Nat,
         \E x \in T : \A y \in T : ~ (<<y, x>> \in R),
         \A x, y \in Nat : y < x => <<y, x>> \in R
  PROVE  \E x \in T : \A y \in T : x <= y
<1>1. PICK x \in T : \A y \in T : ~ (<<y, x>> \in R)
  OBVIOUS
<1>2. ASSUME NEW y \in T PROVE x <= y
  <2>1. ~ (y < x)
    BY <1>1
  <2>2. x \in Nat /\ y \in Nat
    OBVIOUS
  <2> QED
    BY <2>1, <2>2
<1> QED
  BY <1>2

LEMMA LeastElement ==
  ASSUME NEW T \in SUBSET Nat, T # {}
  PROVE  \E x \in T : \A y \in T : x <= y
<1>1. \E x \in T : \A y \in T : ~ (<<y, x>> \in OpToRel(<, Nat))
  BY WFMin, NatLessThanWellFounded
<1>2. \A x, y \in Nat : y < x => <<y, x>> \in OpToRel(<, Nat)
  BY DEF OpToRel
<1> QED
  BY <1>1, <1>2, MinimalIsLeast, Zenon

(* A set of numbers with a bound has a greatest element. *)
LEMMA GreatestElement ==
  ASSUME NEW T \in SUBSET Nat, T # {}, NEW n \in Nat, \A t \in T : t <= n
  PROVE  \E x \in T : \A t \in T : x >= t
<1> DEFINE gaps == {n - t : t \in T}
<1>1. gaps \in SUBSET Nat
  <2>1. SUFFICES ASSUME NEW t \in T PROVE n - t \in Nat
    OBVIOUS
  <2>2. t \in Nat /\ t <= n
    OBVIOUS
  <2> QED
    BY <2>2
<1>2. gaps # {}
  OBVIOUS
<1> HIDE DEF gaps
<1>3. PICK g \in gaps : \A h \in gaps : g <= h
  BY <1>1, <1>2, LeastElement
<1>4. PICK x \in T : g = n - x
  BY <1>3 DEF gaps
<1>5. ASSUME NEW t \in T PROVE x >= t
  <2>1. n - t \in gaps
    BY DEF gaps
  <2>2. n - x <= n - t
    BY <1>3, <1>4, <2>1
  <2>3. x \in Nat /\ t \in Nat
    OBVIOUS
  <2> QED
    BY <2>2, <2>3
<1> QED
  BY <1>5

-----------------------------------------------------------------------------
(* Induction over the subsets of a finite set: what holds of the empty set   *)
(* and of a set whenever it holds of the set without one element.            *)
LEMMA SubsetInduction ==
  ASSUME NEW S, IsFiniteSet(S), NEW Good, {} \in Good,
         \A T \in SUBSET S : T # {} /\ (\A x \in T : T \ {x} \in Good) => T \in Good
  PROVE  \A T \in SUBSET S : T \in Good
<1> DEFINE bad == {T \in SUBSET S : T \notin Good}
           sizes == {Cardinality(T) : T \in bad}
<1>1. SUFFICES ASSUME bad # {} PROVE FALSE
  OBVIOUS
<1>2. \A T \in SUBSET S : IsFiniteSet(T) /\ Cardinality(T) \in Nat
  BY FS_Subset, FS_CardinalityType
<1>3. PICK n \in sizes : \A m \in sizes : n <= m
  <2>1. sizes \in SUBSET Nat /\ sizes # {}
    BY <1>1, <1>2
  <2> HIDE DEF sizes
  <2> QED
    BY <2>1, LeastElement
<1>4. PICK T \in bad : n = Cardinality(T)
  BY <1>3
<1>5. T # {}
  BY <1>4
<1>6. ASSUME NEW x \in T PROVE T \ {x} \in Good
  <2>1. T \ {x} \in SUBSET S /\ Cardinality(T \ {x}) = Cardinality(T) - 1 /\ Cardinality(T) \in Nat
    BY <1>2, <1>4, FS_RemoveElement
  <2>2. ~(n <= Cardinality(T \ {x}))
    BY <1>4, <2>1
  <2>3. T \ {x} \notin bad
    BY <1>3, <2>2
  <2> QED
    BY <2>1, <2>3
<1> QED
  BY <1>4, <1>5, <1>6

-----------------------------------------------------------------------------
(* Sums over finite sets: g adds up the weights of every set of D, taking    *)
(* its elements in the order in which they are chosen.                       *)
Chosen(s) == CHOOSE x \in s : TRUE

Adds(g, D, w) ==
  g = [s \in D |-> IF s = {} THEN 0 ELSE w[Chosen(s)] + g[s \ {Chosen(s)}]]

LEMMA ChosenIsIn == \A s : s # {} => Chosen(s) \in s
  BY DEF Chosen

(* There is such a g: one for the sets of up to n elements gives one for     *)
(* those of n + 1.                                                           *)
UpTo(S, n) == {s \in SUBSET S : Cardinality(s) <= n}

LEMMA AddsOneMore ==
  ASSUME NEW S, IsFiniteSet(S), NEW w, NEW n \in Nat, NEW g, Adds(g, UpTo(S, n), w)
  PROVE  \E h : Adds(h, UpTo(S, n + 1), w)
<1> DEFINE h == [s \in UpTo(S, n + 1) |-> IF s = {} THEN 0 ELSE w[Chosen(s)] + g[s \ {Chosen(s)}]]
<1>1. \A s \in UpTo(S, n + 1) : s # {} => s \ {Chosen(s)} \in UpTo(S, n) /\ s \ {Chosen(s)} \in UpTo(S, n + 1)
  <2> SUFFICES ASSUME NEW s \in UpTo(S, n + 1), s # {}
               PROVE  s \ {Chosen(s)} \in UpTo(S, n) /\ s \ {Chosen(s)} \in UpTo(S, n + 1)
    OBVIOUS
  <2>1. s \in SUBSET S /\ IsFiniteSet(s) /\ Cardinality(s) \in Nat /\ Cardinality(s) <= n + 1 /\ Chosen(s) \in s
    BY FS_Subset, FS_CardinalityType, ChosenIsIn DEF UpTo
  <2>2. Cardinality(s \ {Chosen(s)}) = Cardinality(s) - 1
    BY <2>1, FS_RemoveElement
  <2> QED
    BY <2>1, <2>2 DEF UpTo
<1>2. \A s \in UpTo(S, n) : s \in UpTo(S, n + 1)
  <2>1. \A s \in UpTo(S, n) : s \in SUBSET S /\ Cardinality(s) \in Nat /\ Cardinality(s) <= n
    BY FS_Subset, FS_CardinalityType DEF UpTo
  <2> QED
    BY <2>1 DEF UpTo
<1>3. \A s \in UpTo(S, n) : h[s] = g[s]
  <2>1. \A s \in UpTo(S, n) : g[s] = IF s = {} THEN 0 ELSE w[Chosen(s)] + g[s \ {Chosen(s)}]
    BY Zenon DEF Adds
  <2> QED
    BY <1>2, <2>1
<1>4. h = [s \in UpTo(S, n + 1) |-> IF s = {} THEN 0 ELSE w[Chosen(s)] + h[s \ {Chosen(s)}]]
  <2>1. \A s \in UpTo(S, n + 1) : s # {} => h[s \ {Chosen(s)}] = g[s \ {Chosen(s)}]
    BY <1>1, <1>3
  <2>2. \A s \in UpTo(S, n + 1) : h[s] = IF s = {} THEN 0 ELSE w[Chosen(s)] + h[s \ {Chosen(s)}]
    BY <2>1
  <2>3. h = [s \in UpTo(S, n + 1) |-> h[s]]
    OBVIOUS
  <2> HIDE DEF h
  <2> QED
    BY <2>2, <2>3
<1> QED
  BY <1>4 DEF Adds

LEMMA AddsExists ==
  ASSUME NEW S, IsFiniteSet(S), NEW w
  PROVE  \E g : Adds(g, SUBSET S, w)
<1> DEFINE bad == {n \in Nat : ~ \E g : Adds(g, UpTo(S, n), w)}
<1>1. 0 \notin bad
  <2> DEFINE g == [s \in UpTo(S, 0) |-> 0]
  <2>1. \A s \in UpTo(S, 0) : s = {}
    <3> SUFFICES ASSUME NEW s \in UpTo(S, 0) PROVE s = {}
      OBVIOUS
    <3>1. IsFiniteSet(s) /\ Cardinality(s) \in Nat /\ Cardinality(s) <= 0
      BY FS_Subset, FS_CardinalityType DEF UpTo
    <3>2. Cardinality(s) = 0
      BY <3>1
    <3> QED
      BY <3>1, <3>2, FS_EmptySet
  <2>2. Adds(g, UpTo(S, 0), w)
    BY <2>1 DEF Adds
  <2> QED
    BY <2>2
<1>2. bad = {}
  <2> SUFFICES ASSUME bad # {} PROVE FALSE
    OBVIOUS
  <2>1. PICK n \in bad : \A m \in bad : n <= m
    BY LeastElement
  <2>2. n \in Nat /\ n - 1 \in Nat /\ n - 1 \notin bad
    BY <1>1, <2>1
  <2>3. PICK g : Adds(g, UpTo(S, n - 1), w)
    BY <2>2
  <2>4. \E h : Adds(h, UpTo(S, n), w)
    <3>1. (n - 1) + 1 = n
      BY <2>2
    <3>2. \E h : Adds(h, UpTo(S, (n - 1) + 1), w)
      BY <2>2, <2>3, AddsOneMore
    <3> QED
      BY <3>1, <3>2
  <2> QED
    BY <2>1, <2>4
<1>3. UpTo(S, Cardinality(S)) = SUBSET S
  BY FS_Subset DEF UpTo
<1>4. Cardinality(S) \in Nat
  BY FS_CardinalityType
<1> HIDE DEF bad
<1>5. \E g : Adds(g, UpTo(S, Cardinality(S)), w)
  BY <1>2, <1>4 DEF bad
<1> QED
  BY <1>3, <1>5

(* w gives every element of S a weight; g adds the weight of each element of *)
(* T, whichever is taken first.                                              *)
Weighs(w, S) == \A x \in S : w[x] \in Nat
Splits(g, w, T) == g[T] \in Nat /\ \A x \in T : g[T] = w[x] + g[T \ {x}]

LEMMA AddsOne ==
  ASSUME NEW S, NEW w, NEW g, Adds(g, SUBSET S, w)
  PROVE  /\ g[{}] = 0
         /\ \A T \in SUBSET S : T # {} => g[T] = w[Chosen(T)] + g[T \ {Chosen(T)}]
<1>1. \A T \in SUBSET S : g[T] = IF T = {} THEN 0 ELSE w[Chosen(T)] + g[T \ {Chosen(T)}]
  BY Zenon DEF Adds
<1> QED
  BY <1>1

LEMMA AddsEach ==
  ASSUME NEW S, IsFiniteSet(S), NEW w, Weighs(w, S), NEW g, Adds(g, SUBSET S, w)
  PROVE  \A T \in SUBSET S : Splits(g, w, T)
<1> DEFINE Good == {T \in SUBSET S : \A U \in SUBSET T : Splits(g, w, U)}
<1>1. /\ g[{}] = 0
      /\ \A T \in SUBSET S : T # {} => g[T] = w[Chosen(T)] + g[T \ {Chosen(T)}]
  BY AddsOne
<1>2. {} \in Good
  <2>1. Splits(g, w, {})
    BY <1>1 DEF Splits
  <2>2. \A U \in SUBSET {} : U = {}
    OBVIOUS
  <2> QED
    BY <2>1, <2>2
<1>3. ASSUME NEW T \in SUBSET S, T # {}, \A x \in T : T \ {x} \in Good PROVE T \in Good
  <2>1. \A x \in T : \A U \in SUBSET (T \ {x}) : Splits(g, w, U)
    BY <1>3
  <2> DEFINE c == Chosen(T)
  <2>2. c \in T /\ c \in S /\ w[c] \in Nat /\ g[T] = w[c] + g[T \ {c}]
    BY <1>1, <1>3, ChosenIsIn DEF Weighs
  <2> HIDE DEF c, Good
  <2>3. g[T \ {c}] \in Nat
    BY <2>1, <2>2 DEF Splits
  <2>4. ASSUME NEW x \in T, x # c PROVE g[T] = w[x] + g[T \ {x}]
    <3>1. (T \ {x}) \ {c} = (T \ {c}) \ {x}
      OBVIOUS
    <3> DEFINE rest == (T \ {c}) \ {x}
    <3>2. x \in T \ {c} /\ c \in T \ {x}
      BY <2>2, <2>4
    <3>3. g[T \ {c}] = w[x] + g[rest] /\ g[rest] \in Nat
      BY <2>1, <2>2, <3>2 DEF Splits
    <3>4. g[T \ {x}] = w[c] + g[rest]
      BY <2>1, <2>2, <3>1, <3>2 DEF Splits
    <3>5. w[x] \in Nat
      BY DEF Weighs
    <3> QED
      BY <2>2, <3>3, <3>4, <3>5
  <2>5. Splits(g, w, T)
    <3>1. g[T] \in Nat
      BY <2>2, <2>3
    <3>2. \A x \in T : g[T] = w[x] + g[T \ {x}]
      BY <2>2, <2>4
    <3> QED
      BY <3>1, <3>2 DEF Splits
  <2>6. \A U \in SUBSET T : U # T => \E x \in T : U \in SUBSET (T \ {x})
    OBVIOUS
  <2>7. \A U \in SUBSET T : Splits(g, w, U)
    BY <2>1, <2>5, <2>6
  <2> QED
    BY <2>7 DEF Good
<1>4. \A T \in SUBSET S : T \in Good
  <2> HIDE DEF Good
  <2> QED
    BY <1>2, <1>3, SubsetInduction
<1> QED
  BY <1>4

(* The total weight of a finite set.                                         *)
Total(w, S) == (CHOOSE g : Adds(g, SUBSET S, w))[S]
Totals(g, w, S) == g[S] = Total(w, S)
Additive(w, S) == Total(w, S) \in Nat /\ \A x \in S : Total(w, S) = w[x] + Total(w, S \ {x})

LEMMA TotalIs ==
  ASSUME NEW S, IsFiniteSet(S), NEW w, Weighs(w, S),
         NEW g, Adds(g, SUBSET S, w), NEW T, T \subseteq S
  PROVE  Totals(g, w, T)
<1> DEFINE h == CHOOSE h : Adds(h, SUBSET T, w)
<1>1. IsFiniteSet(T) /\ Weighs(w, T)
  BY FS_Subset DEF Weighs
<1>2. Adds(h, SUBSET T, w)
  <2>1. \E f : Adds(f, SUBSET T, w)
    BY <1>1, AddsExists
  <2> QED
    BY <2>1
<1>3. h[T] = Total(w, T)
  BY Zenon DEF Total
<1> HIDE DEF h
<1>4. \A U \in SUBSET T : Splits(g, w, U)
  <2>1. \A U \in SUBSET T : U \in SUBSET S
    OBVIOUS
  <2> QED
    BY <2>1, AddsEach
<1>5. \A U \in SUBSET T : Splits(h, w, U)
  BY <1>1, <1>2, AddsEach
<1>6. g[{}] = 0 /\ h[{}] = 0
  BY <1>2, AddsOne
<1> DEFINE Good == {U \in SUBSET T : g[U] = h[U]}
<1>7. {} \in Good
  BY <1>6
<1>8. ASSUME NEW U \in SUBSET T, U # {}, \A x \in U : U \ {x} \in Good PROVE U \in Good
  <2>1. PICK x \in U : TRUE
    BY <1>8
  <2>2. g[U] = w[x] + g[U \ {x}] /\ h[U] = w[x] + h[U \ {x}]
    BY <1>4, <1>5 DEF Splits
  <2>3. g[U \ {x}] = h[U \ {x}]
    BY <1>8
  <2> QED
    BY <2>2, <2>3
<1>9. \A U \in SUBSET T : U \in Good
  <2> HIDE DEF Good
  <2> QED
    BY <1>1, <1>7, <1>8, SubsetInduction
<1> QED
  BY <1>3, <1>9 DEF Totals

(* Whichever element is taken out, the total loses its weight.               *)
LEMMA TotalAdds ==
  ASSUME NEW S, IsFiniteSet(S), NEW w, Weighs(w, S)
  PROVE  \A T \in SUBSET S : IsFiniteSet(T) /\ Weighs(w, T) /\ Additive(w, T)
<1>1. PICK g : Adds(g, SUBSET S, w)
  BY AddsExists
<1>2. \A T \in SUBSET S : g[T] = Total(w, T)
  <2>1. \A T \in SUBSET S : Totals(g, w, T)
    BY <1>1, TotalIs
  <2> QED
    BY <2>1 DEF Totals
<1>3. \A T \in SUBSET S : Splits(g, w, T)
  BY <1>1, AddsEach
<1> SUFFICES ASSUME NEW T \in SUBSET S
             PROVE  IsFiniteSet(T) /\ Weighs(w, T) /\ Additive(w, T)
  OBVIOUS
<1>4. g[T] \in Nat /\ \A x \in T : g[T] = w[x] + g[T \ {x}]
  BY <1>3 DEF Splits
<1>5. g[T] = Total(w, T) /\ \A x \in T : g[T \ {x}] = Total(w, T \ {x})
  BY <1>2
<1>6. Additive(w, T)
  <2>1. Total(w, T) \in Nat
    BY <1>4, <1>5
  <2>2. ASSUME NEW x \in T PROVE Total(w, T) = w[x] + Total(w, T \ {x})
    BY <1>4, <1>5
  <2> QED
    BY <2>1, <2>2 DEF Additive
<1> QED
  BY <1>6, FS_Subset DEF Weighs

LEMMA TotalOfNone ==
  ASSUME NEW w
  PROVE  Total(w, {}) = 0
<1>1. IsFiniteSet({}) /\ Weighs(w, {}) /\ {} \subseteq {}
  BY FS_EmptySet DEF Weighs
<1>2. PICK g : Adds(g, SUBSET {}, w)
  BY <1>1, AddsExists
<1>3. g[{}] = Total(w, {})
  <2>1. Totals(g, w, {})
    BY <1>1, <1>2, TotalIs
  <2> QED
    BY <2>1 DEF Totals
<1> QED
  BY <1>2, <1>3, AddsOne

(* Only the weights of the elements matter.                                  *)
LEMMA TotalSame ==
  ASSUME NEW S, IsFiniteSet(S), NEW w, NEW v, Weighs(w, S), \A x \in S : w[x] = v[x]
  PROVE  Total(w, S) = Total(v, S)
<1> DEFINE Good == {U \in SUBSET S : Total(w, U) = Total(v, U)}
<1>1. Weighs(v, S)
  BY DEF Weighs
<1>2. \A U \in SUBSET S : Additive(w, U) /\ Additive(v, U)
  BY <1>1, TotalAdds
<1>3. {} \in Good
  BY TotalOfNone
<1>4. ASSUME NEW U \in SUBSET S, U # {}, \A x \in U : U \ {x} \in Good PROVE U \in Good
  <2>1. PICK x \in U : TRUE
    BY <1>4
  <2>2. Total(w, U) = w[x] + Total(w, U \ {x}) /\ Total(v, U) = v[x] + Total(v, U \ {x})
    BY <1>2 DEF Additive
  <2>3. Total(w, U \ {x}) = Total(v, U \ {x}) /\ w[x] = v[x]
    BY <1>4
  <2> QED
    BY <2>2, <2>3
<1>5. \A U \in SUBSET S : U \in Good
  <2> HIDE DEF Good
  <2> QED
    BY <1>3, <1>4, SubsetInduction
<1> QED
  BY <1>5

(* Part of a set weighs no more than the whole, and the same when the rest   *)
(* weighs nothing.                                                           *)
LEMMA TotalOfPart ==
  ASSUME NEW S, IsFiniteSet(S), NEW w, Weighs(w, S), NEW T, T \subseteq S
  PROVE  /\ Total(w, T) <= Total(w, S)
         /\ (\A x \in S \ T : w[x] = 0) => Total(w, T) = Total(w, S)
<1> DEFINE Fine(U) == /\ Total(w, U \cap T) <= Total(w, U)
                      /\ (\A x \in S \ T : w[x] = 0) => Total(w, U \cap T) = Total(w, U)
           Good == {U \in SUBSET S : Fine(U)}
<1>1. \A U \in SUBSET S : Additive(w, U)
  BY TotalAdds
<1>2. {} \in Good
  <2>1. {} \cap T = {} /\ {} \in SUBSET S
    OBVIOUS
  <2>2. Fine({})
    BY <2>1, TotalOfNone
  <2> HIDE DEF Fine
  <2> QED
    BY <2>1, <2>2
<1>3. ASSUME NEW U \in SUBSET S, U # {}, \A x \in U : U \ {x} \in Good PROVE U \in Good
  <2>1. PICK x \in U : TRUE
    BY <1>3
  <2>2. Fine(U \ {x}) /\ w[x] \in Nat
    BY <1>3 DEF Weighs
  <2>3. Total(w, U) = w[x] + Total(w, U \ {x}) /\ Total(w, U \ {x}) \in Nat
    BY <1>1 DEF Additive
  <2>4. CASE x \in T
    <3>1. (U \ {x}) \cap T = (U \cap T) \ {x} /\ x \in U \cap T
      BY <2>4
    <3>2. U \cap T \in SUBSET S /\ (U \cap T) \ {x} \in SUBSET S
      OBVIOUS
    <3>3. Total(w, U \cap T) = w[x] + Total(w, (U \cap T) \ {x}) /\ Total(w, (U \cap T) \ {x}) \in Nat
      BY <1>1, <3>1, <3>2 DEF Additive
    <3>4. Total(w, (U \cap T) \ {x}) <= Total(w, U \ {x})
          /\ ((\A y \in S \ T : w[y] = 0) => Total(w, (U \cap T) \ {x}) = Total(w, U \ {x}))
      BY <2>2, <3>1
    <3>5. Total(w, U \cap T) <= Total(w, U)
      BY <2>2, <2>3, <3>3, <3>4
    <3>6. (\A y \in S \ T : w[y] = 0) => Total(w, U \cap T) = Total(w, U)
      BY <2>3, <3>3, <3>4
    <3> QED
      BY <3>5, <3>6
  <2>5. CASE x \notin T
    <3>1. (U \ {x}) \cap T = U \cap T /\ U \cap T \in SUBSET S /\ x \in S \ T
      BY <2>5
    <3>2. Total(w, U \cap T) \in Nat
      BY <1>1, <3>1 DEF Additive
    <3>3. Total(w, U \cap T) <= Total(w, U \ {x})
          /\ ((\A y \in S \ T : w[y] = 0) => Total(w, U \cap T) = Total(w, U \ {x}))
      BY <2>2, <3>1
    <3>4. Total(w, U \cap T) <= Total(w, U)
      BY <2>2, <2>3, <3>2, <3>3
    <3>5. (\A y \in S \ T : w[y] = 0) => Total(w, U \cap T) = Total(w, U)
      <4>1. SUFFICES ASSUME \A y \in S \ T : w[y] = 0 PROVE Total(w, U \cap T) = Total(w, U)
        OBVIOUS
      <4>2. w[x] = 0 /\ Total(w, U \cap T) = Total(w, U \ {x})
        BY <3>1, <3>3, <4>1
      <4> QED
        BY <2>3, <4>2
    <3> QED
      BY <3>4, <3>5
  <2> QED
    BY <2>4, <2>5
<1>4. \A U \in SUBSET S : U \in Good
  <2> HIDE DEF Good
  <2> QED
    BY <1>2, <1>3, SubsetInduction
<1>5. Fine(S) /\ S \cap T = T
  <2>1. S \in Good
    BY <1>4
  <2> QED
    BY <2>1
<1> QED
  BY <1>5

(* The total of ones is the number of elements.                              *)
LEMMA TotalOfOnes ==
  ASSUME NEW S, IsFiniteSet(S), NEW w, \A x \in S : w[x] = 1
  PROVE  Total(w, S) = Cardinality(S)
<1> DEFINE Good == {U \in SUBSET S : Total(w, U) = Cardinality(U)}
<1>1. \A U \in SUBSET S : IsFiniteSet(U) /\ Cardinality(U) \in Nat
  BY FS_Subset, FS_CardinalityType
<1>2. \A U \in SUBSET S : Additive(w, U)
  <2>1. Weighs(w, S)
    BY DEF Weighs
  <2> QED
    BY <2>1, TotalAdds
<1>3. {} \in Good
  BY TotalOfNone, FS_EmptySet
<1>4. ASSUME NEW U \in SUBSET S, U # {}, \A x \in U : U \ {x} \in Good PROVE U \in Good
  <2>1. PICK x \in U : TRUE
    BY <1>4
  <2>2. Total(w, U) = w[x] + Total(w, U \ {x})
    BY <1>2 DEF Additive
  <2>3. Cardinality(U \ {x}) = Cardinality(U) - 1
    BY <1>1, FS_RemoveElement
  <2>4. Total(w, U \ {x}) = Cardinality(U \ {x}) /\ w[x] = 1
    BY <1>4
  <2> QED
    BY <1>1, <2>2, <2>3, <2>4
<1>5. \A U \in SUBSET S : U \in Good
  <2> HIDE DEF Good
  <2> QED
    BY <1>3, <1>4, SubsetInduction
<1> QED
  BY <1>5

(* A set weighs what the classes it falls into weigh together.               *)
Classifies(f, S, A) == \A x \in S : f[x] \in A
ByClass(v, A, w, S, f) == \A a \in A : v[a] = Total(w, {x \in S : f[x] = a})

LEMMA TotalOfClasses ==
  ASSUME NEW A, IsFiniteSet(A), NEW S, IsFiniteSet(S), NEW f, Classifies(f, S, A),
         NEW w, Weighs(w, S), NEW v, ByClass(v, A, w, S, f)
  PROVE  Total(v, A) = Total(w, S)
<1> DEFINE Class(U, a) == {x \in U : f[x] = a}
           weight(U) == [a \in A |-> Total(w, Class(U, a))]
           Good == {U \in SUBSET S : Total(weight(U), A) = Total(w, U)}
<1>1. \A U \in SUBSET S : Additive(w, U)
  BY TotalAdds
<1>2. \A U \in SUBSET S : Weighs(weight(U), A)
  <2> SUFFICES ASSUME NEW U \in SUBSET S, NEW a \in A PROVE weight(U)[a] \in Nat
    BY DEF Weighs
  <2>1. Class(U, a) \in SUBSET S
    OBVIOUS
  <2>2. Total(w, Class(U, a)) \in Nat
    BY <1>1, <2>1 DEF Additive
  <2> QED
    BY <2>2
<1>3. \A U : \A a \in A : weight(U)[a] = Total(w, Class(U, a))
  OBVIOUS
<1>4. {} \in Good
  <2>1. \A a \in A : weight({})[a] = 0
    <3>1. \A a : Class({}, a) = {}
      OBVIOUS
    <3> QED
      BY <1>3, <3>1, TotalOfNone
  <2> HIDE DEF weight
  <2>2. Total(weight({}), {}) = Total(weight({}), A)
    <3>1. Weighs(weight({}), A) /\ {} \subseteq A /\ \A a \in A \ {} : weight({})[a] = 0
      BY <1>2, <2>1
    <3> QED
      BY <3>1, TotalOfPart
  <2> QED
    BY <2>2, TotalOfNone
<1>5. ASSUME NEW U \in SUBSET S, U # {}, \A x \in U : U \ {x} \in Good PROVE U \in Good
  <2>1. PICK x \in U : TRUE
    BY <1>5
  <2> DEFINE R == U \ {x}
             b == f[x]
  <2>2. R \in SUBSET S /\ b \in A /\ Total(weight(R), A) = Total(w, R)
    BY <1>5 DEF Classifies
  <2>3. w[x] \in Nat /\ Total(w, U) = w[x] + Total(w, R)
    BY <1>1 DEF Additive, Weighs
  <2>4. Class(R, b) = Class(U, b) \ {x} /\ x \in Class(U, b) /\ Class(U, b) \in SUBSET S
    OBVIOUS
  <2>5. \A a \in A \ {b} : Class(R, a) = Class(U, a)
    OBVIOUS
  <2> HIDE DEF weight, Class, R, b
  <2>6. weight(U)[b] = w[x] + weight(R)[b]
    <3>1. Total(w, Class(U, b)) = w[x] + Total(w, Class(U, b) \ {x})
      BY <1>1, <2>4 DEF Additive
    <3> QED
      BY <1>3, <2>2, <2>4, <3>1
  <2>7. \A a \in A \ {b} : weight(U)[a] = weight(R)[a]
    BY <1>3, <2>5
  <2>8. Total(weight(U), A \ {b}) = Total(weight(R), A \ {b})
    <3>1. IsFiniteSet(A \ {b}) /\ Weighs(weight(U), A \ {b})
      BY <1>2, FS_Subset DEF Weighs
    <3> QED
      BY <2>7, <3>1, TotalSame
  <2>9. Additive(weight(U), A) /\ Additive(weight(R), A) /\ Additive(weight(R), A \ {b})
    <3>1. Weighs(weight(U), A) /\ Weighs(weight(R), A)
      BY <1>2, <2>2
    <3> QED
      BY <3>1, TotalAdds
  <2>10. Total(weight(U), A) = weight(U)[b] + Total(weight(U), A \ {b})
         /\ Total(weight(R), A) = weight(R)[b] + Total(weight(R), A \ {b})
         /\ Total(weight(R), A \ {b}) \in Nat
    BY <2>2, <2>9 DEF Additive
  <2>11. weight(R)[b] \in Nat
    BY <1>2, <2>2 DEF Weighs
  <2> QED
    BY <2>2, <2>3, <2>6, <2>8, <2>10, <2>11
<1>6. \A U \in SUBSET S : U \in Good
  <2> HIDE DEF Good
  <2> QED
    BY <1>4, <1>5, SubsetInduction
<1>7. Total(v, A) = Total(weight(S), A)
  <2>1. Weighs(weight(S), A) /\ \A a \in A : weight(S)[a] = v[a]
    BY <1>2, <1>3 DEF ByClass
  <2> HIDE DEF weight
  <2> QED
    BY <2>1, TotalSame
<1> QED
  BY <1>6, <1>7

(* A one-to-one image weighs what the set weighs, and is as many.            *)
LEMMA TotalOfImage ==
  ASSUME NEW S, IsFiniteSet(S), NEW f, \A x, y \in S : f[x] = f[y] => x = y,
         NEW w, Weighs(w, S), NEW v, \A x \in S : v[f[x]] = w[x]
  PROVE  /\ IsFiniteSet({f[x] : x \in S})
         /\ Cardinality({f[x] : x \in S}) = Cardinality(S)
         /\ Total(v, {f[x] : x \in S}) = Total(w, S)
<1> DEFINE Image(U) == {f[x] : x \in U}
           Fine(U) == /\ IsFiniteSet(Image(U))
                      /\ Cardinality(Image(U)) = Cardinality(U)
                      /\ Total(v, Image(U)) = Total(w, U)
           Good == {U \in SUBSET S : Fine(U)}
<1>1. \A U \in SUBSET S : IsFiniteSet(U) /\ Cardinality(U) \in Nat
  BY FS_Subset, FS_CardinalityType
<1>2. \A U \in SUBSET S : Additive(w, U)
  BY TotalAdds
<1>3. {} \in Good
  <2>1. Image({}) = {} /\ {} \in SUBSET S
    OBVIOUS
  <2>2. Fine({})
    BY <2>1, TotalOfNone, FS_EmptySet
  <2> HIDE DEF Fine
  <2> QED
    BY <2>1, <2>2
<1>4. ASSUME NEW U \in SUBSET S, U # {}, \A x \in U : U \ {x} \in Good PROVE U \in Good
  <2>1. PICK x \in U : TRUE
    BY <1>4
  <2> DEFINE R == U \ {x}
             z == f[x]
  <2>2. R \in SUBSET S /\ Fine(R)
    BY <1>4
  <2>3. x \in S /\ w[x] \in Nat /\ v[z] = w[x]
    BY DEF Weighs
  <2>4. Image(U) \ {z} = Image(R) /\ z \in Image(U) /\ z \notin Image(R) /\ Image(U) = Image(R) \cup {z}
    OBVIOUS
  <2>5. Weighs(v, Image(U))
    BY DEF Weighs
  <2>6. IsFiniteSet(Image(R)) /\ Cardinality(Image(R)) = Cardinality(R) /\ Total(v, Image(R)) = Total(w, R)
    BY <2>2
  <2>7. Cardinality(R) = Cardinality(U) - 1
    BY <1>1, FS_RemoveElement
  <2>8. Total(w, U) = w[x] + Total(w, R)
    BY <1>2 DEF Additive
  <2> DEFINE I == Image(U)
             J == Image(R)
  <2> HIDE DEF R, z
  <2>9. /\ I \ {z} = J /\ z \in I /\ z \notin J /\ I = J \cup {z} /\ Weighs(v, I)
        /\ IsFiniteSet(J) /\ Cardinality(J) = Cardinality(R) /\ Total(v, J) = Total(w, R)
    BY <2>4, <2>5, <2>6
  <2> HIDE DEF I, J, Image
  <2>10. IsFiniteSet(I) /\ Cardinality(I) = Cardinality(J) + 1
    BY <2>9, FS_AddElement
  <2>11. Total(v, I) = v[z] + Total(v, J)
    <3>1. Additive(v, I)
      BY <2>9, <2>10, TotalAdds
    <3> QED
      BY <2>9, <3>1 DEF Additive
  <2>12. Cardinality(I) = Cardinality(U) /\ Total(v, I) = Total(w, U)
    BY <1>1, <2>3, <2>7, <2>8, <2>9, <2>10, <2>11
  <2> QED
    BY <2>10, <2>12 DEF I
<1>5. \A U \in SUBSET S : U \in Good
  <2> HIDE DEF Good
  <2> QED
    BY <1>3, <1>4, SubsetInduction
<1>6. Fine(S)
  <2>1. S \in Good
    BY <1>5
  <2> QED
    BY <2>1
<1> QED
  BY <1>6
===============================================================================
