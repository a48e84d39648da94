---------------------------- MODULE PaymentProofs ----------------------------
(***************************************************************************)
(* Proofs about costs and payments, for any mana kinds, spells, cost       *)
(* reductions and limits: what a spell costs follows from the board, the   *)
(* driver finds the largest X, and its offers are the payments the kernel  *)
(* accepts.                                                                *)
(***************************************************************************)
EXTENDS PaymentProperties, SelectionProofs

----------------------------------------------------------------------------
(* Sums over finite sets.                                                   *)

\* Induction over the subsets of a finite set, for a family of sets in place
\* of a predicate.
LEMMA UpToSet ==
  ASSUME NEW S, IsFiniteSet(S), NEW F, {} \in F,
         \A T \in SUBSET S : \A x \in S \ T : T \in F => T \cup {x} \in F
  PROVE  S \in F
<1> DEFINE m == Cardinality(S)
           K == {k \in 0 .. m : \A T \in SUBSET S : Cardinality(T) = k => T \in F}
<1>1. m \in Nat /\ \A T \in SUBSET S : IsFiniteSet(T) /\ Cardinality(T) \in Nat
  BY FS_CardinalityType, FS_Subset
<1>2. 0 \in K
  <2>1. ASSUME NEW T \in SUBSET S, Cardinality(T) = 0 PROVE T = {}
    <3>1. IsFiniteSet(T)
      BY <1>1
    <3> QED BY <2>1, <3>1, FS_EmptySet
  <2>2. \A T \in SUBSET S : Cardinality(T) = 0 => T \in F
    BY <2>1
  <2>3. 0 \in 0 .. m
    BY <1>1
  <2> HIDE DEF m
  <2> QED BY <2>2, <2>3
<1>3. ASSUME NEW k \in 0 .. m, k > 0, k - 1 \in K
      PROVE  k \in K
  <2> SUFFICES ASSUME NEW T \in SUBSET S, Cardinality(T) = k
               PROVE  T \in F
    OBVIOUS
  <2>1. PICK x : x \in T
    <3>1. T # {}
      BY <1>1, <1>3, FS_EmptySet
    <3> QED BY <3>1
  <2>2. Cardinality(T \ {x}) = k - 1
    BY <1>1, <2>1, FS_RemoveElement
  <2>3. T \ {x} \in F /\ (T \ {x}) \cup {x} = T
    BY <1>3, <2>1, <2>2
  <2> QED BY <2>1, <2>3
<1>4. m \in K
  <2> HIDE DEF K, m
  <2>1. \A i \in 0 .. m : i \in K
    BY <1>1, <1>2, <1>3, UpTo
  <2> QED BY <1>1, <2>1
<1> QED BY <1>4

Sum(w, S) == FoldFunctionOnSet(+, 0, w, S)
AnyOf(T) == CHOOSE x \in T : TRUE
Adds(g, w, S) == g = [T \in SUBSET S |-> IF T = {} THEN 0 ELSE w[AnyOf(T)] + g[T \ {AnyOf(T)}]]

\* The recursion of the fold has a solution.
LEMMA SumExists ==
  ASSUME NEW S, IsFiniteSet(S), NEW w, \A x \in S : w[x] \in Nat
  PROVE  \E g : Adds(g, w, S)
<1> DEFINE m == Cardinality(S) + 1
           Body(h, T) == IF T = {} THEN 0 ELSE w[AnyOf(T)] + h[T \ {AnyOf(T)}]
           step == [i \in 1 .. m |-> [h \in [SUBSET S -> Nat] |-> [T \in SUBSET S |-> Body(h, T)]]]
           G == [i \in 0 .. m |-> {h \in [SUBSET S -> Nat] :
                                     \A T \in SUBSET S : Cardinality(T) < i => h[T] = Body(h, T)}]
           zero == [T \in SUBSET S |-> 0]
<1>1. m \in Nat /\ \A T \in SUBSET S : Cardinality(T) \in Nat /\ Cardinality(T) < m
  <2>1. Cardinality(S) \in Nat
    BY FS_CardinalityType
  <2>2. \A T \in SUBSET S : Cardinality(T) \in Nat /\ Cardinality(T) <= Cardinality(S)
    BY FS_Subset, FS_CardinalityType
  <2> QED BY <2>1, <2>2
<1>2. \A T \in SUBSET S : T # {} => /\ AnyOf(T) \in T /\ T \ {AnyOf(T)} \in SUBSET S
                                    /\ Cardinality(T \ {AnyOf(T)}) < Cardinality(T)
  <2> SUFFICES ASSUME NEW T \in SUBSET S, T # {}
               PROVE  /\ AnyOf(T) \in T /\ T \ {AnyOf(T)} \in SUBSET S
                      /\ Cardinality(T \ {AnyOf(T)}) < Cardinality(T)
    OBVIOUS
  <2>1. AnyOf(T) \in T
    BY DEF AnyOf
  <2>2. IsFiniteSet(T)
    BY FS_Subset
  <2>3. Cardinality(T \ {AnyOf(T)}) = Cardinality(T) - 1
    BY <2>1, <2>2, FS_RemoveElement
  <2> QED BY <1>1, <2>1, <2>3
<1>3. ASSUME NEW h \in [SUBSET S -> Nat], NEW T \in SUBSET S
      PROVE  Body(h, T) \in Nat
  <2>1. CASE T # {}
    <3>1. w[AnyOf(T)] \in Nat /\ h[T \ {AnyOf(T)}] \in Nat
      BY <1>2, <2>1
    <3> QED BY <2>1, <3>1
  <2> QED BY <2>1
<1>4. zero \in G[0]
  <2>1. zero \in [SUBSET S -> Nat] /\ \A T \in SUBSET S : ~(Cardinality(T) < 0)
    BY <1>1
  <2> QED BY <1>1, <2>1
<1>5. ASSUME NEW i \in 1 .. m, NEW h \in G[i - 1]
      PROVE  step[i][h] \in G[i]
  <2> DEFINE k == [T \in SUBSET S |-> Body(h, T)]
  <2>1. i \in 0 .. m /\ i - 1 \in 0 .. m
    BY <1>1
  <2>2. h \in [SUBSET S -> Nat] /\ \A T \in SUBSET S : Cardinality(T) < i - 1 => h[T] = Body(h, T)
    BY <2>1
  <2>3. step[i][h] = k
    BY <2>2
  <2>4. k \in [SUBSET S -> Nat]
    BY <1>3, <2>2
  <2>5. ASSUME NEW T \in SUBSET S, Cardinality(T) < i
        PROVE  k[T] = Body(k, T)
    <3>1. CASE T = {}
      BY <3>1
    <3>2. CASE T # {}
      <4> DEFINE R == T \ {AnyOf(T)}
      <4>1. R \in SUBSET S /\ Cardinality(R) < i - 1
        BY <1>1, <1>2, <2>5, <3>2
      <4>2. h[R] = Body(h, R) /\ k[R] = Body(h, R)
        BY <2>2, <4>1
      <4>3. k[T] = w[AnyOf(T)] + h[R] /\ Body(k, T) = w[AnyOf(T)] + k[R]
        BY <3>2
      <4> HIDE DEF R, k
      <4> QED BY <4>2, <4>3
    <3> QED BY <3>1, <3>2
  <2> HIDE DEF k
  <2> QED BY <2>1, <2>3, <2>4, <2>5
<1>6. PICK f : Recursion(f, m, zero, step) /\ \A i \in 0 .. m : f[i] \in G[i]
  <2> HIDE DEF G, step, zero, m
  <2> QED BY <1>1, <1>4, <1>5, RecursionStays
<1>7. f[m] \in [SUBSET S -> Nat] /\ \A T \in SUBSET S : f[m][T] = Body(f[m], T)
  <2>1. m \in 0 .. m
    BY <1>1
  <2> HIDE DEF m
  <2> QED BY <1>1, <1>6, <2>1
<1>8. Adds(f[m], w, S)
  <2> HIDE DEF m
  <2>1. f[m] = [T \in SUBSET S |-> f[m][T]]
    BY <1>7
  <2> QED BY <1>7, <2>1 DEF Adds
<1> QED BY <1>8

\* Every solution gives the sum, in whichever order the members are taken.
LEMMA AddsOrder ==
  ASSUME NEW S, IsFiniteSet(S), NEW w, \A x \in S : w[x] \in Nat, NEW g, Adds(g, w, S)
  PROVE  \A T \in SUBSET S : g[T] \in Nat /\ \A x \in T : g[T] = w[x] + g[T \ {x}]
<1> DEFINE m == Cardinality(S)
           Good(T) == g[T] \in Nat /\ \A x \in T : g[T] = w[x] + g[T \ {x}]
           K == {k \in 0 .. m : \A T \in SUBSET S : Cardinality(T) <= k => Good(T)}
<1>1. \A T \in SUBSET S : IsFiniteSet(T) /\ Cardinality(T) \in Nat /\ Cardinality(T) <= m
  BY FS_Subset, FS_CardinalityType
<1>2. m \in Nat /\ g[{}] = 0
  <2>1. {} \in SUBSET S
    OBVIOUS
  <2> QED BY <2>1, FS_CardinalityType DEF Adds
<1>3. 0 \in K
  <2>1. ASSUME NEW T \in SUBSET S, Cardinality(T) <= 0 PROVE T = {}
    <3>1. IsFiniteSet(T) /\ Cardinality(T) = 0
      BY <1>1, <2>1
    <3> QED BY <3>1, FS_EmptySet
  <2>2. Good({})
    BY <1>2
  <2> HIDE DEF Good
  <2> QED BY <1>2, <2>1, <2>2
<1>4. ASSUME NEW k \in 0 .. m, k > 0, k - 1 \in K
      PROVE  k \in K
  <2> SUFFICES ASSUME NEW T \in SUBSET S, Cardinality(T) <= k, T # {}
               PROVE  Good(T)
    <3>1. Good({})
      BY <1>2
    <3> HIDE DEF Good
    <3> QED BY <3>1
  <2> DEFINE c == AnyOf(T)
  <2>1. c \in T /\ g[T] = w[c] + g[T \ {c}]
    <3>1. c \in T
      BY DEF AnyOf
    <3> QED BY <3>1 DEF Adds
  <2>2. \A R \in SUBSET S : Cardinality(R) <= k - 1 => Good(R)
    BY <1>4
  <2>3. \A x \in T : T \ {x} \in SUBSET S /\ Cardinality(T \ {x}) <= k - 1
    BY <1>1, <1>4, FS_RemoveElement
  <2> HIDE DEF c, Good
  <2>4. \A x \in T : Good(T \ {x})
    BY <2>2, <2>3
  <2>5. w[c] \in Nat /\ g[T \ {c}] \in Nat
    BY <2>1, <2>4 DEF Good
  <2>6. ASSUME NEW x \in T PROVE g[T] = w[x] + g[T \ {x}]
    <3>1. CASE x = c
      BY <2>1, <3>1
    <3>2. CASE x # c
      <4>1. (T \ {c}) \ {x} = (T \ {x}) \ {c} /\ x \in T \ {c} /\ c \in T \ {x}
        BY <2>1, <3>2
      <4> DEFINE both == (T \ {x}) \ {c}
      <4>2. g[T \ {c}] = w[x] + g[both] /\ g[T \ {x}] = w[c] + g[both]
        <5>1. g[T \ {c}] = w[x] + g[(T \ {c}) \ {x}]
          BY <2>1, <2>4, <4>1 DEF Good
        <5>2. g[T \ {x}] = w[c] + g[both]
          BY <2>6, <2>4, <4>1 DEF Good
        <5> QED BY <4>1, <5>1, <5>2
      <4>3. g[both] \in Nat /\ w[x] \in Nat /\ w[c] \in Nat
        <5>1. (T \ {x}) \ {c} \in SUBSET S /\ Cardinality((T \ {x}) \ {c}) <= k - 1
          <6>1. IsFiniteSet(T \ {x}) /\ T \ {x} \in SUBSET S
            BY <1>1
          <6>2. Cardinality((T \ {x}) \ {c}) <= Cardinality(T \ {x})
            BY <6>1, FS_Subset
          <6>3. (T \ {x}) \ {c} \in SUBSET S
            OBVIOUS
          <6>4. /\ Cardinality((T \ {x}) \ {c}) \in Nat /\ Cardinality(T \ {x}) \in Nat
                /\ Cardinality(T \ {x}) <= k - 1
            BY <1>1, <2>3, <6>1, <6>3
          <6> QED BY <6>2, <6>3, <6>4
        <5>2. g[(T \ {x}) \ {c}] \in Nat
          BY <2>2, <5>1 DEF Good
        <5>3. x \in S /\ c \in S
          BY <2>1
        <5> QED BY <5>2, <5>3
      <4> HIDE DEF both
      <4> QED BY <2>1, <4>2, <4>3
    <3> QED BY <3>1, <3>2
  <2> QED BY <2>1, <2>5, <2>6 DEF Good
<1>5. m \in K
  <2> HIDE DEF K, m
  <2>1. \A i \in 0 .. m : i \in K
    BY <1>2, <1>3, <1>4, UpTo
  <2> QED BY <1>2, <2>1
<1> QED BY <1>1, <1>5

LEMMA SumIsAdds ==
  ASSUME NEW S, IsFiniteSet(S), NEW w, \A x \in S : w[x] \in Nat
  PROVE  \E g : Adds(g, w, S) /\ Sum(w, S) = g[S]
<1>1. \E g : Adds(g, w, S)
  BY SumExists
<1> DEFINE iter == CHOOSE g : Adds(g, w, S)
<1>2. Adds(iter, w, S)
  BY <1>1
<1>3. Sum(w, S) = iter[S]
  BY Zenon DEF Sum, FoldFunctionOnSet, MapThenFoldSet, Adds, AnyOf
<1> QED BY <1>2, <1>3

\* The sum over a finite set, member by member.
LEMMA SumFacts ==
  ASSUME NEW S, IsFiniteSet(S), NEW w, \A x \in S : w[x] \in Nat
  PROVE  /\ Sum(w, S) \in Nat
         /\ S = {} => Sum(w, S) = 0
         /\ \A x \in S : Sum(w, S) = w[x] + Sum(w, S \ {x})
<1>1. PICK g : Adds(g, w, S) /\ Sum(w, S) = g[S]
  BY SumIsAdds
<1>2. \A T \in SUBSET S : g[T] \in Nat /\ \A x \in T : g[T] = w[x] + g[T \ {x}]
  <2>1. Adds(g, w, S)
    BY <1>1
  <2> QED BY ONLY <2>1, IsFiniteSet(S), \A x \in S : w[x] \in Nat, AddsOrder
<1>3. g[{}] = 0
  BY <1>1 DEF Adds
<1>4. ASSUME NEW R \in SUBSET S
      PROVE  Sum(w, R) = g[R]
  <2>1. IsFiniteSet(R) /\ \A x \in R : w[x] \in Nat
    BY FS_Subset
  <2>2. PICK h : Adds(h, w, R) /\ Sum(w, R) = h[R]
    BY <2>1, SumIsAdds
  <2>3. \A T \in SUBSET R : h[T] \in Nat /\ \A x \in T : h[T] = w[x] + h[T \ {x}]
    BY <2>1, <2>2, AddsOrder
  <2> DEFINE F == {T \in SUBSET R : h[T] = g[T]}
  <2>4. {} \in F
    BY <1>3, <2>2 DEF Adds
  <2>5. ASSUME NEW T \in SUBSET R, NEW x \in R \ T, T \in F
        PROVE  T \cup {x} \in F
    <3> DEFINE U == T \cup {x}
    <3>1. U \in SUBSET R /\ U \in SUBSET S /\ x \in U /\ U \ {x} = T
      BY <2>5
    <3>2. h[U] = w[x] + h[U \ {x}] /\ g[U] = w[x] + g[U \ {x}]
      <4> HIDE DEF U
      <4> QED BY <3>1, <1>2, <2>3
    <3>3. h[T] = g[T]
      BY <2>5
    <3> HIDE DEF U
    <3>4. h[U] = g[U]
      BY <3>1, <3>2, <3>3
    <3>5. U \in F
      BY <3>1, <3>4
    <3> QED BY <3>5 DEF U
  <2>6. R \in F
    <3> HIDE DEF F
    <3> QED BY <2>1, <2>4, <2>5, UpToSet
  <2> QED BY <2>2, <2>6
<1>5. S \in SUBSET S /\ \A x \in S : S \ {x} \in SUBSET S
  OBVIOUS
<1>6. ASSUME NEW x \in S PROVE Sum(w, S) = w[x] + Sum(w, S \ {x})
  <2>1. Sum(w, S \ {x}) = g[S \ {x}]
    BY <1>4, <1>5
  <2> QED BY <1>1, <1>2, <1>5, <2>1
<1> QED BY <1>1, <1>2, <1>3, <1>5, <1>6

LEMMA SumInsert ==
  ASSUME NEW S, IsFiniteSet(S), NEW x, x \notin S, NEW w, \A y \in S \cup {x} : w[y] \in Nat
  PROVE  Sum(w, S \cup {x}) = w[x] + Sum(w, S)
<1> DEFINE T == S \cup {x}
<1>1. IsFiniteSet(T) /\ x \in T /\ T \ {x} = S
  BY FS_AddElement
<1>2. Sum(w, T) = w[x] + Sum(w, T \ {x})
  <2>1. \A y \in T : w[y] \in Nat
    OBVIOUS
  <2> HIDE DEF T
  <2> QED BY <1>1, <2>1, SumFacts
<1> HIDE DEF T
<1>3. Sum(w, T) = w[x] + Sum(w, S)
  BY <1>1, <1>2
<1> QED BY <1>3 DEF T

\* A sum grows with its terms.
LEMMA SumGrows ==
  ASSUME NEW S, IsFiniteSet(S), NEW v, NEW w, \A x \in S : v[x] \in Nat /\ w[x] \in Nat /\ v[x] <= w[x]
  PROVE  Sum(v, S) <= Sum(w, S)
<1> DEFINE F == {T \in SUBSET S : Sum(v, T) <= Sum(w, T)}
<1>1. \A T \in SUBSET S : /\ IsFiniteSet(T)
                          /\ \A x \in T : v[x] \in Nat /\ w[x] \in Nat
                          /\ Sum(v, T) \in Nat /\ Sum(w, T) \in Nat
  BY FS_Subset, SumFacts
<1>2. {} \in F
  <2>1. IsFiniteSet({}) /\ \A x \in {} : v[x] \in Nat /\ w[x] \in Nat
    BY FS_EmptySet
  <2>2. Sum(v, {}) = 0 /\ Sum(w, {}) = 0
    BY <2>1, SumFacts
  <2> QED BY <2>2
<1>3. ASSUME NEW T \in SUBSET S, NEW x \in S \ T, T \in F
      PROVE  T \cup {x} \in F
  <2>1. Sum(v, T \cup {x}) = v[x] + Sum(v, T) /\ Sum(w, T \cup {x}) = w[x] + Sum(w, T)
    <3>1. IsFiniteSet(T) /\ x \notin T /\ \A y \in T \cup {x} : v[y] \in Nat /\ w[y] \in Nat
      BY <1>1
    <3> QED BY <3>1, SumInsert
  <2>2. Sum(v, T) <= Sum(w, T) /\ Sum(v, T) \in Nat /\ Sum(w, T) \in Nat
    BY <1>1, <1>3
  <2>3. v[x] \in Nat /\ w[x] \in Nat /\ v[x] <= w[x]
    OBVIOUS
  <2>4. Sum(v, T \cup {x}) <= Sum(w, T \cup {x})
    BY <2>1, <2>2, <2>3
  <2>5. T \cup {x} \in SUBSET S
    OBVIOUS
  <2> QED BY <2>4, <2>5
<1>4. S \in F
  <2> HIDE DEF F
  <2> QED BY <1>2, <1>3, UpToSet
<1> QED BY <1>4

LEMMA SumOfEqual ==
  ASSUME NEW S, IsFiniteSet(S), NEW v, NEW w, \A x \in S : v[x] \in Nat /\ w[x] = v[x]
  PROVE  Sum(v, S) = Sum(w, S)
<1>1. Sum(v, S) <= Sum(w, S) /\ Sum(w, S) <= Sum(v, S)
  BY SumGrows
<1>2. Sum(v, S) \in Nat /\ Sum(w, S) \in Nat
  BY SumFacts
<1> QED BY <1>1, <1>2

LEMMA SumZero ==
  ASSUME NEW S, IsFiniteSet(S), NEW w, \A x \in S : w[x] = 0
  PROVE  Sum(w, S) = 0
<1> DEFINE F == {T \in SUBSET S : Sum(w, T) = 0}
<1>1. {} \in F
  <2>1. IsFiniteSet({}) /\ \A x \in {} : w[x] \in Nat
    BY FS_EmptySet
  <2>2. Sum(w, {}) = 0
    BY <2>1, SumFacts
  <2> QED BY <2>2
<1>2. ASSUME NEW T \in SUBSET S, NEW x \in S \ T, T \in F
      PROVE  T \cup {x} \in F
  <2>1. IsFiniteSet(T) /\ \A y \in T \cup {x} : w[y] \in Nat
    BY FS_Subset
  <2>2. Sum(w, T \cup {x}) = w[x] + Sum(w, T)
    BY <2>1, SumInsert
  <2>3. Sum(w, T) = 0 /\ w[x] = 0 /\ T \cup {x} \in SUBSET S
    BY <1>2
  <2> QED BY <2>2, <2>3
<1>3. S \in F
  <2> HIDE DEF F
  <2> QED BY <1>1, <1>2, UpToSet
<1> QED BY <1>3

----------------------------------------------------------------------------
(* Mana pools.                                                              *)

Amounts == [ToSet(Kinds) -> Nat]

LEMMA KindFacts ==
  /\ Colors \in Seq(ToSet(Colors)) /\ Len(Colors) \in Nat
  /\ ToSet(Kinds) = ToSet(Colors) \cup {Colorless} /\ Colorless \notin ToSet(Colors)
  /\ IsFiniteSet(ToSet(Kinds)) /\ IsFiniteSet(ToSet(Colors))
<1>1. /\ Colors \in Seq(ToSet(Colors)) /\ Len(Colors) \in Nat /\ DOMAIN Colors = 1 .. Len(Colors)
      /\ Colorless \notin ToSet(Colors)
  BY PaymentAssumption
<1>2. ToSet(Kinds) = ToSet(Colors) \cup {Colorless}
  <2> DEFINE n == Len(Colors)
  <2>1. /\ DOMAIN Kinds = 1 .. n + 1 /\ Kinds[n + 1] = Colorless
        /\ \A i \in 1 .. n : Kinds[i] = Colors[i]
    <3>1. Colors \in Seq(ToSet(Colors) \cup {Colorless})
      BY <1>1
    <3> QED BY <3>1 DEF Kinds
  <2>2. n + 1 \in 1 .. n + 1 /\ \A i \in 1 .. n + 1 : i = n + 1 \/ i \in 1 .. n
    BY <1>1
  <2>3. \A i \in 1 .. n : i \in 1 .. n + 1
    BY <1>1
  <2> HIDE DEF n
  <2> QED BY <1>1, <2>1, <2>2, <2>3 DEF ToSet, n
<1>3. IsFiniteSet(ToSet(Colors))
  <2>1. Colors \in Surjection(1 .. Len(Colors), ToSet(Colors))
    BY <1>1 DEF Surjection, ToSet
  <2>2. ExistsSurjection(1 .. Len(Colors), ToSet(Colors))
    BY <2>1 DEF ExistsSurjection
  <2> QED BY <1>1, <2>2, FS_NatSurjection
<1>4. IsFiniteSet(ToSet(Kinds))
  BY <1>2, <1>3, FS_AddElement
<1> QED BY <1>1, <1>2, <1>3, <1>4

LEMMA TotalFacts ==
  ASSUME NEW p \in Amounts
  PROVE  /\ Total(p) \in Nat /\ ColoredTotal(p) \in Nat
         /\ Total(p) = Sum(p, ToSet(Kinds)) /\ ColoredTotal(p) = Sum(p, ToSet(Colors))
         /\ Total(p) = p[Colorless] + ColoredTotal(p)
         /\ \A k \in ToSet(Kinds) : p[k] \in Nat /\ p[k] <= Total(p)
<1>1. DOMAIN p = ToSet(Kinds) /\ \A k \in ToSet(Kinds) : p[k] \in Nat
  BY DEF Amounts
<1>2. Total(p) = Sum(p, ToSet(Kinds))
  BY <1>1, Zenon DEF Total, FoldFunction, Sum
<1>3. ColoredTotal(p) = Sum(p, ToSet(Colors))
  BY Zenon DEF ColoredTotal, Sum
<1>4. /\ Sum(p, ToSet(Kinds)) \in Nat
      /\ \A k \in ToSet(Kinds) : Sum(p, ToSet(Kinds)) = p[k] + Sum(p, ToSet(Kinds) \ {k})
  BY <1>1, KindFacts, SumFacts
<1>5. \A k \in ToSet(Kinds) : Sum(p, ToSet(Kinds) \ {k}) \in Nat
  <2> SUFFICES ASSUME NEW k \in ToSet(Kinds) PROVE Sum(p, ToSet(Kinds) \ {k}) \in Nat
    OBVIOUS
  <2>1. IsFiniteSet(ToSet(Kinds) \ {k})
    BY KindFacts, FS_RemoveElement
  <2> QED BY <1>1, <2>1, SumFacts
<1>6. ToSet(Kinds) \ {Colorless} = ToSet(Colors) /\ Colorless \in ToSet(Kinds)
  BY KindFacts
<1>7. Sum(p, ToSet(Kinds)) = p[Colorless] + Sum(p, ToSet(Colors)) /\ Sum(p, ToSet(Colors)) \in Nat
  <2>1. Sum(p, ToSet(Kinds)) = p[Colorless] + Sum(p, ToSet(Kinds) \ {Colorless})
    BY <1>4, <1>6
  <2>2. Sum(p, ToSet(Kinds) \ {Colorless}) \in Nat
    BY <1>5, <1>6
  <2> QED BY <1>6, <2>1, <2>2
<1>8. ASSUME NEW k \in ToSet(Kinds) PROVE p[k] \in Nat /\ p[k] <= Sum(p, ToSet(Kinds))
  <2> DEFINE rest == Sum(p, ToSet(Kinds) \ {k})
  <2>1. Sum(p, ToSet(Kinds)) = p[k] + rest /\ rest \in Nat /\ p[k] \in Nat
    BY <1>1, <1>4, <1>5
  <2> HIDE DEF rest
  <2> QED BY <2>1
<1> QED BY <1>2, <1>3, <1>4, <1>7, <1>8

LEMMA TotalGrows ==
  ASSUME NEW p \in Amounts, NEW q \in Amounts, Covers(p, q)
  PROVE  Total(q) <= Total(p)
<1>1. \A k \in ToSet(Kinds) : q[k] \in Nat /\ p[k] \in Nat /\ q[k] <= p[k]
  BY DEF Amounts, Covers
<1>2. Sum(q, ToSet(Kinds)) <= Sum(p, ToSet(Kinds))
  BY <1>1, KindFacts, SumGrows
<1> QED BY <1>2, TotalFacts

LEMMA PaymentsFacts ==
  ASSUME NEW r \in Amounts, NEW n \in Nat
  PROVE  GenericPayments(r, n) = {g \in Amounts : Total(g) = n /\ Covers(r, g)}
<1> SUFFICES ASSUME NEW g \in Amounts, Total(g) = n PROVE g \in [ToSet(Kinds) -> 0 .. n]
  BY DEF GenericPayments, Amounts
<1>1. \A k \in ToSet(Kinds) : g[k] \in 0 .. n
  BY TotalFacts
<1> QED BY <1>1 DEF Amounts

\* Whatever is not more than the total can be paid.
LEMMA PaymentExists ==
  ASSUME NEW r \in Amounts, NEW n \in 0 .. Total(r)
  PROVE  GenericPayments(r, n) # {}
<1> DEFINE m == Total(r)
           T == {i \in 0 .. m : \E g \in Amounts : Total(g) = i /\ Covers(r, g)}
<1>1. m \in Nat
  BY TotalFacts
<1>2. 0 \in T
  <2>1. Empty \in Amounts /\ \A k \in ToSet(Kinds) : Empty[k] = 0
    BY DEF Empty, Amounts
  <2>2. Total(Empty) = 0
    BY <2>1, KindFacts, SumZero, TotalFacts
  <2>3. Covers(r, Empty)
    BY <2>1 DEF Covers, Amounts
  <2> QED BY <1>1, <2>1, <2>2, <2>3
<1>3. ASSUME NEW i \in 0 .. m, i > 0, i - 1 \in T
      PROVE  i \in T
  <2>1. PICK g \in Amounts : Total(g) = i - 1 /\ Covers(r, g)
    BY <1>3
  <2>2. PICK k \in ToSet(Kinds) : g[k] < r[k]
    <3>1. CASE Covers(g, r)
      <4>1. Total(r) <= Total(g)
        BY <3>1, TotalGrows
      <4> QED BY <1>1, <1>3, <2>1, <4>1
    <3>2. CASE ~Covers(g, r)
      BY <3>2, TotalFacts DEF Covers
    <3> QED BY <3>1, <3>2
  <2> DEFINE h == [g EXCEPT ![k] = @ + 1]
             rest == ToSet(Kinds) \ {k}
  <2>3. h \in Amounts /\ h[k] = g[k] + 1 /\ \A j \in rest : h[j] = g[j]
    BY <2>1 DEF Amounts
  <2>4. Covers(r, h)
    BY <2>1, <2>2, <2>3, TotalFacts DEF Covers
  <2>5. Sum(g, rest) = Sum(h, rest) /\ Sum(g, rest) \in Nat
    <3>1. IsFiniteSet(rest)
      BY KindFacts, FS_RemoveElement
    <3>2. \A j \in rest : g[j] \in Nat /\ h[j] = g[j]
      BY <2>1, <2>3 DEF Amounts
    <3> HIDE DEF h, rest
    <3> QED BY <3>1, <3>2, SumOfEqual, SumFacts
  <2>6. Total(g) = g[k] + Sum(g, rest) /\ Total(h) = h[k] + Sum(h, rest)
    <3>1. \A j \in ToSet(Kinds) : g[j] \in Nat /\ h[j] \in Nat
      BY <2>1, <2>3 DEF Amounts
    <3>2. Total(g) = Sum(g, ToSet(Kinds)) /\ Total(h) = Sum(h, ToSet(Kinds))
      BY <2>1, <2>3, TotalFacts
    <3> HIDE DEF h
    <3> QED BY <3>1, <3>2, KindFacts, SumFacts
  <2>7. g[k] \in Nat
    BY <2>1 DEF Amounts
  <2> HIDE DEF h, rest
  <2>8. Total(h) = i
    BY <2>1, <2>3, <2>5, <2>6, <2>7
  <2> QED BY <2>3, <2>4, <2>8
<1>4. n \in T
  <2> HIDE DEF T, m
  <2>1. \A i \in 0 .. m : i \in T
    BY <1>1, <1>2, <1>3, UpTo
  <2> QED BY <2>1 DEF m
<1>5. n \in Nat
  BY <1>1
<1> QED BY <1>4, <1>5, PaymentsFacts

----------------------------------------------------------------------------
(* The inductive invariant.                                                 *)

PaymentFits ==
    /\ pool \in Pools /\ tapped \subseteq Lands /\ casts \in [Spells -> Nat]
    /\ zone \in [Spells -> {"hand", "command", "gone"}]
    /\ modifiers \in Seq(Reducers) /\ IsInjective(modifiers)
    /\ Range(modifiers) = registered /\ inPlay \subseteq registered

----------------------------------------------------------------------------
(* What a spell costs.                                                      *)

Less(a, b) == IF a > b THEN a - b ELSE 0
Owed(c) == c.generic + c.xCount * c.xValue

LEMMA OwedFacts ==
  ASSUME NEW c \in Costs
  PROVE  /\ Owed(c) \in Nat /\ c.generic <= Owed(c)
         /\ GenericTotal(c) = IF Owed(c) <= MaxMana THEN {Owed(c)} ELSE {}
<1>1. c.generic \in Nat /\ c.xCount \in Nat /\ c.xValue \in Nat /\ MaxMana \in Nat
  BY PaymentAssumption DEF Costs
<1> DEFINE product == c.xCount * c.xValue
<1>2. product \in Nat
  BY <1>1
<1>3. GenericTotal(c) = UNION {Checked(c.generic + x) : x \in Checked(product)} /\ Owed(c) = c.generic + product
  BY DEF GenericTotal, Owed
<1> HIDE DEF product
<1>4. \A n \in Nat : Checked(n) = IF n <= MaxMana THEN {n} ELSE {}
  BY <1>1 DEF Checked
<1>5. CASE product <= MaxMana
  <2>1. Checked(product) = {product}
    BY <1>2, <1>4, <1>5
  <2>2. GenericTotal(c) = Checked(Owed(c))
    BY <1>3, <2>1
  <2> QED BY <1>1, <1>2, <1>3, <1>4, <2>2
<1>6. CASE ~(product <= MaxMana)
  <2>1. Checked(product) = {}
    BY <1>2, <1>4, <1>6
  <2>2. GenericTotal(c) = {}
    BY <1>3, <2>1
  <2> QED BY <1>1, <1>2, <1>3, <1>6, <2>2
<1> QED BY <1>5, <1>6

LEMMA ReduceFacts ==
  ASSUME NEW c \in Costs, NEW a \in Nat
  PROVE  /\ Owed(c) > MaxMana => ReduceGeneric(c, a) = {}
         /\ Owed(c) <= MaxMana =>
              \E d \in Costs : /\ ReduceGeneric(c, a) = {d}
                               /\ Owed(d) = Less(Owed(c), a) /\ Owed(d) <= MaxMana
                               /\ d.colored = c.colored /\ d.xValue = 0
<1>1. Owed(c) \in Nat /\ MaxMana \in Nat
  BY PaymentAssumption, OwedFacts
<1>2. CASE Owed(c) > MaxMana
  <2>1. GenericTotal(c) = {}
    BY <1>1, <1>2, OwedFacts
  <2> QED BY <1>1, <1>2, <2>1 DEF ReduceGeneric
<1>3. CASE Owed(c) <= MaxMana
  <2> DEFINE n == Less(Owed(c), a)
             d == [colored |-> c.colored, generic |-> n, xCount |-> 0, xValue |-> 0]
  <2>1. GenericTotal(c) = {Owed(c)}
    BY <1>3, OwedFacts
  <2>2. ReduceGeneric(c, a) = {d}
    BY <2>1 DEF ReduceGeneric, Less
  <2>3. n \in 0 .. MaxMana
    BY <1>1, <1>3 DEF Less
  <2> HIDE DEF n
  <2>4. d \in Costs /\ d.colored = c.colored /\ d.generic = n /\ d.xCount = 0 /\ d.xValue = 0
    <3>1. 0 \in 0 .. MaxMana
      BY <1>1
    <3> QED BY <2>3, <3>1 DEF Costs
  <2> HIDE DEF d
  <2>5. Owed(d) = n
    BY <2>3, <2>4 DEF Owed
  <2>6. Owed(d) = Less(Owed(c), a) /\ Owed(d) <= MaxMana
    BY <2>3, <2>5 DEF n
  <2> QED BY <1>1, <1>3, <2>2, <2>4, <2>6
<1> QED BY <1>1, <1>2, <1>3

Sources(s) == {r \in inPlay : s \in Cheaper[r]}
Taxed(s, base) == {[base EXCEPT !.generic = n] : n \in Checked(base.generic + CommanderTax(s))}
Full(s, x) == Printed[s].generic + CommanderTax(s) + Printed[s].xCount * x

LEMMA CostChain ==
  ASSUME NEW s, NEW base, PaymentFits, Taxed(s, base) \subseteq Costs
  PROVE  LET off == Keep(modifiers, Sources(s)) IN
         \E f : /\ EffectiveSpellCost(s, base) = f[Len(off)]
                /\ f[0] = Taxed(s, base)
                /\ \A i \in 1 .. Len(off) : f[i] = UNION {ReduceGeneric(c, Amount[off[i]]) : c \in f[i - 1]}
                /\ \A i \in 0 .. Len(off) : f[i] \subseteq Costs
<1> DEFINE off == Keep(modifiers, Sources(s))
           n == Len(off)
           taxed == Taxed(s, base)
           step == [i \in 1 .. n |-> [C \in SUBSET Costs |-> UNION {ReduceGeneric(c, Amount[off[i]]) : c \in C}]]
           G == [i \in 0 .. n |-> SUBSET Costs]
           Is(f) == f = [i \in 0 .. n |-> IF i = 0 THEN taxed
                                          ELSE UNION {ReduceGeneric(c, Amount[off[i]]) : c \in f[i - 1]}]
<1>1. off \in Seq(Reducers) /\ n \in Nat /\ \A i \in 1 .. n : Amount[off[i]] \in Nat
  <2>1. off \in Seq(Reducers)
    BY KeepFacts DEF PaymentFits
  <2> QED BY <2>1, PaymentAssumption
<1>2. ASSUME NEW i \in 1 .. n, NEW C \in SUBSET Costs
      PROVE  UNION {ReduceGeneric(c, Amount[off[i]]) : c \in C} \in SUBSET Costs
  <2>1. ASSUME NEW c \in C PROVE ReduceGeneric(c, Amount[off[i]]) \subseteq Costs
    <3> DEFINE a == Amount[off[i]]
    <3>1. c \in Costs /\ a \in Nat
      BY <1>1
    <3> HIDE DEF a, off
    <3>2. Owed(c) \in Nat /\ MaxMana \in Nat
      BY <3>1, OwedFacts, PaymentAssumption
    <3>3. CASE Owed(c) > MaxMana
      <4>1. ReduceGeneric(c, a) = {}
        BY <3>1, <3>3, ReduceFacts
      <4> QED BY <4>1 DEF a
    <3>4. CASE Owed(c) <= MaxMana
      <4>1. PICK d \in Costs : ReduceGeneric(c, a) = {d}
        BY <3>1, <3>4, ReduceFacts
      <4> QED BY <4>1 DEF a
    <3> QED BY <3>2, <3>3, <3>4
  <2> QED BY <2>1
<1>3. taxed \in SUBSET Costs
  OBVIOUS
<1> HIDE DEF taxed
<1>4. PICK f : Recursion(f, n, taxed, step) /\ \A i \in 0 .. n : f[i] \in G[i]
  <2>1. taxed \in G[0]
    BY <1>1, <1>3
  <2>2. ASSUME NEW i \in 1 .. n, NEW C \in G[i - 1] PROVE step[i][C] \in G[i]
    <3>1. i \in 0 .. n /\ i - 1 \in 0 .. n
      BY <1>1
    <3> HIDE DEF off, n
    <3> QED BY <1>2, <3>1
  <2> HIDE DEF G, step, off, n
  <2> QED BY <1>1, <2>1, <2>2, RecursionStays
<1>5. Is(f)
  <2>1. \A i \in 0 .. n : f[i] \in SUBSET Costs
    BY <1>4
  <2>2. \A i \in 1 .. n : f[i - 1] \in SUBSET Costs
    <3>1. \A i \in 1 .. n : i - 1 \in 0 .. n
      BY <1>1
    <3> QED BY <2>1, <3>1
  <2>3. \A i \in 1 .. n : step[i][f[i - 1]] = UNION {ReduceGeneric(c, Amount[off[i]]) : c \in f[i - 1]}
    BY <2>2
  <2>4. \A i \in 0 .. n : i # 0 => i \in 1 .. n
    BY <1>1
  <2> HIDE DEF step, off, n
  <2> QED BY <1>4, <2>3, <2>4 DEF Recursion
<1>6. ASSUME NEW h, Is(h) PROVE h = f
  <2> DEFINE T == {i \in 0 .. n : h[i] = f[i]}
  <2> HIDE DEF off, n
  <2>1. 0 \in T
    BY <1>1, <1>5, <1>6
  <2>2. ASSUME NEW i \in 0 .. n, i > 0, i - 1 \in T PROVE i \in T
    BY <1>5, <1>6, <2>2
  <2>3. \A i \in 0 .. n : h[i] = f[i]
    <3> HIDE DEF T
    <3>1. \A i \in 0 .. n : i \in T
      BY <1>1, <2>1, <2>2, UpTo
    <3> QED BY <3>1 DEF T
  <2>4. h = [i \in 0 .. n |-> h[i]] /\ f = [i \in 0 .. n |-> f[i]]
    BY <1>5, <1>6
  <2> QED BY <2>3, <2>4
<1>7. EffectiveSpellCost(s, base) = f[n]
  <2>1. (CHOOSE h : Is(h)) = f
    BY <1>5, <1>6
  <2> QED BY <2>1, Zenon DEF EffectiveSpellCost, Taxed, Sources, taxed
<1>8. f[0] = taxed /\ \A i \in 1 .. n : f[i] = UNION {ReduceGeneric(c, Amount[off[i]]) : c \in f[i - 1]}
  <2>1. 0 \in 0 .. n /\ \A i \in 1 .. n : i \in 0 .. n /\ i # 0
    BY <1>1
  <2> HIDE DEF off, n
  <2> QED BY <1>5, <2>1
<1>9. \A i \in 0 .. n : f[i] \subseteq Costs
  BY <1>4
<1> QED BY <1>7, <1>8, <1>9 DEF taxed

LEMMA LessTwice ==
  ASSUME NEW a \in Nat, NEW b \in Nat, NEW c \in Nat
  PROVE  Less(Less(a, b), c) = Less(a, b + c) /\ Less(a, 0) = a /\ Less(a, b) \in Nat /\ Less(a, b) <= a
BY DEF Less

LEMMA SourcesFacts ==
  ASSUME NEW s, PaymentFits
  PROVE  /\ IsFiniteSet(Sources(s)) /\ Sources(s) \subseteq Reducers
         /\ \A T \in SUBSET Sources(s) : IsFiniteSet(T) /\ Sum(Amount, T) \in Nat
         /\ LET off == Keep(modifiers, Sources(s)) IN
              off \in Seq(Reducers) /\ IsInjective(off) /\ Range(off) = Sources(s)
<1>1. /\ modifiers \in Seq(Reducers) /\ IsInjective(modifiers)
      /\ Sources(s) \subseteq Range(modifiers)
  BY DEF PaymentFits, Sources
<1>2. modifiers \in Surjection(1 .. Len(modifiers), Range(modifiers)) /\ Len(modifiers) \in Nat
  BY <1>1 DEF Surjection, Range
<1>3. IsFiniteSet(Range(modifiers))
  BY <1>2, FS_NatSurjection DEF ExistsSurjection
<1>4. Range(modifiers) \subseteq Reducers
  BY <1>1 DEF Range
<1>5. IsFiniteSet(Sources(s)) /\ Sources(s) \subseteq Reducers
  BY <1>1, <1>3, <1>4, FS_Subset
<1>6. ASSUME NEW T \in SUBSET Sources(s)
      PROVE  IsFiniteSet(T) /\ Sum(Amount, T) \in Nat
  <2>1. IsFiniteSet(T) /\ \A r \in T : Amount[r] \in Nat
    BY <1>5, FS_Subset, PaymentAssumption
  <2> QED BY <2>1, SumFacts
<1> DEFINE off == Keep(modifiers, Sources(s))
<1>7. off \in Seq(Reducers) /\ IsInjective(off) /\ Range(off) = Range(modifiers) \cap Sources(s)
  BY <1>1, KeepFacts
<1>8. Range(off) = Sources(s)
  BY <1>1, <1>7
<1> QED BY <1>5, <1>6, <1>7, <1>8

LEMMA TaxFacts ==
  ASSUME NEW s \in Spells, NEW x \in 0 .. MaxMana, PaymentFits
  PROVE  LET base == WithX(Printed[s], x) IN
         /\ Full(s, x) \in Nat
         /\ Taxed(s, base) \subseteq Costs
         /\ \A c, d \in Taxed(s, base) : c = d
         /\ \A c \in Taxed(s, base) : c.colored = Printed[s].colored /\ c.xValue = x /\ Owed(c) = Full(s, x)
         /\ Full(s, x) <= MaxMana => Taxed(s, base) # {}
<1> DEFINE base == WithX(Printed[s], x)
           t == base.generic + CommanderTax(s)
           d == [base EXCEPT !.generic = t]
           product == Printed[s].xCount * x
<1>1. MaxMana \in Nat /\ Printed[s] \in Costs
  BY PaymentAssumption
<1>2. /\ base \in Costs /\ base.colored = Printed[s].colored /\ base.generic = Printed[s].generic
      /\ base.xCount = Printed[s].xCount /\ base.xValue = x
  BY <1>1 DEF WithX, Costs
<1> HIDE DEF base
<1>3. CommanderTax(s) \in Nat
  BY DEF CommanderTax, PaymentFits
<1>4. t \in Nat /\ product \in Nat /\ Full(s, x) = t + product
  <2>1. Printed[s].generic \in Nat /\ Printed[s].xCount \in Nat /\ x \in Nat
    BY <1>1 DEF Costs
  <2>2. t \in Nat
    BY <1>2, <1>3, <2>1
  <2>3. product \in Nat
    BY <2>1
  <2>4. Full(s, x) = t + product
    BY <1>2, <1>3, <2>1 DEF Full
  <2> QED BY <2>2, <2>3, <2>4
<1>5. Taxed(s, base) = IF t <= MaxMana THEN {d} ELSE {}
  <2>1. Checked(t) = IF t <= MaxMana THEN {t} ELSE {}
    BY <1>1, <1>4 DEF Checked
  <2> HIDE DEF t
  <2>2. Taxed(s, base) = {[base EXCEPT !.generic = n] : n \in Checked(t)}
    BY DEF Taxed, t
  <2> QED BY <2>1, <2>2
<1>6. ASSUME t <= MaxMana
      PROVE  d \in Costs /\ d.colored = Printed[s].colored /\ d.xValue = x /\ Owed(d) = Full(s, x)
  <2> HIDE DEF t
  <2>1. d \in Costs /\ d.colored = base.colored /\ d.generic = t /\ d.xCount = base.xCount /\ d.xValue = base.xValue
    BY <1>1, <1>2, <1>4, <1>6 DEF Costs
  <2> HIDE DEF d
  <2> QED BY <1>2, <1>4, <2>1 DEF Owed
<1>7. Full(s, x) <= MaxMana => t <= MaxMana
  BY <1>1, <1>4
<1> HIDE DEF t, d, product
<1>8. Full(s, x) \in Nat
  BY <1>4
<1>9. CASE t <= MaxMana
  BY <1>5, <1>6, <1>8, <1>9 DEF base
<1>10. CASE ~(t <= MaxMana)
  BY <1>5, <1>7, <1>8, <1>10 DEF base
<1> QED BY <1>9, <1>10

\* What effective_spell_cost returns: the full price less all that applies,
\* unless the price itself overflows.
LEMMA CostFacts ==
  ASSUME NEW s \in Spells, NEW x \in 0 .. MaxMana, PaymentFits
  PROVE  LET costs == EffectiveSpellCost(s, WithX(Printed[s], x)) IN
         /\ costs \subseteq Costs
         /\ \A c, d \in costs : c = d
         /\ \A c \in costs : /\ c.colored = Printed[s].colored /\ c.xValue \in {0, x}
                             /\ Owed(c) = Less(Full(s, x), Sum(Amount, Sources(s)))
         /\ (\E c \in costs : Owed(c) <= MaxMana) <=> Full(s, x) <= MaxMana
<1> DEFINE base == WithX(Printed[s], x)
           off == Keep(modifiers, Sources(s))
           n == Len(off)
           full == Full(s, x)
           P(i) == {off[j] : j \in 1 .. i}
           S(i) == Sum(Amount, P(i))
<1>1. off \in Seq(Reducers) /\ IsInjective(off) /\ Range(off) = Sources(s)
  BY SourcesFacts
<1>2. n \in Nat /\ DOMAIN off = 1 .. n /\ full \in Nat /\ MaxMana \in Nat
  BY <1>1, TaxFacts, PaymentAssumption
<1>3. PICK f : /\ EffectiveSpellCost(s, base) = f[n]
               /\ f[0] = Taxed(s, base)
               /\ \A i \in 1 .. n : f[i] = UNION {ReduceGeneric(c, Amount[off[i]]) : c \in f[i - 1]}
               /\ \A i \in 0 .. n : f[i] \subseteq Costs
  <2>1. Taxed(s, base) \subseteq Costs
    BY TaxFacts
  <2> QED BY <2>1, CostChain
<1> HIDE DEF base, full
<1>4. \A i \in 0 .. n : P(i) \in SUBSET Sources(s) /\ IsFiniteSet(P(i)) /\ S(i) \in Nat
  <2>1. \A i \in 0 .. n : P(i) \in SUBSET Sources(s)
    BY <1>1, <1>2 DEF Range
  <2> HIDE DEF P
  <2> QED BY <2>1, SourcesFacts
<1>5. P(0) = {} /\ S(0) = 0 /\ P(n) = Sources(s)
  <2>1. P(0) = {} /\ P(n) = Sources(s)
    BY <1>1, <1>2 DEF Range
  <2>2. Sum(Amount, {}) = 0
    BY FS_EmptySet, SumFacts
  <2> HIDE DEF P
  <2> QED BY <2>1, <2>2
<1>6. ASSUME NEW i \in 1 .. n
      PROVE  S(i) = S(i - 1) + Amount[off[i]] /\ Amount[off[i]] \in Nat
  <2>1. i - 1 \in 0 .. n /\ i \in 0 .. n
    BY <1>2
  <2>2. off[i] \notin P(i - 1) /\ P(i) = P(i - 1) \cup {off[i]}
    <3>1. \A j \in 1 .. i - 1 : j \in 1 .. n /\ j # i
      BY <1>2
    <3>2. \A j \in 1 .. i : j = i \/ j \in 1 .. i - 1
      BY <1>2
    <3>3. \A j \in 1 .. i - 1 : j \in 1 .. i
      BY <1>2
    <3>4. i \in 1 .. i
      BY <1>2
    <3> HIDE DEF off, n
    <3> QED BY <1>1, <1>2, <3>1, <3>2, <3>3, <3>4 DEF IsInjective
  <2>3. IsFiniteSet(P(i - 1)) /\ P(i) \in SUBSET Sources(s) /\ S(i - 1) \in Nat
    BY <1>4, <2>1
  <2>4. \A r \in Sources(s) : Amount[r] \in Nat
    BY SourcesFacts, PaymentAssumption
  <2> HIDE DEF P, off, n
  <2>5. \A r \in P(i - 1) \cup {off[i]} : Amount[r] \in Nat
    BY <2>2, <2>3, <2>4
  <2>6. Sum(Amount, P(i - 1) \cup {off[i]}) = Amount[off[i]] + Sum(Amount, P(i - 1))
    BY <2>2, <2>3, <2>5, SumInsert
  <2>7. Amount[off[i]] \in Nat
    BY <2>5
  <2> QED BY <2>2, <2>3, <2>6, <2>7
<1> DEFINE Good(i) == /\ \A c, d \in f[i] : c = d
                      /\ \A c \in f[i] : /\ c.colored = Printed[s].colored /\ c.xValue \in {0, x}
                                         /\ Owed(c) = Less(full, S(i))
                      /\ (\E c \in f[i] : Owed(c) <= MaxMana) <=> full <= MaxMana
           T == {i \in 0 .. n : Good(i)}
<1> HIDE DEF S, P, off, n
<1>7. 0 \in T
  <2>1. /\ \A c, d \in f[0] : c = d
        /\ \A c \in f[0] : c.colored = Printed[s].colored /\ c.xValue = x /\ Owed(c) = full
        /\ full <= MaxMana => f[0] # {}
    BY <1>3, TaxFacts DEF base, full
  <2>2. Less(full, S(0)) = full
    BY <1>2, <1>5, LessTwice
  <2>3. 0 \in 0 .. n
    BY <1>2
  <2> QED BY <2>1, <2>2, <2>3
<1>8. ASSUME NEW i \in 0 .. n, i > 0, i - 1 \in T
      PROVE  i \in T
  <2> DEFINE a == Amount[off[i]]
  <2>1. i \in 1 .. n /\ i - 1 \in 0 .. n
    BY <1>2, <1>8
  <2>2. Good(i - 1)
    BY <1>8
  <2>3. f[i] = UNION {ReduceGeneric(c, a) : c \in f[i - 1]} /\ f[i - 1] \subseteq Costs
    BY <1>3, <2>1
  <2>4. S(i) = S(i - 1) + a /\ a \in Nat /\ S(i - 1) \in Nat
    BY <1>4, <1>6, <2>1
  <2> HIDE DEF a
  <2>5. CASE full <= MaxMana
    <3>1. PICK c \in f[i - 1] : Owed(c) <= MaxMana
      BY <2>2, <2>5
    <3>2. f[i - 1] = {c} /\ c \in Costs
      BY <2>2, <2>3, <3>1
    <3>3. f[i] = ReduceGeneric(c, a)
      BY <2>3, <3>2
    <3>4. PICK d \in Costs : /\ ReduceGeneric(c, a) = {d}
                             /\ Owed(d) = Less(Owed(c), a) /\ Owed(d) <= MaxMana
                             /\ d.colored = c.colored /\ d.xValue = 0
      BY <2>4, <3>1, <3>2, ReduceFacts
    <3>5. Owed(d) = Less(full, S(i))
      <4>1. Owed(c) = Less(full, S(i - 1))
        BY <2>2
      <4>2. Less(Less(full, S(i - 1)), a) = Less(full, S(i - 1) + a)
        BY <1>2, <2>4, LessTwice
      <4> QED BY <2>4, <3>4, <4>1, <4>2
    <3>6. c.colored = Printed[s].colored
      BY <2>2
    <3>7. f[i] = {d} /\ d.colored = Printed[s].colored
      BY <3>3, <3>4, <3>6
    <3>8. Good(i)
      BY <2>5, <3>4, <3>5, <3>7
    <3> HIDE DEF Good
    <3> QED BY <3>8
  <2>6. CASE ~(full <= MaxMana)
    <3>1. \A c \in f[i - 1] : ReduceGeneric(c, a) = {}
      <4> SUFFICES ASSUME NEW c \in f[i - 1] PROVE ReduceGeneric(c, a) = {}
        OBVIOUS
      <4>1. c \in Costs /\ ~(Owed(c) <= MaxMana)
        BY <2>2, <2>3, <2>6
      <4>2. Owed(c) > MaxMana
        BY <1>2, <4>1, OwedFacts
      <4> QED BY <2>4, <4>1, <4>2, ReduceFacts
    <3>2. f[i] = {}
      BY <2>3, <3>1
    <3>3. Good(i)
      BY <2>6, <3>2
    <3> HIDE DEF Good
    <3> QED BY <3>3
  <2> QED BY <2>5, <2>6
<1>9. n \in T
  <2> HIDE DEF T
  <2>1. \A i \in 0 .. n : i \in T
    BY <1>2, <1>7, <1>8, UpTo
  <2> QED BY <1>2, <2>1
<1>10. Good(n) /\ n \in 0 .. n
  BY <1>2, <1>9
<1>11. f[n] \subseteq Costs /\ S(n) = Sum(Amount, Sources(s))
  BY <1>3, <1>5, <1>10 DEF S
<1> QED BY <1>3, <1>10, <1>11 DEF base, full

----------------------------------------------------------------------------
(* The order in which payments are found.                                   *)

LEMMA FunctionsAreFinite ==
  ASSUME NEW S, IsFiniteSet(S), NEW T, IsFiniteSet(T)
  PROVE  IsFiniteSet([S -> T])
<1> DEFINE graph(f) == {<<x, f[x]>> : x \in S}
           M == [f \in [S -> T] |-> graph(f)]
           U == SUBSET (S \X T)
<1>1. IsFiniteSet(U)
  BY FS_Product, FS_SUBSET
<1>2. M \in [[S -> T] -> U]
  OBVIOUS
<1>3. ASSUME NEW f \in [S -> T], NEW g \in [S -> T], M[f] = M[g]
      PROVE  f = g
  <2>1. graph(f) = graph(g)
    BY <1>3
  <2>2. ASSUME NEW x \in S PROVE f[x] = g[x]
    <3>1. <<x, f[x]>> \in graph(g)
      BY <2>1
    <3>2. PICK y \in S : <<x, f[x]>> = <<y, g[y]>>
      BY <3>1
    <3> QED BY <3>2
  <2> QED BY <2>2
<1>4. M \in Injection([S -> T], U)
  <2>1. DOMAIN M = [S -> T]
    OBVIOUS
  <2> HIDE DEF M, U
  <2> QED BY <1>2, <1>3, <2>1 DEF Injection, IsInjective
<1> HIDE DEF M, U
<1> QED BY <1>1, <1>4, FS_Injection

LEMMA PaymentsFinite ==
  ASSUME NEW r, NEW n \in Nat
  PROVE  IsFiniteSet(GenericPayments(r, n))
<1>1. IsFiniteSet(0 .. n)
  BY FS_Interval
<1>2. IsFiniteSet([ToSet(Kinds) -> 0 .. n])
  BY <1>1, KindFacts, FunctionsAreFinite
<1>3. GenericPayments(r, n) \in SUBSET [ToSet(Kinds) -> 0 .. n]
  BY DEF GenericPayments
<1> QED BY <1>2, <1>3, FS_Subset

LEMMA ColorFacts ==
  /\ DOMAIN Colors = 1 .. Len(Colors) /\ Len(Colors) \in Nat
  /\ \A i \in DOMAIN Colors : Colors[i] \in ToSet(Kinds)
  /\ \A k \in ToSet(Kinds) : k = Colorless \/ \E i \in DOMAIN Colors : k = Colors[i]
  /\ Colorless \in ToSet(Kinds)
<1>1. DOMAIN Colors = 1 .. Len(Colors) /\ Len(Colors) \in Nat
  <2>1. Colors \in Seq(ToSet(Colors))
    BY KindFacts
  <2> QED BY <2>1
<1>2. ToSet(Colors) = {Colors[i] : i \in DOMAIN Colors}
  BY DEF ToSet
<1>3. ToSet(Kinds) = ToSet(Colors) \cup {Colorless}
  BY KindFacts
<1> QED BY <1>1, <1>2, <1>3

LEMMA EarlierIsTotal ==
  ASSUME NEW g \in Amounts, NEW h \in Amounts, Total(g) = Total(h), g # h
  PROVE  Earlier(g, h) \/ Earlier(h, g)
<1>1. /\ ColoredTotal(g) \in Nat /\ ColoredTotal(h) \in Nat
      /\ Total(g) = g[Colorless] + ColoredTotal(g) /\ Total(h) = h[Colorless] + ColoredTotal(h)
      /\ \A k \in ToSet(Kinds) : g[k] \in Nat /\ h[k] \in Nat
  BY TotalFacts
<1>2. /\ DOMAIN Colors = 1 .. Len(Colors) /\ Len(Colors) \in Nat
      /\ \A i \in DOMAIN Colors : Colors[i] \in ToSet(Kinds)
      /\ \A k \in ToSet(Kinds) : k = Colorless \/ \E i \in DOMAIN Colors : k = Colors[i]
      /\ Colorless \in ToSet(Kinds)
  BY ColorFacts
<1>3. CASE ColoredTotal(g) # ColoredTotal(h)
  BY <1>1, <1>3 DEF Earlier
<1>4. CASE ColoredTotal(g) = ColoredTotal(h)
  <2> DEFINE D == {i \in DOMAIN Colors : g[Colors[i]] # h[Colors[i]]}
  <2>1. D # {}
    <3> SUFFICES ASSUME D = {} PROVE FALSE
      OBVIOUS
    <3>1. \A i \in DOMAIN Colors : g[Colors[i]] = h[Colors[i]]
      OBVIOUS
    <3>2. g[Colorless] = h[Colorless]
      <4> DEFINE a == g[Colorless]
                 b == h[Colorless]
                 t == ColoredTotal(g)
      <4>1. a \in Nat /\ b \in Nat /\ t \in Nat /\ a + t = b + t
        BY <1>1, <1>2, <1>4
      <4> HIDE DEF a, b, t
      <4>2. a = b
        BY <4>1
      <4> QED BY <4>2 DEF a, b
    <3>3. \A k \in ToSet(Kinds) : g[k] = h[k]
      BY <1>2, <3>1, <3>2
    <3>4. g = h
      BY <3>3 DEF Amounts
    <3> QED BY <3>4
  <2>2. D \in SUBSET Nat
    BY <1>2
  <2>3. PICK i \in D : \A j \in D : i <= j
    <3> HIDE DEF D
    <3> QED BY <2>1, <2>2, LeastNatural
  <2>4. i \in DOMAIN Colors /\ g[Colors[i]] # h[Colors[i]] /\ i \in Nat
    BY <2>2, <2>3
  <2>5. \A j \in 1 .. i - 1 : g[Colors[j]] = h[Colors[j]]
    <3> SUFFICES ASSUME NEW j \in 1 .. i - 1, j \in D PROVE FALSE
      BY <1>2, <2>4
    <3>1. i <= j
      BY <2>3
    <3> QED BY <2>4, <3>1
  <2>6. g[Colors[i]] < h[Colors[i]] \/ h[Colors[i]] < g[Colors[i]]
    BY <1>1, <1>2, <2>4
  <2> QED BY <1>4, <2>4, <2>5, <2>6 DEF Earlier
<1> QED BY <1>3, <1>4

LEMMA EarlierIsTransitive ==
  ASSUME NEW g \in Amounts, NEW h \in Amounts, NEW k \in Amounts, Earlier(g, h), Earlier(h, k)
  PROVE  Earlier(g, k)
<1>1. /\ ColoredTotal(g) \in Nat /\ ColoredTotal(h) \in Nat /\ ColoredTotal(k) \in Nat
      /\ \A i \in ToSet(Kinds) : g[i] \in Nat /\ h[i] \in Nat /\ k[i] \in Nat
  BY TotalFacts
<1>2. /\ DOMAIN Colors = 1 .. Len(Colors) /\ Len(Colors) \in Nat
      /\ \A i \in DOMAIN Colors : Colors[i] \in ToSet(Kinds)
  BY ColorFacts
<1>3. ColoredTotal(g) <= ColoredTotal(h) /\ ColoredTotal(h) <= ColoredTotal(k)
  BY <1>1 DEF Earlier
<1>4. CASE ColoredTotal(g) < ColoredTotal(k)
  BY <1>4 DEF Earlier
<1>5. CASE ~(ColoredTotal(g) < ColoredTotal(k))
  <2>1. ColoredTotal(g) = ColoredTotal(h) /\ ColoredTotal(h) = ColoredTotal(k)
    BY <1>1, <1>3, <1>5
  <2>2. PICK a \in DOMAIN Colors : /\ g[Colors[a]] < h[Colors[a]]
                                   /\ \A j \in 1 .. a - 1 : g[Colors[j]] = h[Colors[j]]
    BY <1>1, <2>1 DEF Earlier
  <2>3. PICK b \in DOMAIN Colors : /\ h[Colors[b]] < k[Colors[b]]
                                   /\ \A j \in 1 .. b - 1 : h[Colors[j]] = k[Colors[j]]
    BY <1>1, <2>1 DEF Earlier
  <2> DEFINE c == IF a < b THEN a ELSE b
  <2>4. c \in DOMAIN Colors /\ \A j \in 1 .. c - 1 : j \in 1 .. a - 1 /\ j \in 1 .. b - 1
    BY <1>2
  <2>5. \A j \in 1 .. c - 1 : g[Colors[j]] = k[Colors[j]]
    <3> HIDE DEF c
    <3> QED BY <2>2, <2>3, <2>4
  <2>6. g[Colors[c]] < k[Colors[c]]
    <3>1. CASE a < b
      <4>1. c = a /\ a \in 1 .. b - 1
        BY <1>2, <3>1
      <4>2. h[Colors[a]] = k[Colors[a]]
        BY <2>3, <4>1
      <4> QED BY <2>2, <4>1, <4>2
    <3>2. CASE b < a
      <4>1. c = b /\ b \in 1 .. a - 1
        BY <1>2, <3>2
      <4>2. g[Colors[b]] = h[Colors[b]]
        BY <2>2, <4>1
      <4> QED BY <2>3, <4>1, <4>2
    <3>3. CASE a = b
      <4>1. c = a /\ Colors[a] \in ToSet(Kinds)
        BY <1>2, <3>3
      <4> QED BY <1>1, <2>2, <2>3, <3>3, <4>1
    <3> QED BY <1>2, <3>1, <3>2, <3>3
  <2> HIDE DEF c
  <2> QED BY <2>1, <2>4, <2>5, <2>6 DEF Earlier
<1> QED BY <1>4, <1>5

First(g, T) == \A h \in T \ {g} : Earlier(g, h)
Foremost(T) == CHOOSE g \in T : First(g, T)

\* Of payments of one total one is the first.
LEMMA FirstExists ==
  ASSUME NEW n, NEW S \in SUBSET {g \in Amounts : Total(g) = n}, IsFiniteSet(S), S # {}
  PROVE  Foremost(S) \in S /\ First(Foremost(S), S)
<1> DEFINE F == {T \in SUBSET S : T = {} \/ \E g \in T : First(g, T)}
<1>1. {} \in F
  OBVIOUS
<1>2. ASSUME NEW T \in SUBSET S, NEW x \in S \ T, T \in F
      PROVE  T \cup {x} \in F
  <2>1. CASE T = {}
    <3>1. First(x, T \cup {x}) /\ x \in T \cup {x}
      BY <2>1 DEF First
    <3> QED BY <3>1
  <2>2. CASE T # {}
    <3>1. PICK g \in T : First(g, T)
      BY <1>2, <2>2
    <3>2. x \in Amounts /\ g \in Amounts /\ Total(x) = Total(g) /\ x # g
      OBVIOUS
    <3>3. CASE Earlier(g, x)
      <4>1. First(g, T \cup {x})
        BY <3>1, <3>3 DEF First
      <4> QED BY <4>1
    <3>4. CASE Earlier(x, g)
      <4> SUFFICES ASSUME NEW h \in T PROVE Earlier(x, h)
        <5>1. (\A h \in T : Earlier(x, h)) => First(x, T \cup {x})
          BY DEF First
        <5> QED BY <5>1
      <4>1. CASE h = g
        BY <3>4, <4>1
      <4>2. CASE h # g
        <5>1. Earlier(g, h) /\ h \in Amounts
          BY <3>1, <4>2 DEF First
        <5> QED BY <3>2, <3>4, <5>1, EarlierIsTransitive
      <4> QED BY <4>1, <4>2
    <3> QED BY <3>2, <3>3, <3>4, EarlierIsTotal
  <2> QED BY <2>1, <2>2
<1>3. S \in F
  <2> HIDE DEF F
  <2> QED BY <1>1, <1>2, UpToSet
<1>4. \E g \in S : First(g, S)
  BY <1>3
<1> QED BY <1>4 DEF Foremost

\* The first m payments of a set, each before all that follow it.
Leads(q, S) ==
    \A i \in DOMAIN q : \A h \in S : (\A j \in 1 .. i : q[j] # h) => Earlier(q[i], h)

LEMMA FirstFacts ==
  ASSUME NEW n, NEW S \in SUBSET {g \in Amounts : Total(g) = n}, IsFiniteSet(S),
         NEW m \in 0 .. Cardinality(S)
  PROVE  LET q == FirstPayments(S, m) IN
         /\ q \in Seq(S) /\ Len(q) = m /\ IsInjective(q) /\ Leads(q, S)
<1> DEFINE G == [i \in 0 .. m |-> {q \in Seq(S) : Len(q) = i /\ IsInjective(q) /\ Leads(q, S)}]
           step == [i \in 1 .. m |-> [q \in Seq(S) |-> Append(q, Foremost(S \ ToSet(q)))]]
           Is(f) == f = [i \in 0 .. m |-> IF i = 0 THEN <<>>
                                          ELSE Append(f[i - 1], Foremost(S \ ToSet(f[i - 1])))]
<1>1. Cardinality(S) \in Nat /\ m \in Nat
  BY FS_CardinalityType
<1>2. <<>> \in G[0]
  <2>1. <<>> \in Seq(S) /\ Len(<<>>) = 0 /\ IsInjective(<<>>) /\ Leads(<<>>, S)
    BY DEF IsInjective, Leads
  <2>2. 0 \in 0 .. m
    BY <1>1
  <2> QED BY <2>1, <2>2
<1>3. ASSUME NEW i \in 1 .. m, NEW q \in G[i - 1]
      PROVE  step[i][q] \in G[i]
  <2> DEFINE left == S \ ToSet(q)
             x == Foremost(left)
             r == Append(q, x)
  <2>1. i \in 0 .. m /\ i - 1 \in 0 .. m /\ i - 1 \in Nat
    BY <1>1
  <2>2. q \in Seq(S) /\ Len(q) = i - 1 /\ IsInjective(q) /\ Leads(q, S)
    BY <2>1
  <2>3. DOMAIN q = 1 .. i - 1 /\ ToSet(q) \subseteq S
    BY <2>2 DEF ToSet
  <2>4. left # {}
    <3>1. ToSet(q) # S
      <4>1. q \in Surjection(1 .. i - 1, ToSet(q))
        BY <2>2, <2>3 DEF Surjection, ToSet
      <4>2. ExistsSurjection(1 .. i - 1, ToSet(q))
        BY <4>1 DEF ExistsSurjection
      <4>3. Cardinality(ToSet(q)) <= i - 1
        BY <2>1, <4>2, FS_SurjCardinalityBound
      <4>4. i - 1 < Cardinality(S)
        BY <1>1
      <4> QED BY <1>1, <2>1, <4>3, <4>4
    <3> QED BY <2>3, <3>1
  <2>5. x \in left /\ First(x, left)
    <3>1. left \in SUBSET {g \in Amounts : Total(g) = n} /\ IsFiniteSet(left)
      BY FS_Subset
    <3> HIDE DEF left
    <3> QED BY <2>4, <3>1, FirstExists
  <2> HIDE DEF x
  <2>6. r \in Seq(S) /\ Len(r) = i /\ IsInjective(r)
    <3>1. x \in S /\ x \notin Range(q)
      BY <2>5 DEF ToSet, Range
    <3>2. /\ r \in Seq(S) /\ Len(r) = Len(q) + 1
          /\ IsInjective(q) /\ x \notin Range(q) => IsInjective(r)
      BY <2>2, <3>1, AppendFacts
    <3> QED BY <2>1, <2>2, <3>1, <3>2
  <2>7. DOMAIN r = 1 .. i /\ r[i] = x /\ \A j \in 1 .. i - 1 : r[j] = q[j]
    BY <2>1, <2>2, <2>5
  <2> HIDE DEF r
  <2>8. Leads(r, S)
    <3> SUFFICES ASSUME NEW k \in 1 .. i, NEW h \in S, \A j \in 1 .. k : r[j] # h
                 PROVE  Earlier(r[k], h)
      BY <2>7 DEF Leads
    <3>1. CASE k = i
      <4>1. \A j \in 1 .. i - 1 : q[j] # h /\ j \in 1 .. i
        BY <2>1, <2>7, <3>1
      <4>2. h \in left /\ h # x
        <5>1. i \in 1 .. i
          BY <2>1
        <5> QED BY <2>3, <2>7, <3>1, <4>1, <5>1 DEF ToSet
      <4> HIDE DEF left
      <4> QED BY <2>5, <2>7, <3>1, <4>2 DEF First
    <3>2. CASE k # i
      <4>1. k \in 1 .. i - 1 /\ \A j \in 1 .. k : j \in 1 .. i - 1
        BY <2>1, <3>2
      <4>2. \A j \in 1 .. k : q[j] # h
        BY <2>7, <4>1
      <4>3. Earlier(q[k], h)
        BY <2>2, <2>3, <4>1, <4>2 DEF Leads
      <4> QED BY <2>7, <4>1, <4>3
    <3> QED BY <3>1, <3>2
  <2>9. step[i][q] = r
    BY <2>2 DEF r, x
  <2> HIDE DEF step
  <2> QED BY <2>1, <2>6, <2>8, <2>9
<1>4. PICK f : Recursion(f, m, <<>>, step) /\ \A i \in 0 .. m : f[i] \in G[i]
  <2> HIDE DEF G, step
  <2> QED BY <1>1, <1>2, <1>3, RecursionStays
<1>5. Is(f)
  <2>1. \A i \in 1 .. m : i - 1 \in 0 .. m
    BY <1>1
  <2>2. \A i \in 1 .. m : f[i - 1] \in Seq(S)
    BY <1>4, <2>1
  <2>3. \A i \in 1 .. m : step[i][f[i - 1]] = Append(f[i - 1], Foremost(S \ ToSet(f[i - 1])))
    BY <2>2
  <2>4. \A i \in 0 .. m : i # 0 => i \in 1 .. m
    BY <1>1
  <2> HIDE DEF step, G
  <2> QED BY <1>4, <2>3, <2>4 DEF Recursion
<1>6. ASSUME NEW h, Is(h) PROVE h = f
  <2> DEFINE T == {i \in 0 .. m : h[i] = f[i]}
  <2>1. 0 \in T
    BY <1>1, <1>5, <1>6
  <2>2. ASSUME NEW i \in 0 .. m, i > 0, i - 1 \in T PROVE i \in T
    BY <1>5, <1>6, <2>2
  <2>3. \A i \in 0 .. m : h[i] = f[i]
    <3> HIDE DEF T
    <3>1. \A i \in 0 .. m : i \in T
      BY <1>1, <2>1, <2>2, UpTo
    <3> QED BY <3>1 DEF T
  <2>4. h = [i \in 0 .. m |-> h[i]] /\ f = [i \in 0 .. m |-> f[i]]
    BY <1>5, <1>6
  <2> QED BY <2>3, <2>4
<1>7. FirstPayments(S, m) = f[m]
  <2>1. (CHOOSE h : Is(h)) = f
    BY <1>5, <1>6
  <2> QED BY <2>1, Zenon DEF FirstPayments, Foremost, First
<1>8. m \in 0 .. m
  BY <1>1
<1> QED BY <1>4, <1>7, <1>8

----------------------------------------------------------------------------
(* What the driver offers and what the kernel accepts.                      *)

\* The ways to pay the generic part of a cost from a pool.
Payable(available, cost) ==
    {g \in Amounts : /\ Covers(available, ColoredPool(cost)) /\ Total(g) = Owed(cost)
                     /\ Covers(Minus(available, ColoredPool(cost)), g)}

LEMMA PoolFacts ==
  ASSUME NEW available \in Amounts, NEW cost \in Costs
  PROVE  /\ ColoredPool(cost) \in Amounts
         /\ Covers(available, ColoredPool(cost)) => Minus(available, ColoredPool(cost)) \in Amounts
<1>1. ASSUME NEW k \in ToSet(Kinds)
      PROVE  ColoredPool(cost)[k] \in Nat
  <2>1. k # Colorless => k \in ToSet(Colors)
    BY KindFacts
  <2>2. \A j \in ToSet(Colors) : cost.colored[j] \in Nat
    BY PaymentAssumption DEF Costs
  <2> QED BY <2>1, <2>2 DEF ColoredPool
<1>2. ColoredPool(cost) \in Amounts
  BY <1>1 DEF ColoredPool, Amounts
<1>3. ASSUME Covers(available, ColoredPool(cost))
      PROVE  Minus(available, ColoredPool(cost)) \in Amounts
  <2> DEFINE c == ColoredPool(cost)
  <2> HIDE DEF c
  <2>1. \A k \in ToSet(Kinds) : available[k] \in Nat /\ c[k] \in Nat /\ c[k] <= available[k]
    BY <1>2, <1>3 DEF Amounts, Covers, c
  <2>2. Minus(available, c) \in Amounts
    BY <2>1 DEF Minus, Amounts
  <2> QED BY <2>2 DEF c
<1> QED BY <1>2, <1>3

LEMMA PayableFacts ==
  ASSUME NEW available \in Amounts, NEW cost \in Costs
  PROVE  /\ Payable(available, cost) \in SUBSET {g \in Amounts : Total(g) = Owed(cost)}
         /\ IsFiniteSet(Payable(available, cost))
         /\ Covers(available, ColoredPool(cost)) =>
              LET remaining == Minus(available, ColoredPool(cost)) IN
              /\ Payable(available, cost) = GenericPayments(remaining, Owed(cost))
              /\ Owed(cost) > Total(remaining) => Payable(available, cost) = {}
              /\ Owed(cost) <= Total(remaining) => Payable(available, cost) # {}
<1> DEFINE remaining == Minus(available, ColoredPool(cost))
<1>1. Owed(cost) \in Nat
  BY OwedFacts
<1>2. CASE ~Covers(available, ColoredPool(cost))
  <2>1. Payable(available, cost) = {}
    BY <1>2 DEF Payable
  <2> QED BY <1>2, <2>1, FS_EmptySet
<1>3. CASE Covers(available, ColoredPool(cost))
  <2>1. remaining \in Amounts
    BY <1>3, PoolFacts
  <2>2. Payable(available, cost) = GenericPayments(remaining, Owed(cost))
    BY <1>1, <1>3, <2>1, PaymentsFacts DEF Payable
  <2> HIDE DEF remaining
  <2>3. IsFiniteSet(Payable(available, cost))
    BY <1>1, <2>2, PaymentsFinite
  <2>4. Total(remaining) \in Nat
    BY <2>1, TotalFacts
  <2>5. ASSUME Owed(cost) > Total(remaining) PROVE Payable(available, cost) = {}
    <3> SUFFICES ASSUME NEW g \in Payable(available, cost) PROVE FALSE
      OBVIOUS
    <3>1. g \in Amounts /\ Total(g) = Owed(cost) /\ Covers(remaining, g)
      BY DEF Payable, remaining
    <3>2. Total(g) <= Total(remaining)
      BY <2>1, <3>1, TotalGrows
    <3> QED BY <1>1, <2>4, <2>5, <3>1, <3>2
  <2>6. ASSUME Owed(cost) <= Total(remaining) PROVE Payable(available, cost) # {}
    <3>1. Owed(cost) \in 0 .. Total(remaining)
      BY <1>1, <2>4, <2>6
    <3> QED BY <2>1, <2>2, <3>1, PaymentExists
  <2>7. Payable(available, cost) \in SUBSET {g \in Amounts : Total(g) = Owed(cost)}
    BY DEF Payable
  <2> QED BY <2>2, <2>3, <2>5, <2>6, <2>7 DEF remaining
<1> QED BY <1>2, <1>3

\* A list of payments of a cost that is complete unless the limit cuts it.
Lists(r, P) ==
    /\ r \in Seq(P) /\ IsInjective(r) /\ Leads(r, P)
    /\ Len(r) < PlanLimit => Range(r) = P
    /\ P # {} => r # <<>>

LEMMA FirstLists ==
  ASSUME NEW n, NEW P \in SUBSET {g \in Amounts : Total(g) = n}, IsFiniteSet(P)
  PROVE  Lists(FirstPayments(P, IF Cardinality(P) < PlanLimit THEN Cardinality(P) ELSE PlanLimit), P)
<1> DEFINE count == Cardinality(P)
           m == IF count < PlanLimit THEN count ELSE PlanLimit
           r == FirstPayments(P, m)
<1>1. count \in Nat /\ PlanLimit \in Nat \ {0}
  BY FS_CardinalityType, PaymentAssumption
<1>2. m \in 0 .. count
  BY <1>1
<1>3. r \in Seq(P) /\ Len(r) = m /\ IsInjective(r) /\ Leads(r, P)
  <2> HIDE DEF m
  <2> QED BY <1>2, FirstFacts
<1> HIDE DEF r
<1>4. ASSUME m < PlanLimit PROVE Range(r) = P
  <2>1. m = count /\ DOMAIN r = 1 .. count
    BY <1>1, <1>3, <1>4
  <2>2. r \in Injection(1 .. count, P)
    <3>1. r \in [1 .. count -> P]
      BY <1>3, <2>1
    <3> QED BY <1>3, <3>1 DEF Injection
  <2>3. Cardinality(1 .. count) = count
    BY <1>1, FS_Interval
  <2>4. r \in Surjection(1 .. count, P)
    BY <2>2, <2>3, FS_Injection
  <2> HIDE DEF count, m
  <2> QED BY <2>1, <2>4 DEF Surjection, Range
<1>5. ASSUME P # {} PROVE r # <<>>
  <2>1. count # 0
    BY <1>5, FS_EmptySet
  <2>2. m # 0
    BY <1>1, <2>1
  <2> HIDE DEF m
  <2> QED BY <1>3, <2>2
<1>6. Lists(r, P)
  <2> HIDE DEF m
  <2> QED BY <1>3, <1>4, <1>5 DEF Lists
<1> QED BY <1>6 DEF r

LEMMA EnumerationFacts ==
  ASSUME NEW available \in Amounts, NEW cost \in Costs, Owed(cost) <= MaxMana
  PROVE  \E r : /\ Lists(r, Payable(available, cost))
                /\ EnumeratePaymentPlans(available, cost) = [i \in DOMAIN r |-> Plan(r[i], cost)]
<1> DEFINE P == Payable(available, cost)
           remaining == Minus(available, ColoredPool(cost))
<1>1. CASE ~Covers(available, ColoredPool(cost))
  <2>1. P = {} /\ EnumeratePaymentPlans(available, cost) = <<>>
    BY <1>1 DEF EnumeratePaymentPlans, Payable
  <2>2. Lists(<<>>, P)
    BY <2>1 DEF Lists, IsInjective, Leads, Range
  <2>3. <<>> = [i \in DOMAIN <<>> |-> Plan(<<>>[i], cost)]
    OBVIOUS
  <2> QED BY <2>1, <2>2, <2>3
<1>2. CASE Covers(available, ColoredPool(cost))
  <2> DEFINE due(n) == IF n > Total(remaining) THEN {} ELSE GenericPayments(remaining, n)
             head(S) == FirstPayments(S, IF Cardinality(S) < PlanLimit THEN Cardinality(S) ELSE PlanLimit)
             plans(n) == [i \in DOMAIN head(due(n)) |-> Plan(head(due(n))[i], cost)]
             payments == due(Owed(cost))
             r == head(payments)
  <2>1. (CHOOSE m \in GenericTotal(cost) : TRUE) = Owed(cost)
    <3>1. GenericTotal(cost) = {Owed(cost)}
      BY OwedFacts
    <3> QED BY <3>1
  <2>2. EnumeratePaymentPlans(available, cost) = [i \in DOMAIN r |-> Plan(r[i], cost)]
    <3>1. EnumeratePaymentPlans(available, cost) = plans(CHOOSE m \in GenericTotal(cost) : TRUE)
      BY <1>2, Zenon DEF EnumeratePaymentPlans
    <3>2. EnumeratePaymentPlans(available, cost) = plans(Owed(cost))
      <4> HIDE DEF plans
      <4> QED BY <2>1, <3>1
    <3> QED BY <3>2
  <2>3. payments = P
    BY <1>2, PayableFacts
  <2>4. Lists(r, P)
    <3> HIDE DEF payments
    <3>1. P \in SUBSET {g \in Amounts : Total(g) = Owed(cost)} /\ IsFiniteSet(P)
      BY PayableFacts
    <3> HIDE DEF P
    <3> QED BY <2>3, <3>1, FirstLists
  <2> QED BY <2>2, <2>4
<1> QED BY <1>1, <1>2

Effective(s, x) == EffectiveSpellCost(s, WithX(Printed[s], x))
Offer(g, c, x) == Canonical(Plan(g, c), x)

LEMMA OffersFacts ==
  ASSUME NEW s \in Spells, NEW x \in 0 .. MaxMana, PaymentFits
  PROVE  \/ CastPaymentPlans(s, x) = <<>> /\ \A c \in Effective(s, x) : Owed(c) > MaxMana
         \/ \E c \in Effective(s, x) : \E r :
              /\ Owed(c) <= MaxMana /\ Lists(r, Payable(pool, c))
              /\ CastPaymentPlans(s, x) = [i \in DOMAIN r |-> Offer(r[i], c, x)]
<1> DEFINE payable == {c \in Effective(s, x) : GenericTotal(c) # {}}
<1>1. Effective(s, x) \subseteq Costs /\ MaxMana \in Nat
  BY CostFacts, PaymentAssumption DEF Effective
<1>2. \A c \in Effective(s, x) : Owed(c) \in Nat /\ (GenericTotal(c) # {} <=> Owed(c) <= MaxMana)
  BY <1>1, OwedFacts
<1>3. CASE payable = {}
  <2>1. CastPaymentPlans(s, x) = <<>>
    BY <1>3 DEF CastPaymentPlans, Effective
  <2>2. \A c \in Effective(s, x) : Owed(c) > MaxMana
    BY <1>1, <1>2, <1>3
  <2> QED BY <2>1, <2>2
<1>4. CASE payable # {}
  <2> DEFINE c == CHOOSE d \in payable : TRUE
             plans == EnumeratePaymentPlans(pool, c)
  <2>1. c \in payable
    BY <1>4
  <2>2. CastPaymentPlans(s, x) = [i \in DOMAIN plans |-> Canonical(plans[i], x)]
    BY <1>4, Zenon DEF CastPaymentPlans, Effective, Canonical
  <2> HIDE DEF c
  <2>3. c \in Effective(s, x) /\ c \in Costs /\ Owed(c) <= MaxMana
    BY <1>1, <1>2, <2>1
  <2>4. pool \in Amounts
    BY PaymentAssumption DEF PaymentFits, Pools, Amounts
  <2>5. PICK r : Lists(r, Payable(pool, c)) /\ plans = [i \in DOMAIN r |-> Plan(r[i], c)]
    BY <2>3, <2>4, EnumerationFacts
  <2> HIDE DEF plans
  <2>6. CastPaymentPlans(s, x) = [i \in DOMAIN r |-> Offer(r[i], c, x)]
    <3>1. DOMAIN plans = DOMAIN r /\ \A i \in DOMAIN r : plans[i] = Plan(r[i], c)
      BY <2>5
    <3>2. \A i \in DOMAIN r : Canonical(plans[i], x) = Offer(r[i], c, x)
      BY <3>1 DEF Offer
    <3> QED BY <2>2, <3>1, <3>2
  <2> QED BY <2>3, <2>5, <2>6
<1> QED BY <1>3, <1>4

LEMMA PlanFacts ==
  ASSUME NEW c, NEW g, NEW x
  PROVE  /\ Offer(g, c, x).xValue = x /\ Offer(g, c, x).paid = Plus(ColoredPool(c), g)
         /\ Offer(g, c, x).genericPaid = g /\ Offer(g, c, x).waste = ColoredTotal(g)
         /\ Plan(g, c).paid = Plus(ColoredPool(c), g)
BY DEF Offer, Canonical, Plan

\* A payment of the generic part is added to the coloured part and found
\* again by subtraction.
LEMMA PaidFacts ==
  ASSUME NEW available \in Amounts, NEW c \in Costs, NEW g \in Payable(available, c)
  PROVE  LET paid == Plus(ColoredPool(c), g) IN
         /\ paid \in Amounts /\ Covers(available, paid) /\ Covers(paid, ColoredPool(c))
         /\ Minus(paid, ColoredPool(c)) = g
<1> DEFINE col == ColoredPool(c)
           paid == Plus(col, g)
<1>1. col \in Amounts /\ g \in Amounts /\ Covers(available, col) /\ Covers(Minus(available, col), g)
  BY PoolFacts DEF Payable
<1> HIDE DEF col
<1>2. \A k \in ToSet(Kinds) : /\ available[k] \in Nat /\ col[k] \in Nat /\ g[k] \in Nat
                              /\ col[k] <= available[k] /\ g[k] <= available[k] - col[k]
  BY <1>1 DEF Amounts, Covers, Minus
<1>3. \A k \in ToSet(Kinds) : paid[k] = col[k] + g[k]
  BY DEF Plus
<1>4. paid \in Amounts
  BY <1>2 DEF Plus, Amounts
<1> HIDE DEF paid
<1>5. Covers(available, paid) /\ Covers(paid, col)
  BY <1>2, <1>3 DEF Covers
<1>6. Minus(paid, col) = g
  <2>1. \A k \in ToSet(Kinds) : paid[k] - col[k] = g[k]
    BY <1>2, <1>3
  <2>2. g = [k \in ToSet(Kinds) |-> g[k]]
    BY <1>1 DEF Amounts
  <2>3. Minus(paid, col) = [k \in ToSet(Kinds) |-> paid[k] - col[k]]
    BY DEF Minus
  <2> QED BY <2>1, <2>2, <2>3
<1> QED BY <1>4, <1>5, <1>6 DEF paid, col

LEMMA ValidFacts ==
  ASSUME NEW available \in Amounts, NEW c \in Costs, Owed(c) <= MaxMana
  PROVE  /\ \A g \in Payable(available, c) :
              Plan(g, c) \in ValidatePaymentPlan(available, c, Plus(ColoredPool(c), g))
         /\ \A paid \in Amounts : \A p \in ValidatePaymentPlan(available, c, paid) :
              \E g \in Payable(available, c) : p = Plan(g, c)
<1> DEFINE col == ColoredPool(c)
<1>1. GenericTotal(c) = {Owed(c)}
  BY OwedFacts
<1>2. ASSUME NEW g \in Payable(available, c)
      PROVE  Plan(g, c) \in ValidatePaymentPlan(available, c, Plus(col, g))
  <2>1. /\ Covers(available, Plus(col, g)) /\ Covers(Plus(col, g), col)
        /\ Minus(Plus(col, g), col) = g
    BY PaidFacts
  <2>2. Total(g) \in GenericTotal(c)
    BY <1>1 DEF Payable
  <2> HIDE DEF col
  <2>3. g \in {h \in {Minus(Plus(col, g), col)} : Total(h) \in GenericTotal(c)}
    BY <2>1, <2>2
  <2> QED BY <2>1, <2>3 DEF ValidatePaymentPlan, col
<1>3. ASSUME NEW paid \in Amounts, NEW p \in ValidatePaymentPlan(available, c, paid)
      PROVE  \E g \in Payable(available, c) : p = Plan(g, c)
  <2> DEFINE g == Minus(paid, col)
  <2>1. Covers(available, paid) /\ Covers(paid, col) /\ Total(g) \in GenericTotal(c) /\ p = Plan(g, c)
    BY DEF ValidatePaymentPlan
  <2>2. col \in Amounts
    BY PoolFacts
  <2> HIDE DEF col
  <2>3. \A k \in ToSet(Kinds) : /\ available[k] \in Nat /\ col[k] \in Nat /\ paid[k] \in Nat
                                /\ col[k] <= paid[k] /\ paid[k] <= available[k]
    BY <2>1, <2>2 DEF Amounts, Covers
  <2>4. \A k \in ToSet(Kinds) : g[k] = paid[k] - col[k]
    BY DEF Minus
  <2>5. g \in Amounts
    BY <2>3 DEF Minus, Amounts
  <2> HIDE DEF g
  <2>6. Covers(available, col) /\ Covers(Minus(available, col), g)
    BY <2>3, <2>4 DEF Covers, Minus
  <2>7. g \in Payable(available, c)
    BY <1>1, <2>1, <2>5, <2>6 DEF Payable, col
  <2> QED BY <2>1, <2>7
<1> QED BY <1>2, <1>3

----------------------------------------------------------------------------
(* The largest X.                                                           *)

CanPay(s, x) ==
    LET colored == ColoredPool(Printed[s]) IN
    /\ Full(s, x) <= MaxMana /\ Covers(pool, colored)
    /\ Less(Full(s, x), Sum(Amount, Sources(s))) <= Total(Minus(pool, colored))

LEMMA AffordableFacts ==
  ASSUME NEW s \in Spells, NEW x \in 0 .. MaxMana, PaymentFits
  PROVE  CastPaymentPlans(s, x) # <<>> <=> CanPay(s, x)
<1> DEFINE costs == Effective(s, x)
           plans == CastPaymentPlans(s, x)
<1>1. /\ costs \subseteq Costs /\ \A c, d \in costs : c = d
      /\ \A c \in costs : /\ c.colored = Printed[s].colored
                          /\ Owed(c) = Less(Full(s, x), Sum(Amount, Sources(s)))
      /\ (\E c \in costs : Owed(c) <= MaxMana) <=> Full(s, x) <= MaxMana
  BY CostFacts DEF Effective
<1>2. pool \in Amounts /\ MaxMana \in Nat
  BY PaymentAssumption DEF PaymentFits, Pools, Amounts
<1>3. CASE plans = <<>> /\ \A c \in costs : Owed(c) > MaxMana
  <2>1. \A c \in costs : ~(Owed(c) <= MaxMana)
    BY <1>1, <1>2, <1>3, OwedFacts
  <2>2. ~(Full(s, x) <= MaxMana)
    BY <1>1, <2>1
  <2> QED BY <1>3, <2>2 DEF CanPay
<1>4. ASSUME NEW c \in costs, NEW r, Owed(c) <= MaxMana, Lists(r, Payable(pool, c)),
             plans = [i \in DOMAIN r |-> Offer(r[i], c, x)]
      PROVE  plans # <<>> <=> CanPay(s, x)
  <2> DEFINE remaining == Minus(pool, ColoredPool(c))
  <2>1. c \in Costs /\ ColoredPool(c) = ColoredPool(Printed[s]) /\ Full(s, x) <= MaxMana
    BY <1>1, <1>4 DEF ColoredPool
  <2>2. plans # <<>> <=> Payable(pool, c) # {}
    <3>1. Payable(pool, c) # {} => DOMAIN r # {}
      <4>1. \A q : q \in Seq(Payable(pool, c)) /\ q # <<>> => DOMAIN q # {}
        OBVIOUS
      <4> QED BY <1>4, <4>1 DEF Lists
    <3>2. Payable(pool, c) = {} => DOMAIN r = {}
      <4>1. \A q : q \in Seq({}) => DOMAIN q = {}
        OBVIOUS
      <4> QED BY <1>4, <4>1 DEF Lists
    <3>3. plans = <<>> <=> DOMAIN r = {}
      <4>1. plans = <<>> => DOMAIN plans = {}
        OBVIOUS
      <4>2. DOMAIN plans = DOMAIN r
        BY <1>4
      <4>3. DOMAIN r = {} => plans = <<>>
        <5>1. r \in Seq(Payable(pool, c))
          BY <1>4 DEF Lists
        <5> SUFFICES ASSUME DOMAIN r = {} PROVE plans = <<>>
          OBVIOUS
        <5>2. r = <<>>
          BY <5>1
        <5> QED BY <1>4, <5>2
      <4> QED BY <4>1, <4>2, <4>3
    <3> QED BY <3>1, <3>2, <3>3
  <2>3. Payable(pool, c) # {} <=> Covers(pool, ColoredPool(c)) /\ Owed(c) <= Total(remaining)
    <3>1. Covers(pool, ColoredPool(c)) => Total(remaining) \in Nat
      BY <1>2, <2>1, PoolFacts, TotalFacts
    <3>2. Owed(c) \in Nat
      BY <2>1, OwedFacts
    <3>3. ~Covers(pool, ColoredPool(c)) => Payable(pool, c) = {}
      BY DEF Payable
    <3> QED BY <1>2, <2>1, <3>1, <3>2, <3>3, PayableFacts
  <2>4. Owed(c) = Less(Full(s, x), Sum(Amount, Sources(s)))
    BY <1>1
  <2> QED BY <2>1, <2>2, <2>3, <2>4 DEF CanPay
<1> QED BY <1>3, <1>4, OffersFacts

\* Less X is never harder to pay, and the product of an X that can be paid fits.
LEMMA CanPayLess ==
  ASSUME NEW s \in Spells, PaymentFits, NEW x \in 0 .. MaxMana, CanPay(s, x)
  PROVE  /\ \A y \in 0 .. x : CanPay(s, y)
         /\ Printed[s].xCount > 0 => x <= MaxMana \div Printed[s].xCount
<1> DEFINE n == Printed[s].xCount
           rest == Printed[s].generic + CommanderTax(s)
           off == Sum(Amount, Sources(s))
           left == Total(Minus(pool, ColoredPool(Printed[s])))
<1>1. n \in Nat /\ rest \in Nat /\ off \in Nat /\ MaxMana \in Nat /\ x \in Nat
  <2>1. Printed[s].generic \in Nat /\ n \in Nat /\ MaxMana \in Nat
    BY PaymentAssumption DEF Costs
  <2>2. CommanderTax(s) \in Nat
    BY DEF CommanderTax, PaymentFits
  <2>3. off \in Nat
    BY SourcesFacts
  <2>4. rest \in Nat
    BY <2>1, <2>2
  <2> HIDE DEF n, rest, off
  <2> QED BY <2>1, <2>3, <2>4
<1>2. \A y \in Nat : Full(s, y) = rest + n * y
  BY DEF Full
<1>3. Covers(pool, ColoredPool(Printed[s])) /\ Full(s, x) <= MaxMana /\ Less(Full(s, x), off) <= left
  BY DEF CanPay
<1>4. left \in Nat
  <2>1. pool \in Amounts /\ Printed[s] \in Costs
    BY PaymentAssumption DEF PaymentFits, Pools, Amounts
  <2>2. Minus(pool, ColoredPool(Printed[s])) \in Amounts
    BY <1>3, <2>1, PoolFacts
  <2> QED BY <2>2, TotalFacts
<1>5. ASSUME NEW y \in 0 .. x PROVE CanPay(s, y)
  <2> HIDE DEF n, rest, off, left
  <2>1. n * y \in Nat /\ n * x \in Nat /\ n * y <= n * x
    BY <1>1
  <2>2. Full(s, y) \in Nat /\ Full(s, x) \in Nat /\ Full(s, y) <= Full(s, x)
    BY <1>1, <1>2, <2>1
  <2>3. Less(Full(s, y), off) <= Less(Full(s, x), off) /\ Less(Full(s, y), off) \in Nat /\ Less(Full(s, x), off) \in Nat
    BY <1>1, <2>2 DEF Less
  <2>4. Less(Full(s, y), off) <= left /\ Full(s, y) <= MaxMana
    BY <1>1, <1>3, <1>4, <2>2, <2>3
  <2> QED BY <1>3, <2>4 DEF CanPay, off, left
<1>6. ASSUME n > 0 PROVE x <= MaxMana \div n
  <2>1. n * x <= MaxMana
    <3>1. Full(s, x) = rest + n * x
      BY <1>1, <1>2
    <3> HIDE DEF n, rest
    <3>2. n * x \in Nat
      BY <1>1
    <3> QED BY <1>1, <1>3, <3>1, <3>2
  <2> HIDE DEF n
  <2> QED BY <1>1, <1>6, <2>1
<1> QED BY <1>5, <1>6

LEMMA SearchFacts ==
  ASSUME NEW s \in Spells, PaymentFits, Printed[s].xCount > 0, CastPaymentPlans(s, 0) # <<>>
  PROVE  \E x \in 0 .. MaxMana :
           /\ MaximumAffordableX(s) = {x} /\ CastPaymentPlans(s, x) # <<>>
           /\ \A y \in 0 .. MaxMana : y > x => CastPaymentPlans(s, y) = <<>>
<1> DEFINE Works(x) == CastPaymentPlans(s, x) # <<>>
           Ranges == [low : 0 .. MaxMana, high : 0 .. MaxMana]
           Mid(g) == Midpoint(g.low, g.high)
           Halve(g) == IF g.low >= g.high THEN g
                       ELSE IF CastPaymentPlans(s, Mid(g)) = <<>> THEN [g EXCEPT !.high = Mid(g) - 1]
                       ELSE [g EXCEPT !.low = Mid(g)]
           Good(g, i) == /\ g.low <= g.high /\ Works(g.low) /\ g.high - g.low <= MaxMana - i
                         /\ \A y \in 0 .. MaxMana : y > g.high => ~Works(y)
           G == [i \in 0 .. MaxMana |-> {g \in Ranges : Good(g, i)}]
           step == [i \in 1 .. MaxMana |-> [g \in Ranges |-> Halve(g)]]
           start == [low |-> 0, high |-> MaxMana \div Printed[s].xCount]
           Is(f) == f = [i \in 0 .. MaxMana |-> IF i = 0 THEN start ELSE Halve(f[i - 1])]
<1>1. MaxMana \in Nat /\ Printed[s].xCount \in Nat \ {0}
  BY PaymentAssumption DEF Costs
<1>2. \A x \in 0 .. MaxMana : Works(x) => /\ \A y \in 0 .. x : Works(y)
                                          /\ x <= MaxMana \div Printed[s].xCount
  <2> SUFFICES ASSUME NEW x \in 0 .. MaxMana, Works(x)
               PROVE  (\A y \in 0 .. x : Works(y)) /\ x <= MaxMana \div Printed[s].xCount
    OBVIOUS
  <2>1. CanPay(s, x)
    BY AffordableFacts
  <2>2. (\A y \in 0 .. x : CanPay(s, y)) /\ x <= MaxMana \div Printed[s].xCount
    BY <2>1, CanPayLess
  <2>3. \A y \in 0 .. x : y \in 0 .. MaxMana
    BY <1>1
  <2> QED BY <2>2, <2>3, AffordableFacts
<1> HIDE DEF Works
<1>3. start \in G[0]
  <2> DEFINE h == MaxMana \div Printed[s].xCount
  <2>1. h \in 0 .. MaxMana
    BY <1>1
  <2>2. Works(0)
    BY DEF Works
  <2>3. \A y \in 0 .. MaxMana : y > h => ~Works(y)
    <3> SUFFICES ASSUME NEW y \in 0 .. MaxMana, y > h, Works(y) PROVE FALSE
      OBVIOUS
    <3>1. y <= h
      BY <1>2
    <3> HIDE DEF h
    <3> QED BY <2>1, <3>1
  <2> HIDE DEF h
  <2>4. start = [low |-> 0, high |-> h]
    BY DEF h
  <2> HIDE DEF start
  <2>5. start \in Ranges /\ start.low = 0 /\ start.high = h
    BY <1>1, <2>1, <2>4
  <2>6. Good(start, 0)
    BY <1>1, <2>1, <2>2, <2>3, <2>5
  <2>7. 0 \in 0 .. MaxMana
    BY <1>1
  <2> HIDE DEF Good, Ranges
  <2> QED BY <2>5, <2>6, <2>7
<1>4. ASSUME NEW i \in 1 .. MaxMana, NEW g \in G[i - 1]
      PROVE  step[i][g] \in G[i]
  <2>1. i \in 0 .. MaxMana /\ i - 1 \in 0 .. MaxMana
    BY <1>1
  <2>2. g \in Ranges /\ Good(g, i - 1)
    BY <2>1
  <2>3. g.low \in 0 .. MaxMana /\ g.high \in 0 .. MaxMana
    BY <2>2
  <2>4. step[i][g] = Halve(g)
    BY <2>2
  <2>5. CASE g.low >= g.high
    <3>1. Halve(g) = g /\ g.low = g.high
      BY <1>1, <2>2, <2>3, <2>5
    <3>2. Good(g, i)
      BY <1>1, <2>1, <2>2, <2>3, <3>1
    <3> HIDE DEF Good, Ranges, Halve, step
    <3> QED BY <2>1, <2>2, <2>4, <3>1, <3>2
  <2>6. CASE g.low < g.high
    <3> DEFINE m == Mid(g)
    <3>1. g.low < m /\ m <= g.high /\ m \in 0 .. MaxMana /\ m - 1 \in 0 .. MaxMana
      BY <1>1, <2>3, <2>6 DEF Midpoint
    <3> HIDE DEF m
    <3>2. CASE CastPaymentPlans(s, m) = <<>>
      <4> DEFINE h == [g EXCEPT !.high = m - 1]
      <4>1. Halve(g) = h
        BY <2>3, <2>6, <3>2 DEF m
      <4>2. h \in Ranges /\ h.low = g.low /\ h.high = m - 1
        BY <2>2, <3>1
      <4>3. ASSUME NEW y \in 0 .. MaxMana, y > m - 1 PROVE ~Works(y)
        <5>1. m \in 0 .. y
          BY <3>1, <4>3
        <5> QED BY <1>2, <3>2, <5>1 DEF Works
      <4> HIDE DEF h
      <4>4. Good(h, i)
        <5>1. h.low <= h.high /\ h.high - h.low <= MaxMana - i
          BY <1>1, <2>1, <2>2, <2>3, <3>1, <4>2
        <5> QED BY <2>2, <4>2, <4>3, <5>1
      <4> HIDE DEF Good, Ranges, Halve, step
      <4> QED BY <2>1, <2>4, <4>1, <4>2, <4>4
    <3>3. CASE ~(CastPaymentPlans(s, m) = <<>>)
      <4> DEFINE h == [g EXCEPT !.low = m]
      <4>1. Halve(g) = h
        BY <2>3, <2>6, <3>3 DEF m
      <4>2. h \in Ranges /\ h.low = m /\ h.high = g.high
        BY <2>2, <3>1
      <4> HIDE DEF h
      <4>3. Good(h, i)
        <5>1. h.low <= h.high /\ h.high - h.low <= MaxMana - i
          BY <1>1, <2>1, <2>2, <2>3, <3>1, <4>2
        <5> QED BY <2>2, <3>3, <4>2, <5>1 DEF Works
      <4> HIDE DEF Good, Ranges, Halve, step
      <4> QED BY <2>1, <2>4, <4>1, <4>2, <4>3
    <3> QED BY <3>2, <3>3
  <2> QED BY <2>3, <2>5, <2>6
<1>5. PICK f : Recursion(f, MaxMana, start, step) /\ \A i \in 0 .. MaxMana : f[i] \in G[i]
  <2> HIDE DEF G, step, start
  <2> QED BY <1>1, <1>3, <1>4, RecursionStays
<1>6. Is(f)
  <2>1. \A i \in 1 .. MaxMana : i - 1 \in 0 .. MaxMana
    BY <1>1
  <2>2. \A i \in 1 .. MaxMana : f[i - 1] \in Ranges
    BY <1>5, <2>1
  <2> HIDE DEF Halve
  <2>3. \A i \in 1 .. MaxMana : step[i][f[i - 1]] = Halve(f[i - 1])
    BY <2>2
  <2>4. \A i \in 0 .. MaxMana : i # 0 => i \in 1 .. MaxMana
    BY <1>1
  <2> HIDE DEF step, G, start
  <2> QED BY <1>5, <2>3, <2>4 DEF Recursion
<1>7. ASSUME NEW h, Is(h) PROVE h = f
  <2> HIDE DEF Halve, start
  <2> DEFINE T == {i \in 0 .. MaxMana : h[i] = f[i]}
  <2>1. 0 \in T
    BY <1>1, <1>6, <1>7
  <2>2. ASSUME NEW i \in 0 .. MaxMana, i > 0, i - 1 \in T PROVE i \in T
    BY <1>6, <1>7, <2>2
  <2>3. \A i \in 0 .. MaxMana : h[i] = f[i]
    <3> HIDE DEF T
    <3>1. \A i \in 0 .. MaxMana : i \in T
      BY <1>1, <2>1, <2>2, UpTo
    <3> QED BY <3>1 DEF T
  <2>4. h = [i \in 0 .. MaxMana |-> h[i]] /\ f = [i \in 0 .. MaxMana |-> f[i]]
    BY <1>6, <1>7
  <2> QED BY <2>3, <2>4
<1>8. MaximumAffordableX(s) = {f[MaxMana].low}
  <2>1. (CHOOSE h : Is(h)) = f
    <3> HIDE DEF Is
    <3> QED BY <1>6, <1>7
  <2> QED BY <2>1, Zenon DEF MaximumAffordableX
<1>9. f[MaxMana] \in Ranges /\ Good(f[MaxMana], MaxMana)
  <2>1. MaxMana \in 0 .. MaxMana
    BY <1>1
  <2> QED BY <1>5, <2>1
<1> DEFINE x == f[MaxMana].low
<1>10. x \in 0 .. MaxMana /\ Works(x) /\ \A y \in 0 .. MaxMana : y > x => ~Works(y)
  <2>1. f[MaxMana].high = x
    BY <1>1, <1>9
  <2> QED BY <1>9, <2>1
<1> HIDE DEF x
<1> QED BY <1>8, <1>10 DEF x, Works

LEMMA AnnouncedFacts ==
  ASSUME NEW s \in Spells, PaymentFits
  PROVE  Announceable(s) \subseteq 0 .. MaxMana
<1>1. MaxMana \in Nat /\ Printed[s].xCount \in Nat
  BY PaymentAssumption DEF Costs
<1>2. CASE Printed[s].xCount = 0
  BY <1>1, <1>2 DEF Announceable
<1>3. CASE Printed[s].xCount > 0 /\ CastPaymentPlans(s, 0) = <<>>
  <2>1. MaximumAffordableX(s) = {}
    BY <1>3 DEF MaximumAffordableX
  <2> QED BY <1>3, <2>1 DEF Announceable
<1>4. CASE Printed[s].xCount > 0 /\ CastPaymentPlans(s, 0) # <<>>
  <2>1. PICK x \in 0 .. MaxMana : MaximumAffordableX(s) = {x}
    BY <1>4, SearchFacts
  <2>2. Announceable(s) = UNION {0 .. y : y \in MaximumAffordableX(s)}
    BY <1>1, <1>4 DEF Announceable
  <2>3. ASSUME NEW z \in Announceable(s) PROVE z \in 0 .. x
    BY <2>1, <2>2, <2>3
  <2>4. \A z \in 0 .. x : z \in 0 .. MaxMana
    BY <1>1, <2>1
  <2> QED BY <2>3, <2>4
<1> QED BY <1>1, <1>2, <1>3, <1>4

----------------------------------------------------------------------------
(* The driver's offers and the kernel's check.                              *)

\* What is offered pays a cost of the spell.
LEMMA OfferFacts ==
  ASSUME NEW s \in Spells, NEW x \in 0 .. MaxMana, PaymentFits,
         NEW plan \in ToSet(CastPaymentPlans(s, x))
  PROVE  \E c \in Effective(s, x) : \E g \in Payable(pool, c) : Owed(c) <= MaxMana /\ plan = Offer(g, c, x)
<1>1. PICK i \in DOMAIN CastPaymentPlans(s, x) : plan = CastPaymentPlans(s, x)[i]
  BY DEF ToSet
<1>2. CastPaymentPlans(s, x) # <<>>
  BY <1>1
<1>3. PICK c \in Effective(s, x) : \E r :
        /\ Owed(c) <= MaxMana /\ Lists(r, Payable(pool, c))
        /\ CastPaymentPlans(s, x) = [j \in DOMAIN r |-> Offer(r[j], c, x)]
  BY <1>2, OffersFacts
<1>4. PICK r : /\ Owed(c) <= MaxMana /\ Lists(r, Payable(pool, c))
               /\ CastPaymentPlans(s, x) = [j \in DOMAIN r |-> Offer(r[j], c, x)]
  BY <1>3
<1>5. i \in DOMAIN r /\ plan = Offer(r[i], c, x)
  BY <1>1, <1>4
<1>6. r[i] \in Payable(pool, c)
  BY <1>4, <1>5 DEF Lists
<1> QED BY <1>4, <1>5, <1>6

LEMMA PoolIsAmount == PaymentFits => pool \in Amounts
BY PaymentAssumption DEF PaymentFits, Pools, Amounts

\* cast_spell accepts what is offered and the pool can pay it.
LEMMA OfferIsAccepted ==
  ASSUME NEW s \in Spells, NEW x \in 0 .. MaxMana, PaymentFits,
         NEW plan \in ToSet(CastPaymentPlans(s, x))
  PROVE  CastAccepts(s, plan) /\ plan.paid \in Amounts /\ Covers(pool, plan.paid)
<1>1. PICK c \in Effective(s, x) : \E g \in Payable(pool, c) : Owed(c) <= MaxMana /\ plan = Offer(g, c, x)
  BY OfferFacts
<1>2. PICK g \in Payable(pool, c) : Owed(c) <= MaxMana /\ plan = Offer(g, c, x)
  BY <1>1
<1>3. c \in Costs /\ pool \in Amounts
  BY CostFacts, PoolIsAmount DEF Effective
<1>4. Plan(g, c) \in ValidatePaymentPlan(pool, c, Plus(ColoredPool(c), g))
  BY <1>2, <1>3, ValidFacts
<1>5. plan.xValue = x /\ plan.paid = Plus(ColoredPool(c), g) /\ plan = Canonical(Plan(g, c), x)
  BY <1>2, PlanFacts DEF Offer
<1>6. CastAccepts(s, plan)
  BY <1>4, <1>5 DEF CastAccepts, Effective
<1> QED BY <1>3, <1>5, <1>6, PaidFacts

----------------------------------------------------------------------------
(* The inductive invariant.                                                 *)

LEMMA FitsInit == Init => PaymentFits
<1> SUFFICES ASSUME Init PROVE PaymentFits
  OBVIOUS
<1>1. pool \in Pools
  BY PaymentAssumption DEF Init, Empty, Pools
<1>2. /\ tapped \subseteq Lands /\ casts \in [Spells -> Nat]
      /\ zone \in [Spells -> {"hand", "command", "gone"}]
  BY DEF Init
<1>3. modifiers \in Seq(Reducers) /\ IsInjective(modifiers) /\ Range(modifiers) = {}
  BY DEF Init, IsInjective, Range
<1> QED BY <1>1, <1>2, <1>3 DEF PaymentFits, Init

LEMMA FitsStep == PaymentFits /\ [Next]_vars => PaymentFits'
<1> SUFFICES ASSUME PaymentFits, [Next]_vars PROVE PaymentFits'
  OBVIOUS
<1> USE DEF PaymentFits
<1>1. ASSUME NEW l \in Lands, TapForMana(l) PROVE PaymentFits'
  BY <1>1 DEF TapForMana
<1>2. ASSUME NEW s \in Spells, CastSpell(s) PROVE PaymentFits'
  <2>1. PICK x \in Announceable(s) : \E plan \in ToSet(CastPaymentPlans(s, x)) :
          CastAccepts(s, plan) /\ pool' = Minus(pool, plan.paid)
    BY <1>2 DEF CastSpell
  <2>2. PICK plan \in ToSet(CastPaymentPlans(s, x)) : pool' = Minus(pool, plan.paid)
    BY <2>1
  <2>3. x \in 0 .. MaxMana
    BY AnnouncedFacts
  <2>4. plan.paid \in Amounts /\ Covers(pool, plan.paid)
    BY <2>3, OfferIsAccepted
  <2>5. pool' \in Pools
    <3>1. ASSUME NEW k \in ToSet(Kinds) PROVE pool[k] - plan.paid[k] \in 0 .. MaxMana
      <4>1. pool[k] \in 0 .. MaxMana /\ plan.paid[k] \in Nat /\ plan.paid[k] <= pool[k]
        BY <2>4 DEF Pools, Amounts, Covers
      <4> QED BY <4>1, PaymentAssumption
    <3> QED BY <2>2, <3>1 DEF Minus, Pools
  <2>6. casts' \in [Spells -> Nat] /\ zone' \in [Spells -> {"hand", "command", "gone"}]
    BY <1>2 DEF CastSpell
  <2> QED BY <1>2, <2>5, <2>6 DEF CastSpell
<1>3. ASSUME NEW s \in Spells, ReturnCommander(s) PROVE PaymentFits'
  BY <1>3 DEF ReturnCommander
<1>4. ASSUME NEW r \in Reducers, Enter(r) PROVE PaymentFits'
  <2>1. CASE r \in registered
    BY <1>4, <2>1 DEF Enter, MustRegister
  <2>2. CASE r \notin registered
    <3>1. modifiers' = Append(modifiers, r) /\ registered' = registered \cup {r}
      BY <1>4, <2>2 DEF Enter, MustRegister
    <3>2. /\ modifiers' \in Seq(Reducers) /\ IsInjective(modifiers')
          /\ Range(modifiers') = Range(modifiers) \cup {r}
      BY <2>2, <3>1, AppendFacts
    <3> QED BY <1>4, <3>1, <3>2 DEF Enter
  <2> QED BY <2>1, <2>2
<1>5. ASSUME NEW r \in Reducers, Leave(r) PROVE PaymentFits'
  BY <1>5 DEF Leave
<1>6. CASE EndStep
  <2>1. Empty \in Pools
    BY PaymentAssumption DEF Empty, Pools
  <2> QED BY <1>6, <2>1 DEF EndStep
<1>7. CASE UNCHANGED vars
  BY <1>7 DEF vars
<1> QED BY <1>1, <1>2, <1>3, <1>4, <1>5, <1>6, <1>7 DEF Next

\* The pool holds u32 amounts, and the registered modifiers are those of the
\* permanents that ever entered, each once (add_mana_to_pool, cast_spell,
\* register_permanent_runtime).
THEOREM PaymentInvariant == Spec => []PaymentFits
<1> QED BY FitsInit, FitsStep, PTL DEF Spec

\* A spell costs what is printed, the commander tax added, less what the
\* permanents in play take off, each once; never its coloured symbols
\* (effective_spell_cost, apply_cost_modifier).
THEOREM CostIsFromTheBoard == Spec => []CostsFollowTheBoard
<1>1. PaymentFits => CostsFollowTheBoard
  <2> DEFINE off(s) == MapThenSumSet(LAMBDA r : Amount[r], {r \in inPlay : s \in Cheaper[r]})
             full(s) == Printed[s].generic + CommanderTax(s)
  <2> SUFFICES ASSUME PaymentFits, NEW s \in Spells, NEW cost \in Effective(s, 0)
               PROVE  /\ cost.generic = Less(full(s), off(s))
                      /\ cost.colored = Printed[s].colored
    BY DEF CostsFollowTheBoard, Effective, Less
  <2>1. off(s) = Sum(Amount, Sources(s))
    BY Zenon DEF MapThenSumSet, MapThenFoldSet, Sum, FoldFunctionOnSet, Sources
  <2>2. MaxMana \in Nat /\ 0 \in 0 .. MaxMana /\ Printed[s].xCount \in Nat
    BY PaymentAssumption DEF Costs
  <2>3. /\ cost \in Costs /\ cost.colored = Printed[s].colored /\ cost.xValue = 0
        /\ Owed(cost) = Less(Full(s, 0), Sum(Amount, Sources(s)))
    BY <2>2, CostFacts DEF Effective
  <2>4. Printed[s].generic \in Nat /\ CommanderTax(s) \in Nat
    BY PaymentAssumption DEF Costs, CommanderTax, PaymentFits
  <2>5. Full(s, 0) = full(s)
    BY <2>2, <2>4 DEF Full
  <2>6. Owed(cost) = cost.generic
    BY <2>3, PaymentAssumption DEF Owed, Costs
  <2> QED BY <2>1, <2>3, <2>5, <2>6
<1> QED BY <1>1, PaymentInvariant, PTL

\* The search by halves finds the largest X there is a plan for, and finds none
\* only if there is no plan for any (maximum_affordable_x).
THEOREM SearchFindsLargestX == Spec => []LargestXIsFound
<1>1. PaymentFits => LargestXIsFound
  <2> DEFINE affordable(s) == {x \in 0 .. MaxMana : CastPaymentPlans(s, x) # <<>>}
  <2> SUFFICES ASSUME PaymentFits, NEW s \in Spells, Printed[s].xCount > 0
               PROVE  MaximumAffordableX(s) = IF affordable(s) = {} THEN {} ELSE {Max(affordable(s))}
    BY DEF LargestXIsFound
  <2>1. MaxMana \in Nat /\ 0 \in 0 .. MaxMana
    BY PaymentAssumption
  <2>2. CASE CastPaymentPlans(s, 0) = <<>>
    <3>1. MaximumAffordableX(s) = {}
      BY <2>2 DEF MaximumAffordableX
    <3>2. ~CanPay(s, 0)
      BY <2>1, <2>2, AffordableFacts
    <3>3. ASSUME NEW x \in 0 .. MaxMana, CastPaymentPlans(s, x) # <<>> PROVE FALSE
      <4>1. CanPay(s, x)
        BY <3>3, AffordableFacts
      <4>2. 0 \in 0 .. x
        BY <2>1
      <4> QED BY <3>2, <4>1, <4>2, CanPayLess
    <3> QED BY <3>1, <3>3
  <2>3. CASE CastPaymentPlans(s, 0) # <<>>
    <3>1. PICK x \in 0 .. MaxMana :
            /\ MaximumAffordableX(s) = {x} /\ CastPaymentPlans(s, x) # <<>>
            /\ \A y \in 0 .. MaxMana : y > x => CastPaymentPlans(s, y) = <<>>
      BY <2>3, SearchFacts
    <3>2. x \in affordable(s) /\ \A y \in affordable(s) : x >= y
      BY <2>1, <3>1
    <3>3. \A y \in affordable(s) : y \in Int
      BY <2>1
    <3> HIDE DEF affordable
    <3>4. Max(affordable(s)) = x
      <4>1. ASSUME NEW z \in affordable(s), \A y \in affordable(s) : z >= y PROVE z = x
        <5>1. z \in Int /\ x \in Int /\ z >= x /\ x >= z
          BY <3>2, <3>3, <4>1
        <5> QED BY <5>1
      <4>2. Max(affordable(s)) = CHOOSE z \in affordable(s) : \A y \in affordable(s) : z >= y
        BY Zenon DEF Max
      <4> QED BY <3>2, <4>1, <4>2
    <3> QED BY <3>1, <3>2, <3>4
  <2> QED BY <2>2, <2>3
<1> QED BY <1>1, PaymentInvariant, PTL

\* What could be made of the pool are the payments of the spell's cost.
LEMMA PlansFacts ==
  ASSUME NEW s \in Spells, NEW x \in 0 .. MaxMana, PaymentFits
  PROVE  /\ \A c \in Effective(s, x) : \A g \in Payable(pool, c) :
              Owed(c) <= MaxMana => Offer(g, c, x) \in PlansFrom(s, x)
         /\ \A p \in PlansFrom(s, x) : \E c \in Effective(s, x) : \E g \in Payable(pool, c) :
              Owed(c) <= MaxMana /\ p = Offer(g, c, x)
<1> DEFINE paids == {q \in [ToSet(Kinds) -> 0 .. Total(pool)] : Covers(pool, q)}
<1>1. pool \in Amounts /\ Effective(s, x) \subseteq Costs
  BY CostFacts, PoolIsAmount DEF Effective
<1>2. \A p : p \in PlansFrom(s, x) <=>
        \E c \in Effective(s, x), q \in paids : \E v \in ValidatePaymentPlan(pool, c, q) : p = Canonical(v, x)
  <2> DEFINE made(c, q) == {Canonical(v, x) : v \in ValidatePaymentPlan(pool, c, q)}
  <2>1. PlansFrom(s, x) = UNION {made(c, q) : c \in Effective(s, x), q \in paids}
    BY DEF PlansFrom, Canonical, Effective
  <2>2. \A c, q, p : p \in made(c, q) <=> \E v \in ValidatePaymentPlan(pool, c, q) : p = Canonical(v, x)
    OBVIOUS
  <2> HIDE DEF made, paids
  <2>3. \A T : T \in {made(c, q) : c \in Effective(s, x), q \in paids} <=>
               \E c \in Effective(s, x), q \in paids : T = made(c, q)
    OBVIOUS
  <2>4. \A p : p \in PlansFrom(s, x) <=> \E T \in {made(c, q) : c \in Effective(s, x), q \in paids} : p \in T
    BY <2>1
  <2>5. ASSUME NEW p \in PlansFrom(s, x)
        PROVE  \E c \in Effective(s, x), q \in paids : \E v \in ValidatePaymentPlan(pool, c, q) : p = Canonical(v, x)
    <3>1. PICK T \in {made(c, q) : c \in Effective(s, x), q \in paids} : p \in T
      BY <2>4
    <3>2. PICK c \in Effective(s, x), q \in paids : T = made(c, q)
      BY <2>3
    <3> QED BY <2>2, <3>1, <3>2
  <2>6. ASSUME NEW c \in Effective(s, x), NEW q \in paids, NEW v \in ValidatePaymentPlan(pool, c, q)
        PROVE  Canonical(v, x) \in PlansFrom(s, x)
    <3>1. made(c, q) \in {made(d, u) : d \in Effective(s, x), u \in paids}
      OBVIOUS
    <3>2. Canonical(v, x) \in made(c, q)
      BY <2>2
    <3> QED BY <2>4, <3>1, <3>2
  <2> QED BY <2>5, <2>6
<1>3. ASSUME NEW c \in Effective(s, x), NEW g \in Payable(pool, c), Owed(c) <= MaxMana
      PROVE  Offer(g, c, x) \in PlansFrom(s, x)
  <2> DEFINE paid == Plus(ColoredPool(c), g)
  <2>1. c \in Costs
    BY <1>1
  <2>2. paid \in Amounts /\ Covers(pool, paid)
    BY <1>1, <2>1, PaidFacts
  <2>3. Plan(g, c) \in ValidatePaymentPlan(pool, c, paid)
    BY <1>1, <1>3, <2>1, ValidFacts
  <2> HIDE DEF paid
  <2>4. paid \in paids
    <3>1. ASSUME NEW k \in ToSet(Kinds) PROVE paid[k] \in 0 .. Total(pool)
      <4>1. pool[k] \in Nat /\ pool[k] <= Total(pool) /\ Total(pool) \in Nat
        BY <1>1, TotalFacts
      <4>2. paid[k] \in Nat /\ paid[k] <= pool[k]
        BY <2>2 DEF Amounts, Covers
      <4> QED BY <4>1, <4>2
    <3> QED BY <2>2, <3>1 DEF Amounts
  <2> HIDE DEF paids
  <2> QED BY <1>2, <2>3, <2>4 DEF Offer
<1>4. ASSUME NEW p \in PlansFrom(s, x)
      PROVE  \E c \in Effective(s, x) : \E g \in Payable(pool, c) : Owed(c) <= MaxMana /\ p = Offer(g, c, x)
  <2>1. PICK c \in Effective(s, x), q \in paids :
          \E v \in ValidatePaymentPlan(pool, c, q) : p = Canonical(v, x)
    <3> HIDE DEF paids
    <3> QED BY <1>2
  <2>2. PICK v \in ValidatePaymentPlan(pool, c, q) : p = Canonical(v, x)
    BY <2>1
  <2>3. c \in Costs
    BY <1>1
  <2>4. q \in Amounts
    <3>1. Total(pool) \in Nat
      BY <1>1, TotalFacts
    <3> QED BY <3>1 DEF Amounts
  <2>5. Owed(c) <= MaxMana
    <3>1. GenericTotal(c) # {}
      BY <2>2 DEF ValidatePaymentPlan
    <3> QED BY <2>3, <3>1, OwedFacts
  <2>6. PICK g \in Payable(pool, c) : v = Plan(g, c)
    BY <1>1, <2>2, <2>3, <2>4, <2>5, ValidFacts
  <2> QED BY <2>2, <2>5, <2>6 DEF Offer
<1> QED BY <1>3, <1>4

\* Every plan the driver offers is accepted by cast_spell, none is offered twice,
\* below the limit all payments the kernel accepts are offered, and the first
\* wastes the least coloured mana (cast_payment_plans, enumerate_payment_plans,
\* validate_payment_plan).
THEOREM OffersAreAccepted == Spec => []OffersAreTheAcceptedPlans
<1>1. PaymentFits => OffersAreTheAcceptedPlans
  <2> DEFINE offers(s, x) == CastPaymentPlans(s, x)
             Agree(s, x) == /\ \A i \in DOMAIN offers(s, x) : CastAccepts(s, offers(s, x)[i])
                            /\ IsInjective(offers(s, x)) /\ ToSet(offers(s, x)) \subseteq PlansFrom(s, x)
                            /\ Len(offers(s, x)) < PlanLimit => ToSet(offers(s, x)) = PlansFrom(s, x)
                            /\ offers(s, x) # <<>> => \A p \in PlansFrom(s, x) : offers(s, x)[1].waste <= p.waste
  <2>1. ASSUME PaymentFits, NEW s \in Spells, NEW x \in Announceable(s) PROVE Agree(s, x)
    <3> DEFINE o == offers(s, x)
    <3>1. x \in 0 .. MaxMana
      BY <2>1, AnnouncedFacts
    <3>2. \A i \in DOMAIN o : CastAccepts(s, o[i])
      BY <2>1, <3>1, OfferIsAccepted DEF ToSet
    <3>3. ToSet(o) \subseteq PlansFrom(s, x)
      <4> SUFFICES ASSUME NEW p \in ToSet(o) PROVE p \in PlansFrom(s, x)
        OBVIOUS
      <4>1. \E c \in Effective(s, x) : \E g \in Payable(pool, c) : Owed(c) <= MaxMana /\ p = Offer(g, c, x)
        BY <2>1, <3>1, OfferFacts
      <4> QED BY <2>1, <3>1, <4>1, PlansFacts
    <3>4. CASE o = <<>> /\ \A c \in Effective(s, x) : Owed(c) > MaxMana
      <4>1. PlansFrom(s, x) = {}
        <5> SUFFICES ASSUME NEW p \in PlansFrom(s, x) PROVE FALSE
          OBVIOUS
        <5>1. PICK c \in Effective(s, x) : Owed(c) <= MaxMana
          BY <2>1, <3>1, PlansFacts
        <5>2. Owed(c) \in Nat /\ MaxMana \in Nat
          BY <2>1, <3>1, CostFacts, OwedFacts, PaymentAssumption DEF Effective
        <5> QED BY <3>4, <5>1, <5>2
      <4>2. IsInjective(o) /\ ToSet(o) = {}
        BY <3>4 DEF IsInjective, ToSet
      <4> QED BY <3>2, <3>4, <4>1, <4>2
    <3>5. ASSUME NEW c \in Effective(s, x), NEW r, Owed(c) <= MaxMana, Lists(r, Payable(pool, c)),
                 o = [i \in DOMAIN r |-> Offer(r[i], c, x)]
          PROVE  Agree(s, x)
      <4>1. /\ r \in Seq(Payable(pool, c)) /\ DOMAIN o = DOMAIN r /\ DOMAIN r = 1 .. Len(r) /\ Len(r) \in Nat
            /\ \A i \in DOMAIN r : o[i] = Offer(r[i], c, x) /\ r[i] \in Payable(pool, c)
        BY <3>5 DEF Lists
      <4>2. Len(o) = Len(r)
        BY <3>5, <4>1
      <4>3. IsInjective(o)
        <5>1. ASSUME NEW i \in DOMAIN r, NEW j \in DOMAIN r, o[i] = o[j] PROVE i = j
          <6>1. r[i] = r[j]
            BY <4>1, <5>1, PlanFacts
          <6> QED BY <3>5, <6>1 DEF Lists, IsInjective
        <5> QED BY <4>1, <5>1 DEF IsInjective
      <4>4. ASSUME NEW p \in PlansFrom(s, x) PROVE \E g \in Payable(pool, c) : p = Offer(g, c, x)
        <5>1. PICK d \in Effective(s, x) : \E g \in Payable(pool, d) : p = Offer(g, d, x)
          BY <2>1, <3>1, PlansFacts
        <5>2. \A a, b \in Effective(s, x) : a = b
          BY <2>1, <3>1, CostFacts DEF Effective
        <5> QED BY <5>1, <5>2
      <4>5. ASSUME Len(r) < PlanLimit PROVE ToSet(o) = PlansFrom(s, x)
        <5> SUFFICES ASSUME NEW p \in PlansFrom(s, x) PROVE p \in ToSet(o)
          BY <3>3
        <5>1. PICK g \in Payable(pool, c) : p = Offer(g, c, x)
          BY <4>4
        <5>2. PICK i \in DOMAIN r : r[i] = g
          BY <3>5, <4>5 DEF Lists, Range
        <5> QED BY <4>1, <5>1, <5>2 DEF ToSet
      <4>6. ASSUME o # <<>>, NEW p \in PlansFrom(s, x) PROVE o[1].waste <= p.waste
        <5>1. 1 \in DOMAIN r
          <6>1. r # <<>>
            BY <3>5, <4>6
          <6> QED BY <4>1, <6>1
        <5>2. PICK g \in Payable(pool, c) : p = Offer(g, c, x)
          BY <4>4
        <5>3. r[1] \in Amounts /\ g \in Amounts
          BY <4>1, <5>1 DEF Payable
        <5>4. r[1] = g \/ Earlier(r[1], g)
          <6>1. \A j \in 1 .. 1 : j = 1
            OBVIOUS
          <6> QED BY <3>5, <5>1, <6>1 DEF Lists, Leads
        <5>5. ColoredTotal(r[1]) <= ColoredTotal(g)
          <6>1. ColoredTotal(r[1]) \in Nat /\ ColoredTotal(g) \in Nat
            BY <5>3, TotalFacts
          <6> QED BY <5>4, <6>1 DEF Earlier
        <5>6. o[1].waste = ColoredTotal(r[1]) /\ p.waste = ColoredTotal(g)
          BY <4>1, <5>1, <5>2, PlanFacts
        <5> QED BY <5>5, <5>6
      <4> QED BY <3>2, <3>3, <4>2, <4>3, <4>5, <4>6
    <3> HIDE DEF Agree, offers
    <3> QED BY <2>1, <3>1, <3>4, <3>5, OffersFacts DEF offers
  <2> QED BY <2>1 DEF OffersAreTheAcceptedPlans
<1> QED BY <1>1, PaymentInvariant, PTL
=============================================================================
