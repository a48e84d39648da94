---- MODULE SelectionProofs ----
(***************************************************************************)
(* Facts about sequences that the proofs of the other modules share: Keep  *)
(* yields the chosen members in their order, and what concatenation, cuts  *)
(* and Append do to the set of members.  Induction over the positions of a *)
(* sequence is by a least counterexample: it takes a set where a theorem   *)
(* about predicates would need an operator parameter.                      *)
(***************************************************************************)
EXTENDS Selection, Functions, FiniteSets, FiniteSetTheorems, WellFoundedInduction, TLAPS

LEMMA LeastNatural ==
  ASSUME NEW T \in SUBSET Nat, T # {}
  PROVE  \E x \in T : \A y \in T : x <= y
<1>1. IsWellFoundedOn(OpToRel(<, Nat), Nat)
  BY NatLessThanWellFounded
<1> DEFINE R == OpToRel(<, Nat)
<1>2. \E x \in T : \A y \in T : ~(<<y, x>> \in R)
  <2>1. IsWellFoundedOn(R, Nat)
    BY <1>1
  <2> HIDE DEF R
  <2> QED BY <2>1, WFMin
<1>3. PICK x \in T : \A y \in T : ~(<<y, x>> \in R)
  BY <1>2
<1>4. ASSUME NEW y \in T PROVE x <= y
  <2>1. ~(<<y, x>> \in R)
    BY <1>3
  <2>2. ~(y < x)
    BY <2>1 DEF OpToRel
  <2> QED BY <2>2
<1> QED BY <1>4

\* Induction over the numbers from 0 to m, for a set in place of a predicate.
LEMMA UpTo ==
  ASSUME NEW m \in Nat, NEW T, 0 \in T,
         \A i \in 0 .. m : i > 0 /\ i - 1 \in T => i \in T
  PROVE  \A i \in 0 .. m : i \in T
<1> DEFINE W == {i \in 0 .. m : i \notin T}
<1>1. CASE W = {}
  BY <1>1
<1>2. CASE W # {}
  <2>1. PICK x \in W : \A y \in W : x <= y
    <3>1. W \in SUBSET Nat
      OBVIOUS
    <3> QED BY <3>1, <1>2, LeastNatural
  <2>2. x \in 0 .. m /\ x \notin T /\ x # 0
    BY <2>1
  <2>3. x - 1 \in 0 .. m /\ x > 0
    BY <2>2
  <2>4. x - 1 \in T
    BY <2>1, <2>3
  <2> QED BY <2>2, <2>3, <2>4
<1> QED BY <1>1, <1>2

KeepStep(s, S, f, i) ==
  IF i = 0 THEN <<>> ELSE IF s[i] \in S THEN Append(f[i - 1], s[i]) ELSE f[i - 1]

\* The recursion has a solution.
LEMMA KeepExists ==
  ASSUME NEW s, NEW S, NEW n \in Nat
  PROVE  \E f : f = [i \in 0 .. n |-> KeepStep(s, S, f, i)]
<1> DEFINE T == {k \in 0 .. n : \E f : f = [i \in 0 .. k |-> KeepStep(s, S, f, i)]}
<1>1. 0 \in T
  <2> DEFINE g == [i \in 0 .. 0 |-> <<>>]
  <2>1. g = [i \in 0 .. 0 |-> KeepStep(s, S, g, i)]
    BY DEF KeepStep
  <2> HIDE DEF g
  <2> QED BY <2>1
<1>2. ASSUME NEW k \in 0 .. n, k > 0, k - 1 \in T
      PROVE  k \in T
  <2>1. PICK f : f = [i \in 0 .. k - 1 |-> KeepStep(s, S, f, i)]
    BY <1>2
  <2> DEFINE g == [i \in 0 .. k |-> IF i = k THEN KeepStep(s, S, f, i) ELSE f[i]]
  <2>2. ASSUME NEW i \in 0 .. k
        PROVE  g[i] = KeepStep(s, S, g, i)
    <3>1. g[i] = IF i = k THEN KeepStep(s, S, f, i) ELSE f[i]
      OBVIOUS
    <3>2. ASSUME i # k PROVE f[i] = KeepStep(s, S, f, i)
      <4>1. i \in 0 .. k - 1
        BY <3>2, <1>2
      <4> QED BY <4>1, <2>1
    <3>3. g[i] = KeepStep(s, S, f, i)
      BY <3>1, <3>2
    <3>4. CASE i = 0
      BY <3>3, <3>4 DEF KeepStep
    <3>5. CASE i # 0
      <4>1. g[i - 1] = f[i - 1]
        BY <3>5, <1>2
      <4> HIDE DEF g
      <4> QED BY <4>1, <3>3, <3>5 DEF KeepStep
    <3> QED BY <3>4, <3>5
  <2>3. g = [i \in 0 .. k |-> g[i]]
    OBVIOUS
  <2>4. g = [i \in 0 .. k |-> KeepStep(s, S, g, i)]
    <3> HIDE DEF g
    <3> QED BY <2>2, <2>3
  <2> HIDE DEF g
  <2> QED BY <2>4, <1>2
<1>3. \A i \in 0 .. n : i \in T
  <2> HIDE DEF T
  <2> QED BY <1>1, <1>2, UpTo
<1>4. n \in T
  <2> HIDE DEF T
  <2>1. n \in 0 .. n
    OBVIOUS
  <2> QED BY <2>1, <1>3
<1> QED BY <1>4

LEMMA KeepDef ==
  ASSUME NEW s, NEW S, Len(s) \in Nat
  PROVE  \E f : /\ f = [i \in 0 .. Len(s) |-> KeepStep(s, S, f, i)]
                /\ Keep(s, S) = f[Len(s)]
<1> DEFINE Is(f) == f = [i \in 0 .. Len(s) |-> KeepStep(s, S, f, i)]
           F == CHOOSE f : Is(f)
<1>1. Keep(s, S) = F[Len(s)]
  BY DEF Keep, KeepStep
<1>2. \E f : Is(f)
  BY KeepExists
<1>3. Is(F)
  <2> HIDE DEF Is
  <2> QED BY <1>2
<1> HIDE DEF F
<1> QED BY <1>1, <1>3

(* A recursion over 0 .. n whose i-th step leads from G[i - 1] into G[i] has *)
(* a solution, and the solution stays in these sets.                        *)
Recursion(f, n, g, step) == f = [i \in 0 .. n |-> IF i = 0 THEN g ELSE step[i][f[i - 1]]]

LEMMA RecursionStays ==
  ASSUME NEW n \in Nat, NEW G, NEW g, g \in G[0], NEW step,
         \A i \in 1 .. n : \A h \in G[i - 1] : step[i][h] \in G[i]
  PROVE  \E f : Recursion(f, n, g, step) /\ \A i \in 0 .. n : f[i] \in G[i]
<1> DEFINE Is(f, k) == f = [i \in 0 .. k |-> IF i = 0 THEN g ELSE step[i][f[i - 1]]]
           T == {k \in 0 .. n : \E f : Is(f, k)}
<1>1. 0 \in T
  <2> DEFINE h == [i \in 0 .. 0 |-> g]
  <2>1. Is(h, 0)
    OBVIOUS
  <2> HIDE DEF h, Is
  <2> QED BY <2>1
<1>2. ASSUME NEW k \in 0 .. n, k > 0, k - 1 \in T
      PROVE  k \in T
  <2>1. PICK f : Is(f, k - 1)
    BY <1>2
  <2> DEFINE h == [i \in 0 .. k |-> IF i = k THEN step[k][f[k - 1]] ELSE f[i]]
  <2>2. ASSUME NEW i \in 0 .. k
        PROVE  h[i] = IF i = 0 THEN g ELSE step[i][h[i - 1]]
    <3>1. h[i] = IF i = k THEN step[k][f[k - 1]] ELSE f[i]
      OBVIOUS
    <3>2. ASSUME i # 0 PROVE h[i - 1] = f[i - 1]
      <4>1. i - 1 \in 0 .. k /\ i - 1 # k
        BY <3>2, <1>2
      <4> QED BY <4>1
    <3>3. ASSUME i # k PROVE f[i] = IF i = 0 THEN g ELSE step[i][f[i - 1]]
      <4>1. i \in 0 .. k - 1
        BY <3>3, <1>2
      <4> QED BY <4>1, <2>1
    <3> HIDE DEF h
    <3> QED BY <3>1, <3>2, <3>3, <1>2
  <2>3. h = [i \in 0 .. k |-> h[i]]
    OBVIOUS
  <2>4. Is(h, k)
    <3> HIDE DEF h
    <3> QED BY <2>2, <2>3
  <2> HIDE DEF h, Is
  <2> QED BY <2>4, <1>2
<1>3. n \in T
  <2> HIDE DEF T
  <2>1. \A i \in 0 .. n : i \in T
    BY <1>1, <1>2, UpTo
  <2> QED BY <2>1
<1>4. PICK f : Is(f, n)
  BY <1>3
<1> DEFINE S == {i \in 0 .. n : f[i] \in G[i]}
<1>5. \A i \in 0 .. n : i \in S
  <2>1. 0 \in S
    BY <1>4
  <2>2. ASSUME NEW i \in 0 .. n, i > 0, i - 1 \in S
        PROVE  i \in S
    <3>1. i \in 1 .. n /\ f[i - 1] \in G[i - 1]
      BY <2>2
    <3>2. f[i] = step[i][f[i - 1]]
      BY <1>4, <2>2
    <3> QED BY <3>1, <3>2
  <2> HIDE DEF S
  <2> QED BY <2>1, <2>2, UpTo
<1>6. \A i \in 0 .. n : f[i] \in G[i]
  BY <1>5
<1>7. Recursion(f, n, g, step)
  BY <1>4 DEF Recursion
<1> QED BY <1>6, <1>7

LEMMA AppendFacts ==
  ASSUME NEW A, NEW r \in Seq(A), NEW x \in A
  PROVE  /\ Append(r, x) \in Seq(A) /\ Len(Append(r, x)) = Len(r) + 1
         /\ Range(Append(r, x)) = Range(r) \cup {x}
         /\ IsInjective(r) /\ x \notin Range(r) => IsInjective(Append(r, x))
<1> DEFINE a == Append(r, x)
<1>1. /\ a \in Seq(A) /\ Len(a) = Len(r) + 1 /\ Len(r) \in Nat
      /\ a[Len(r) + 1] = x /\ \A i \in 1 .. Len(r) : a[i] = r[i]
      /\ DOMAIN a = 1 .. Len(r) + 1 /\ DOMAIN r = 1 .. Len(r)
  OBVIOUS
<1> HIDE DEF a
<1>2. Range(a) = Range(r) \cup {x}
  <2>1. \A i \in 1 .. Len(r) + 1 : i \in 1 .. Len(r) \/ i = Len(r) + 1
    BY <1>1
  <2>2. \A i \in 1 .. Len(r) : i \in 1 .. Len(r) + 1
    BY <1>1
  <2>3. Len(r) + 1 \in 1 .. Len(r) + 1
    BY <1>1
  <2> QED BY <1>1, <2>1, <2>2, <2>3 DEF Range
<1>3. ASSUME IsInjective(r), x \notin Range(r)
      PROVE  IsInjective(a)
  <2> SUFFICES ASSUME NEW i \in 1 .. Len(r) + 1, NEW j \in 1 .. Len(r) + 1, a[i] = a[j]
               PROVE  i = j
    BY <1>1 DEF IsInjective
  <2>1. \A k \in 1 .. Len(r) : a[k] # x
    BY <1>1, <1>3 DEF Range
  <2>2. \A k \in 1 .. Len(r) + 1 : k \in 1 .. Len(r) \/ k = Len(r) + 1
    BY <1>1
  <2> QED BY <1>1, <1>3, <2>1, <2>2 DEF IsInjective
<1> QED BY <1>1, <1>2, <1>3 DEF a

\* What Keep returns: the members of S in s, none of them more often than in s.
LEMMA KeepFacts ==
  ASSUME NEW A, NEW s \in Seq(A), NEW S
  PROVE  /\ Keep(s, S) \in Seq(A) /\ Len(Keep(s, S)) <= Len(s)
         /\ Range(Keep(s, S)) = Range(s) \cap S
         /\ IsInjective(s) => IsInjective(Keep(s, S))
<1>1. Len(s) \in Nat /\ DOMAIN s = 1 .. Len(s) /\ \A i \in 1 .. Len(s) : s[i] \in A
  OBVIOUS
<1>2. PICK f : f = [i \in 0 .. Len(s) |-> KeepStep(s, S, f, i)] /\ Keep(s, S) = f[Len(s)]
  BY <1>1, KeepDef
<1> DEFINE Seen(i) == {s[j] : j \in 1 .. i}
           Good(i) == /\ f[i] \in Seq(A) /\ Len(f[i]) <= i
                      /\ Range(f[i]) = Seen(i) \cap S
                      /\ IsInjective(s) => IsInjective(f[i])
           T == {i \in 0 .. Len(s) : Good(i)}
<1>3. 0 \in T
  <2>1. f[0] = <<>>
    BY <1>1, <1>2 DEF KeepStep
  <2>2. Range(f[0]) = {}
    BY <2>1 DEF Range
  <2>3. IsInjective(f[0])
    <3>1. Len(f[0]) = 0
      BY <2>1
    <3> QED BY <3>1 DEF IsInjective
  <2>4. Seen(0) = {}
    OBVIOUS
  <2>5. f[0] \in Seq(A) /\ Len(f[0]) <= 0
    BY <2>1
  <2> HIDE DEF Seen
  <2> QED BY <1>1, <2>2, <2>3, <2>4, <2>5
<1>4. ASSUME NEW i \in 0 .. Len(s), i > 0, i - 1 \in T
      PROVE  i \in T
  <2>1. i \in 1 .. Len(s) /\ s[i] \in A /\ i - 1 \in 0 .. Len(s)
    BY <1>1, <1>4
  <2>2. Good(i - 1)
    BY <1>4
  <2>3. Seen(i) = Seen(i - 1) \cup {s[i]}
    <3>1. \A j \in 1 .. i : j \in 1 .. i - 1 \/ j = i
      BY <2>1
    <3>2. \A j \in 1 .. i - 1 : j \in 1 .. i
      BY <2>1
    <3>3. i \in 1 .. i
      BY <2>1
    <3> QED BY <3>1, <3>2, <3>3
  <2>4. IsInjective(s) => s[i] \notin Seen(i - 1)
    <3>1. \A j \in 1 .. i - 1 : j \in 1 .. Len(s) /\ j # i
      BY <2>1, <1>1
    <3> QED BY <2>1, <3>1 DEF IsInjective
  <2>5. f[i] = KeepStep(s, S, f, i)
    BY <1>2
  <2> HIDE DEF Seen
  <2>6. CASE s[i] \in S
    <3>1. f[i] = Append(f[i - 1], s[i])
      BY <2>1, <2>5, <2>6 DEF KeepStep
    <3>2. /\ f[i] \in Seq(A) /\ Len(f[i]) = Len(f[i - 1]) + 1
          /\ Range(f[i]) = Range(f[i - 1]) \cup {s[i]}
          /\ IsInjective(f[i - 1]) /\ s[i] \notin Range(f[i - 1]) => IsInjective(f[i])
      BY <2>1, <2>2, <3>1, AppendFacts
    <3>3. Range(f[i]) = Seen(i) \cap S
      BY <2>2, <2>3, <2>6, <3>2
    <3>4. Len(f[i]) <= i
      <4>1. Len(f[i - 1]) \in Nat
        BY <2>2
      <4> QED BY <2>1, <2>2, <3>2, <4>1
    <3>5. IsInjective(s) => IsInjective(f[i])
      BY <2>2, <2>4, <3>2
    <3> QED BY <3>2, <3>3, <3>4, <3>5
  <2>7. CASE s[i] \notin S
    <3>1. f[i] = f[i - 1]
      BY <2>1, <2>5, <2>7 DEF KeepStep
    <3>2. Len(f[i]) <= i
      <4>1. Len(f[i - 1]) \in Nat
        BY <2>2
      <4> QED BY <2>1, <2>2, <3>1, <4>1
    <3>3. Range(f[i]) = Seen(i) \cap S
      BY <2>2, <2>3, <2>7, <3>1
    <3> QED BY <2>2, <3>1, <3>2, <3>3
  <2> QED BY <2>6, <2>7
<1>5. Len(s) \in T
  <2> HIDE DEF T
  <2>1. \A i \in 0 .. Len(s) : i \in T
    BY <1>1, <1>3, <1>4, UpTo
  <2> QED BY <1>1, <2>1
<1>6. Seen(Len(s)) = Range(s)
  BY <1>1 DEF Range
<1> HIDE DEF Seen
<1> QED BY <1>2, <1>5, <1>6

\* Keep of everything after the first k members is the end of the sequence.
LEMMA KeepSuffix ==
  ASSUME NEW A, NEW s \in Seq(A), NEW S, NEW k \in 0 .. Len(s),
         \A i \in 1 .. Len(s) : s[i] \in S <=> i > k
  PROVE  /\ Keep(s, S) \in Seq(A) /\ Len(Keep(s, S)) = Len(s) - k
         /\ \A i \in 1 .. Len(s) - k : Keep(s, S)[i] = s[k + i]
<1>1. Len(s) \in Nat /\ \A i \in 1 .. Len(s) : s[i] \in A
  OBVIOUS
<1>2. PICK f : f = [i \in 0 .. Len(s) |-> KeepStep(s, S, f, i)] /\ Keep(s, S) = f[Len(s)]
  BY <1>1, KeepDef
<1> DEFINE m(i) == IF i <= k THEN 0 ELSE i - k
           Good(i) == /\ f[i] \in Seq(A) /\ Len(f[i]) = m(i)
                      /\ \A j \in 1 .. m(i) : f[i][j] = s[k + j]
           T == {i \in 0 .. Len(s) : Good(i)}
<1>3. 0 \in T
  <2>1. f[0] = <<>>
    BY <1>1, <1>2 DEF KeepStep
  <2>2. f[0] \in Seq(A) /\ Len(f[0]) = 0
    BY <2>1
  <2>3. m(0) = 0 /\ 1 .. 0 = {}
    BY <1>1
  <2> HIDE DEF m
  <2> QED BY <1>1, <2>2, <2>3
<1>4. ASSUME NEW i \in 0 .. Len(s), i > 0, i - 1 \in T
      PROVE  i \in T
  <2>1. i \in 1 .. Len(s) /\ s[i] \in A /\ i - 1 \in 0 .. Len(s)
    BY <1>1, <1>4
  <2>2. Good(i - 1)
    BY <1>4
  <2>3. f[i] = KeepStep(s, S, f, i)
    BY <1>2
  <2>4. CASE i > k
    <3>1. f[i] = Append(f[i - 1], s[i])
      BY <2>1, <2>3, <2>4 DEF KeepStep
    <3>2. m(i - 1) = i - 1 - k /\ m(i) = i - k
      BY <1>1, <2>1, <2>4
    <3>3. f[i - 1] \in Seq(A) /\ Len(f[i - 1]) = i - 1 - k
      BY <2>2, <3>2
    <3>4. f[i] \in Seq(A) /\ Len(f[i]) = i - k
      BY <1>1, <2>1, <3>1, <3>3
    <3>5. ASSUME NEW j \in 1 .. i - k
          PROVE  f[i][j] = s[k + j]
      <4>1. CASE j = i - k
        <5>1. j = Len(f[i - 1]) + 1 /\ k + j = i
          BY <1>1, <2>1, <3>3, <4>1
        <5>2. f[i][j] = s[i]
          BY <2>1, <3>1, <3>3, <5>1
        <5> QED BY <5>1, <5>2
      <4>2. CASE j # i - k
        <5>1. j \in 1 .. i - 1 - k
          BY <1>1, <2>1, <2>4, <4>2
        <5>2. f[i - 1][j] = s[k + j]
          BY <2>2, <3>2, <5>1
        <5>3. f[i][j] = f[i - 1][j]
          BY <2>1, <3>1, <3>3, <5>1
        <5> QED BY <5>2, <5>3
      <4> QED BY <4>1, <4>2
    <3> QED BY <2>1, <3>2, <3>4, <3>5
  <2>5. CASE ~(i > k)
    <3>1. f[i] = f[i - 1]
      BY <2>1, <2>3, <2>5 DEF KeepStep
    <3>2. m(i - 1) = 0 /\ m(i) = 0
      BY <1>1, <2>1, <2>5
    <3> QED BY <2>1, <2>2, <3>1, <3>2
  <2> QED BY <2>4, <2>5
<1>5. Good(Len(s))
  <2> HIDE DEF T
  <2>1. \A i \in 0 .. Len(s) : i \in T
    BY <1>1, <1>3, <1>4, UpTo
  <2>2. Len(s) \in T
    BY <1>1, <2>1
  <2> QED BY <2>2 DEF T
<1>6. m(Len(s)) = Len(s) - k
  BY <1>1
<1> QED BY <1>2, <1>5, <1>6

----------------------------------------------------------------------------
(* Sequences without repetition: taken together, cut in two, enumerated.    *)

LEMMA ConcatFacts ==
  ASSUME NEW A, NEW s \in Seq(A), NEW t \in Seq(A)
  PROVE  /\ s \o t \in Seq(A) /\ Len(s \o t) = Len(s) + Len(t)
         /\ Range(s \o t) = Range(s) \cup Range(t)
         /\ IsInjective(s) /\ IsInjective(t) /\ Range(s) \cap Range(t) = {} => IsInjective(s \o t)
<1> DEFINE r == s \o t
<1>1. /\ r \in Seq(A) /\ Len(r) = Len(s) + Len(t) /\ Len(s) \in Nat /\ Len(t) \in Nat
      /\ DOMAIN r = 1 .. Len(s) + Len(t) /\ DOMAIN s = 1 .. Len(s) /\ DOMAIN t = 1 .. Len(t)
      /\ \A i \in 1 .. Len(s) : r[i] = s[i]
      /\ \A i \in 1 .. Len(t) : r[Len(s) + i] = t[i]
  OBVIOUS
<1> HIDE DEF r
<1>2. \A i \in DOMAIN r : \/ i \in DOMAIN s /\ r[i] = s[i]
                          \/ i - Len(s) \in DOMAIN t /\ r[i] = t[i - Len(s)]
  <2> SUFFICES ASSUME NEW i \in 1 .. Len(s) + Len(t), i \notin 1 .. Len(s)
               PROVE  i - Len(s) \in 1 .. Len(t) /\ r[i] = t[i - Len(s)]
    BY <1>1
  <2>1. i - Len(s) \in 1 .. Len(t) /\ Len(s) + (i - Len(s)) = i
    BY <1>1
  <2> QED BY <1>1, <2>1
<1>3. Range(r) = Range(s) \cup Range(t)
  <2>1. \A i \in 1 .. Len(s) : i \in DOMAIN r
    BY <1>1
  <2>2. \A i \in 1 .. Len(t) : Len(s) + i \in DOMAIN r
    BY <1>1
  <2>3. Range(r) \subseteq Range(s) \cup Range(t)
    BY <1>2 DEF Range
  <2>4. Range(s) \subseteq Range(r)
    BY <1>1, <2>1 DEF Range
  <2>5. Range(t) \subseteq Range(r)
    <3>1. \A i \in 1 .. Len(t) : r[Len(s) + i] \in Range(r)
      BY <2>2 DEF Range
    <3> QED BY <1>1, <3>1 DEF Range
  <2> QED BY <2>3, <2>4, <2>5
<1>4. ASSUME IsInjective(s), IsInjective(t), Range(s) \cap Range(t) = {}
      PROVE  IsInjective(r)
  <2> SUFFICES ASSUME NEW i \in DOMAIN r, NEW j \in DOMAIN r, r[i] = r[j]
               PROVE  i = j
    BY DEF IsInjective
  <2>1. \A k \in DOMAIN s, l \in DOMAIN t : s[k] # t[l]
    BY <1>4 DEF Range
  <2>2. CASE i \in DOMAIN s /\ r[i] = s[i] /\ j \in DOMAIN s /\ r[j] = s[j]
    BY <1>4, <2>2 DEF IsInjective
  <2>3. CASE /\ i - Len(s) \in DOMAIN t /\ r[i] = t[i - Len(s)]
             /\ j - Len(s) \in DOMAIN t /\ r[j] = t[j - Len(s)]
    <3>1. i - Len(s) = j - Len(s)
      BY <1>4, <2>3 DEF IsInjective
    <3> QED BY <1>1, <3>1
  <2> QED BY <1>2, <2>1, <2>2, <2>3
<1> QED BY <1>1, <1>3, <1>4 DEF r

\* The last k members of s, last first, and what is left.
LEMMA CutFacts ==
  ASSUME NEW A, NEW s \in Seq(A), IsInjective(s), NEW k \in 0 .. Len(s),
         NEW off \in [1 .. k -> A], \A i \in 1 .. k : off[i] = s[Len(s) + 1 - i]
  PROVE  LET rest == SubSeq(s, 1, Len(s) - k)
         IN /\ rest \in Seq(A) /\ IsInjective(rest)
            /\ off \in Seq(A) /\ IsInjective(off)
            /\ Range(rest) \cap Range(off) = {} /\ Range(rest) \cup Range(off) = Range(s)
<1> DEFINE rest == SubSeq(s, 1, Len(s) - k)
<1>1. Len(s) \in Nat /\ DOMAIN s = 1 .. Len(s) /\ \A i \in 1 .. Len(s) : s[i] \in A
  OBVIOUS
<1>2. /\ rest \in Seq(A) /\ DOMAIN rest = 1 .. Len(s) - k
      /\ \A i \in 1 .. Len(s) - k : rest[i] = s[i]
  BY <1>1
<1>3. DOMAIN off = 1 .. k /\ \A i \in 1 .. k : off[i] = s[Len(s) + 1 - i]
  OBVIOUS
<1>4. \A i \in 1 .. k : Len(s) + 1 - i \in 1 .. Len(s) /\ ~(Len(s) + 1 - i <= Len(s) - k)
  BY <1>1
<1>5. off \in Seq(A)
  <2>1. k \in Nat
    BY <1>1
  <2> QED BY <2>1
<1>6. \A i \in 1 .. Len(s) - k : i \in 1 .. Len(s) /\ i <= Len(s) - k
  BY <1>1
<1> HIDE DEF rest
<1>7. IsInjective(rest)
  BY <1>1, <1>2, <1>6 DEF IsInjective
<1>8. IsInjective(off)
  <2> SUFFICES ASSUME NEW i \in 1 .. k, NEW j \in 1 .. k, off[i] = off[j]
               PROVE  i = j
    BY <1>3 DEF IsInjective
  <2>1. Len(s) + 1 - i = Len(s) + 1 - j
    BY <1>1, <1>3, <1>4 DEF IsInjective
  <2> QED BY <1>1, <2>1
<1>9. ASSUME NEW x \in Range(rest), x \in Range(off)
      PROVE  FALSE
  <2>1. PICK i \in 1 .. Len(s) - k : x = s[i]
    BY <1>2, <1>9 DEF Range
  <2>2. PICK j \in 1 .. k : x = s[Len(s) + 1 - j]
    BY <1>3, <1>9 DEF Range
  <2>3. i = Len(s) + 1 - j
    BY <1>1, <1>4, <1>6, <2>1, <2>2 DEF IsInjective
  <2> QED BY <1>4, <1>6, <2>3
<1>10. ASSUME NEW i \in 1 .. Len(s)
       PROVE  s[i] \in Range(rest) \cup Range(off)
  <2>1. CASE i <= Len(s) - k
    <3>1. i \in 1 .. Len(s) - k
      BY <1>1, <2>1
    <3> QED BY <1>2, <3>1 DEF Range
  <2>2. CASE ~(i <= Len(s) - k)
    <3>1. Len(s) + 1 - i \in 1 .. k /\ Len(s) + 1 - (Len(s) + 1 - i) = i
      BY <1>1, <2>2
    <3>2. off[Len(s) + 1 - i] = s[i]
      BY <1>3, <3>1
    <3> QED BY <1>3, <3>1, <3>2 DEF Range
  <2> QED BY <2>1, <2>2
<1>11. Range(rest) \subseteq Range(s) /\ Range(off) \subseteq Range(s)
  BY <1>1, <1>2, <1>3, <1>4, <1>6 DEF Range
<1>12. Range(s) \subseteq Range(rest) \cup Range(off)
  BY <1>1, <1>10 DEF Range
<1> QED BY <1>2, <1>5, <1>7, <1>8, <1>9, <1>11, <1>12 DEF rest

\* An injection from 1 .. Cardinality(S) to S lists S.
LEMMA ListFacts ==
  ASSUME NEW S, IsFiniteSet(S), NEW s \in Injection(1 .. Cardinality(S), S)
  PROVE  /\ s \in Seq(S) /\ Len(s) = Cardinality(S)
         /\ Range(s) = S /\ IsInjective(s)
<1>1. Cardinality(S) \in Nat
  BY FS_CardinalityType
<1>2. s \in [1 .. Cardinality(S) -> S] /\ IsInjective(s)
  BY DEF Injection
<1>3. Cardinality(1 .. Cardinality(S)) = Cardinality(S)
  BY <1>1, FS_Interval
<1>4. s \in Surjection(1 .. Cardinality(S), S)
  BY <1>3, FS_Injection
<1>5. Range(s) = S
  BY <1>2, <1>4 DEF Surjection, Range
<1>6. s \in Seq(S) /\ Len(s) = Cardinality(S)
  BY <1>1, <1>2
<1> QED BY <1>2, <1>5, <1>6
====
