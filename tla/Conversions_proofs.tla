-------------------------- MODULE Conversions_proofs --------------------------
EXTENDS Conversions, DefaultLabels, FiniteSetTheorems, SequenceTheorems, TLAPS

LEMMA LessThan == \A x, y \in Nat : <<x, y>> \in OpToRel(<, Nat) <=> x < y
  BY DEF OpToRel

LEMMA Least ==
  ASSUME NEW T \in SUBSET Nat, T # {}
  PROVE  \E x \in T : \A y \in T : x <= y
<1> DEFINE R == OpToRel(<, Nat)
<1>1. IsWellFoundedOn(R, Nat)
  BY NatLessThanWellFounded
<1>a. \A x, y \in Nat : <<x, y>> \in R <=> x < y
  BY LessThan
<1> HIDE DEF R
<1>2. \E x \in T : \A y \in T : ~ (<<y, x>> \in R)
  BY <1>1, WFMin
<1>4. PICK x \in T : \A y \in T : ~ (<<y, x>> \in R)
  BY <1>2
<1>5. x \in Nat /\ \A y \in T : y \in Nat
  OBVIOUS
<1>6. \A y \in T : ~(y < x)
  BY <1>4, <1>5, <1>a
<1>7. \A y \in T : x <= y
  BY <1>5, <1>6
<1>8. QED
  BY <1>7

LEMMA NaturalInduction ==
  ASSUME NEW T, 0 \in T, \A n \in Nat : n \in T => n + 1 \in T
  PROVE  Nat \subseteq T
<1> DEFINE B == Nat \ T
<1> SUFFICES ASSUME B # {} PROVE FALSE
  OBVIOUS
<1>1. PICK x \in B : \A y \in B : x <= y
  <2>1. B \in SUBSET Nat
    OBVIOUS
  <2> HIDE DEF B
  <2>2. QED
    BY <2>1, Least
<1>2. x # 0 /\ x - 1 \in Nat /\ ~(x <= x - 1)
  BY <1>1
<1>3. x - 1 \in T
  BY <1>1, <1>2
<1>4. QED
  BY <1>1, <1>2, <1>3

LEMMA LargestIndex ==
  ASSUME NEW n \in Nat, NEW S \in SUBSET (1..n), S # {}
  PROVE  Max(S) \in S /\ \A i \in S : Max(S) >= i
<1> DEFINE Bounds == {k \in Nat : \A i \in S : i <= k}
<1>1. n \in Bounds /\ Bounds \in SUBSET Nat
  OBVIOUS
<1>2. PICK k \in Bounds : \A j \in Bounds : k <= j
  <2> HIDE DEF Bounds
  <2>1. QED
    BY <1>1, Least
<1>3. k \in S
  <2>1. SUFFICES ASSUME k \notin S PROVE FALSE
    OBVIOUS
  <2>2. \A i \in S : i \in Nat /\ i < k /\ i > 0
    <3>1. k \in Nat /\ \A i \in S : i \in Nat /\ i > 0 /\ i <= k
      BY <1>2
    <3>2. \A i \in S : i # k
      BY <2>1
    <3>3. QED
      BY <3>1, <3>2
  <2>3. k - 1 \in Nat /\ \A i \in S : i <= k - 1
    <3>1. PICK i \in S : TRUE
      OBVIOUS
    <3>2. k \in Nat /\ k > 0
      BY <1>2, <2>2, <3>1
    <3>3. QED
      BY <2>2, <3>2
  <2>a. k - 1 \in Bounds
    BY <2>3
  <2>4. QED
    BY <1>2, <2>a, <2>3
<1>4. \E x \in S : \A y \in S : x >= y
  BY <1>2, <1>3
<1>5. QED
  BY <1>4 DEF Max

LEMMA LastIndex ==
  ASSUME NEW n \in Nat, NEW k \in 1..n
  PROVE  Max(1..k) = k /\ (1..k) \ {k} = 1..(k - 1)
<1>1. 1..k \in SUBSET (1..n) /\ k \in 1..k
  OBVIOUS
<1>2. Max(1..k) \in 1..k /\ Max(1..k) >= k
  BY <1>1, LargestIndex
<1>3. QED
  BY <1>2

Solves(g, base, n, step) ==
    \A S \in SUBSET (1..n) :
        g[S] = IF S = {} THEN base ELSE step[<<g[S \ {Max(S)}], Max(S)>>]

LEMMA RecursionOnIndices ==
  ASSUME NEW A, NEW base \in A, NEW n \in Nat,
         NEW step \in [A \X (1..n) -> A]
  PROVE  \E g \in [SUBSET (1..n) -> A] : Solves(g, base, n, step)
<1> USE DEF Solves
<1> DEFINE Good(k, g) ==
             \A S \in SUBSET (1..k) :
                g[S] = IF S = {} THEN base
                       ELSE step[<<g[S \ {Max(S)}], Max(S)>>]
           Solved(k) == \E g \in [SUBSET (1..k) -> A] : Good(k, g)
           Reached == {k \in Nat : k <= n => Solved(k)}
<1>0. \A k \in Nat : k \in Reached <=> (k <= n => Solved(k))
  <2> HIDE DEF Solved
  <2>1. QED
    OBVIOUS
<1>1. 0 \in Reached
  <2>1. [S \in SUBSET (1..0) |-> base] \in [SUBSET (1..0) -> A]
    OBVIOUS
  <2>2. \A S \in SUBSET (1..0) : S = {}
    OBVIOUS
  <2>3. Good(0, [S \in SUBSET (1..0) |-> base])
    BY <2>2
  <2>4. Solved(0)
    BY <2>1, <2>3
  <2> HIDE DEF Solved, Reached
  <2>5. QED
    BY <1>0, <2>4
<1>2. ASSUME NEW k \in Nat, k \in Reached PROVE k + 1 \in Reached
  <2>1. SUFFICES ASSUME k + 1 <= n
                 PROVE  Solved(k + 1)
    <3> HIDE DEF Solved, Reached
    <3>1. QED
      BY <1>0
  <2>0. Solved(k)
    <3> HIDE DEF Solved, Reached
    <3>1. QED
      BY <1>0, <1>2, <2>1
  <2>2. PICK f \in [SUBSET (1..k) -> A] : Good(k, f)
    <3> HIDE DEF Good
    <3>1. QED
      BY <2>0
  <2> DEFINE Low(S) == S \ {k + 1}
             g == [S \in SUBSET (1..(k + 1)) |->
                     IF k + 1 \in S THEN step[<<f[Low(S)], k + 1>>] ELSE f[S]]
  <2>3. \A S \in SUBSET (1..(k + 1)) : Low(S) \in SUBSET (1..k)
    OBVIOUS
  <2>4. \A S \in SUBSET (1..(k + 1)) : k + 1 \notin S => S \in SUBSET (1..k)
    BY <2>3
  <2>5. k + 1 \in 1..n
    BY <2>1
  <2>6. g \in [SUBSET (1..(k + 1)) -> A]
    BY <2>3, <2>4, <2>5
  <2>7. ASSUME NEW S \in SUBSET (1..(k + 1))
        PROVE  g[S] = IF S = {} THEN base
                      ELSE step[<<g[S \ {Max(S)}], Max(S)>>]
    <3>1. CASE k + 1 \in S
      <4>1. Max(S) = k + 1
        <5>1. Max(S) \in S /\ Max(S) >= k + 1
          BY <3>1, LargestIndex, k + 1 \in Nat, S # {}
        <5>2. Max(S) \in 1..(k + 1)
          BY <5>1
        <5>3. \A m \in 1..(k + 1) : m >= k + 1 => m = k + 1
          OBVIOUS
        <5>4. QED
          BY <5>1, <5>2, <5>3
      <4>2. g[Low(S)] = f[Low(S)]
        BY <2>3
      <4>3. QED
        BY <3>1, <4>1, <4>2
    <3>2. CASE k + 1 \notin S
      <4>1. S \in SUBSET (1..k) /\ g[S] = f[S]
        BY <2>4, <3>2
      <4>2. CASE S = {}
        BY <2>2, <4>1, <4>2
      <4>3. CASE S # {}
        <5>1. /\ S \ {Max(S)} \in SUBSET (1..k)
              /\ S \ {Max(S)} \in SUBSET (1..(k + 1))
              /\ k + 1 \notin S \ {Max(S)}
          BY <4>1, <3>2
        <5>2. g[S \ {Max(S)}] = f[S \ {Max(S)}]
          BY <5>1
        <5>3. QED
          BY <2>2, <4>1, <4>3, <5>2
      <4>4. QED
        BY <4>2, <4>3
    <3>3. QED
      BY <3>1, <3>2
  <2> HIDE DEF g
  <2>8. QED
    BY <2>6, <2>7
<1> HIDE DEF Reached
<1>3. n \in Reached
  BY <1>1, <1>2, NaturalInduction
<1>4. Solved(n)
  <2> HIDE DEF Solved
  <2>1. QED
    BY <1>0, <1>3
<1>5. QED
  BY <1>4

LEMMA PrefixOfIndices ==
  ASSUME NEW n \in Nat, NEW i \in 1..n
  PROVE  /\ 1..i \in SUBSET (1..n) /\ 1..i # {}
         /\ i \in 0..n /\ i - 1 \in 0..n
<1>1. i \in Nat /\ 1 <= i /\ i <= n
  OBVIOUS
<1>2. \A j \in 1..i : j \in 1..n
  BY <1>1
<1>3. i \in 1..i /\ i \in 0..n /\ i - 1 \in 0..n
  BY <1>1
<1>4. QED
  BY <1>2, <1>3

LEMMA PrefixInduction ==
  ASSUME NEW n \in Nat, NEW T, 0 \in T, \A k \in 1..n : k - 1 \in T => k \in T
  PROVE  0..n \subseteq T
<1> DEFINE Reached == {k \in Nat : k <= n => k \in T}
<1>1. 0 \in Reached
  OBVIOUS
<1>2. ASSUME NEW k \in Nat, k \in Reached PROVE k + 1 \in Reached
  <2>1. SUFFICES ASSUME k + 1 <= n PROVE k + 1 \in T
    OBVIOUS
  <2>2. k \in T /\ k + 1 \in 1..n /\ (k + 1) - 1 = k
    BY <1>2, <2>1
  <2>3. QED
    BY <2>2
<1>3. Nat \subseteq Reached
  <2> HIDE DEF Reached
  <2>1. QED
    BY <1>1, <1>2, NaturalInduction
<1>4. QED
  BY <1>3

LEMMA ElementsOfAppend ==
  ASSUME NEW X, NEW s \in Seq(X), NEW x \in X
  PROVE  Append(s, x) \in Seq(X) /\ ToSet(Append(s, x)) = ToSet(s) \union {x}
<1> DEFINE t == Append(s, x)
<1>1. /\ t \in Seq(X) /\ DOMAIN t = 1..(Len(s) + 1) /\ DOMAIN s = 1..Len(s)
      /\ t[Len(s) + 1] = x
      /\ \A i \in 1..Len(s) : t[i] = s[i]
  OBVIOUS
<1>2. Len(s) \in Nat
  OBVIOUS
<1> HIDE DEF t
<1>3. \A i \in DOMAIN t : t[i] \in ToSet(s) \union {x}
  <2>1. \A i \in DOMAIN t : i \in 1..Len(s) \/ i = Len(s) + 1
    BY <1>1, <1>2
  <2>2. QED
    BY <1>1, <2>1 DEF ToSet
<1>4. \A i \in DOMAIN s : i \in DOMAIN t /\ t[i] = s[i]
  BY <1>1, <1>2
<1>5. Len(s) + 1 \in DOMAIN t
  BY <1>1, <1>2
<1>6. ToSet(t) = ToSet(s) \union {x}
  BY <1>1, <1>3, <1>4, <1>5 DEF ToSet
<1>7. QED
  BY <1>1, <1>6 DEF t

----------------------------------------------------------------------------
(* The provider's own labels.                                              *)

LEMMA AddKeeps ==
  ASSUME NEW X, NEW s \in Seq(X), NEW x \in X
  PROVE  /\ Add(s, x) \in Seq(X)
         /\ ToSet(Add(s, x)) = ToSet(s) \union {x}
         /\ IsInjective(s) => IsInjective(Add(s, x))
<1>1. CASE Contains(s, x)
  BY <1>1 DEF Add, Contains, ToSet
<1>2. CASE ~Contains(s, x)
  <2> DEFINE t == Append(s, x)
  <2>1. Add(s, x) = t
    BY <1>2 DEF Add
  <2>2. /\ t \in Seq(X) /\ DOMAIN t = 1..(Len(s) + 1) /\ DOMAIN s = 1..Len(s)
        /\ t[Len(s) + 1] = x
        /\ \A i \in 1..Len(s) : t[i] = s[i]
    OBVIOUS
  <2>3. \A i \in 1..Len(s) : s[i] # x
    BY <1>2 DEF Contains
  <2>0. Len(s) \in Nat
    OBVIOUS
  <2> HIDE DEF t
  <2>4. ToSet(t) = ToSet(s) \union {x}
    <3>1. \A i \in DOMAIN t : t[i] \in ToSet(s) \union {x}
      <4>1. \A i \in DOMAIN t : i \in 1..Len(s) \/ i = Len(s) + 1
        BY <2>0, <2>2
      <4>2. QED
        BY <2>2, <4>1 DEF ToSet
    <3>2. \A i \in DOMAIN s : i \in DOMAIN t /\ t[i] = s[i]
      BY <2>0, <2>2
    <3>3. Len(s) + 1 \in DOMAIN t
      BY <2>0, <2>2
    <3>4. QED
      BY <2>2, <3>1, <3>2, <3>3 DEF ToSet
  <2>5. ASSUME IsInjective(s) PROVE IsInjective(t)
    <3>1. SUFFICES ASSUME NEW i \in DOMAIN t, NEW j \in DOMAIN t, t[i] = t[j]
                   PROVE  i = j
      BY DEF IsInjective
    <3>2. (i \in 1..Len(s) \/ i = Len(s) + 1) /\ (j \in 1..Len(s) \/ j = Len(s) + 1)
      BY <2>0, <2>2
    <3>3. QED
      BY <2>2, <2>3, <2>5, <3>1, <3>2 DEF IsInjective
  <2>6. QED
    BY <2>1, <2>2, <2>4, <2>5
<1>3. QED
  BY <1>1, <1>2

LEMMA AddedOneByOne ==
  ASSUME NEW X, NEW s \in Seq(X)
  PROVE  \E h : /\ h[0] = <<>>
                /\ \A i \in 1..Len(s) : h[i] = Add(h[i - 1], s[i])
                /\ h[Len(s)] = FoldLeft(Add, <<>>, s)
<1> DEFINE n == Len(s)
           A == Seq(X)
           Base == <<>>
           Step == [p \in A \X (1..n) |-> Add(p[1], s[p[2]])]
           Equation(g) == g = [S \in SUBSET (1..n) |->
                                 IF S = {} THEN Base
                                 ELSE Add(g[S \ {Max(S)}], s[Max(S)])]
           it == CHOOSE g : Equation(g)
           h == [i \in 0..n |-> it[1..i]]
<1>1. n \in Nat /\ DOMAIN s = 1..n /\ Base \in A
  OBVIOUS
<1>2. FoldLeft(Add, <<>>, s) = it[1..n]
  BY <1>1, Zenon DEF FoldLeft, MapThenFoldSet
<1>3. Step \in [A \X (1..n) -> A]
  <2>1. \A p \in A \X (1..n) : p[1] \in Seq(X) /\ s[p[2]] \in X
    OBVIOUS
  <2>2. QED
    BY <2>1, AddKeeps
<1>4. \E g : Equation(g)
  <2>1. \E g \in [SUBSET (1..n) -> A] : Solves(g, Base, n, Step)
    <3> HIDE DEF Base, Step, A, n
    <3>1. QED
      BY <1>1, <1>3, RecursionOnIndices
  <2>2. PICK g \in [SUBSET (1..n) -> A] :
           \A S \in SUBSET (1..n) :
              g[S] = IF S = {} THEN Base
                     ELSE Step[<<g[S \ {Max(S)}], Max(S)>>]
    BY <2>1 DEF Solves
  <2>3. \A S \in SUBSET (1..n) : S # {} =>
           Step[<<g[S \ {Max(S)}], Max(S)>>]
             = Add(g[S \ {Max(S)}], s[Max(S)])
    <3>1. \A S \in SUBSET (1..n) : S # {} =>
             <<g[S \ {Max(S)}], Max(S)>> \in A \X (1..n)
      <4>1. \A S \in SUBSET (1..n) : S # {} => Max(S) \in 1..n
        BY <1>1, LargestIndex
      <4>2. \A S \in SUBSET (1..n) : S \ {Max(S)} \in SUBSET (1..n)
        OBVIOUS
      <4> HIDE DEF A, n
      <4>3. QED
        BY <4>1, <4>2
    <3>2. QED
      BY <3>1
  <2> HIDE DEF Step, A, n, Base
  <2>4. Equation(g)
    BY <2>2, <2>3
  <2>5. QED
    BY <2>4
<1>5. Equation(it)
  <2> HIDE DEF Equation
  <2>1. QED
    BY <1>4
<1> HIDE DEF it, Step, A, n, Base
<1>6. it[{}] = Base /\ 1..0 = {}
  BY <1>5
<1>7. ASSUME NEW i \in 1..n PROVE h[i] = Add(h[i - 1], s[i])
  <2>1. Max(1..i) = i /\ (1..i) \ {i} = 1..(i - 1)
    BY <1>1, LastIndex
  <2>2. /\ 1..i \in SUBSET (1..n) /\ 1..i # {}
        /\ i \in 0..n /\ i - 1 \in 0..n
    BY <1>1, PrefixOfIndices
  <2>3. it[1..i] = Add(it[1..(i - 1)], s[i])
    BY <1>5, <2>1, <2>2
  <2>4. QED
    BY <2>2, <2>3
<1>8. h[0] = Base /\ h[n] = it[1..n]
  BY <1>1, <1>6
<1> HIDE DEF h
<1>9. QED
  BY <1>2, <1>7, <1>8 DEF n, Base

LEMMA UniqueKeeps ==
  ASSUME NEW X, NEW s \in Seq(X), NEW t \in Seq(X)
  PROVE  /\ Unique(s, t) \in Seq(X)
         /\ ToSet(Unique(s, t)) = ToSet(s) \union ToSet(t)
         /\ IsInjective(Unique(s, t))
<1> DEFINE u == s \o t
           n == Len(u)
           Seen(i) == {u[j] : j \in 1..i}
<1>1. Unique(s, t) = FoldLeft(Add, <<>>, u)
  BY DEF Unique
<1>2. u \in Seq(X) /\ n \in Nat /\ DOMAIN u = 1..n
  OBVIOUS
<1>a. ToSet(s) \union ToSet(t) = Seen(n)
  <2>1. \A i \in DOMAIN s : i \in 1..n /\ u[i] = s[i]
    OBVIOUS
  <2>2. \A i \in DOMAIN t : i + Len(s) \in 1..n /\ u[i + Len(s)] = t[i]
    OBVIOUS
  <2>3. \A i \in 1..n : \/ i \in DOMAIN s
                        \/ i - Len(s) \in DOMAIN t /\ u[i] = t[i - Len(s)]
    OBVIOUS
  <2> HIDE DEF u, n
  <2>4. \A x \in Seen(n) : x \in ToSet(s) \union ToSet(t)
    <3>1. SUFFICES ASSUME NEW i \in 1..n
                   PROVE  u[i] \in ToSet(s) \union ToSet(t)
      BY DEF Seen
    <3>2. CASE i \in DOMAIN s
      <4>1. u[i] = s[i]
        BY <2>1, <3>2
      <4>2. QED
        BY <3>2, <4>1 DEF ToSet
    <3>3. CASE i \notin DOMAIN s
      BY <2>3, <3>3 DEF ToSet
    <3>4. QED
      BY <3>2, <3>3
  <2>5. \A x \in ToSet(s) \union ToSet(t) : x \in Seen(n)
    BY <2>1, <2>2 DEF ToSet
  <2> HIDE DEF Seen
  <2>6. QED
    BY <2>4, <2>5
<1> HIDE DEF u
<1>3. PICK h : /\ h[0] = <<>>
               /\ \A i \in 1..n : h[i] = Add(h[i - 1], u[i])
               /\ h[n] = FoldLeft(Add, <<>>, u)
  BY <1>2, AddedOneByOne
<1> DEFINE Good(i) == /\ h[i] \in Seq(X)
                      /\ ToSet(h[i]) = Seen(i)
                      /\ IsInjective(h[i])
           T == {i \in 0..n : Good(i)}
<1>4. 0 \in T
  <2>1. h[0] \in Seq(X) /\ DOMAIN h[0] = {} /\ 1..0 = {} /\ 0 \in 0..n
    BY <1>2, <1>3
  <2>2. ToSet(h[0]) = {} /\ Seen(0) = {}
    BY <2>1 DEF ToSet
  <2>3. IsInjective(h[0])
    BY <2>1 DEF IsInjective
  <2>4. QED
    BY <2>1, <2>2, <2>3
<1>5. ASSUME NEW i \in 1..n, i - 1 \in T PROVE i \in T
  <2>1. Good(i - 1) /\ u[i] \in X
    BY <1>2, <1>5
  <2>2. /\ h[i] \in Seq(X)
        /\ ToSet(h[i]) = ToSet(h[i - 1]) \union {u[i]}
        /\ IsInjective(h[i])
    <3>1. h[i] = Add(h[i - 1], u[i])
      BY <1>3
    <3>2. /\ Add(h[i - 1], u[i]) \in Seq(X)
          /\ ToSet(Add(h[i - 1], u[i])) = ToSet(h[i - 1]) \union {u[i]}
          /\ IsInjective(Add(h[i - 1], u[i]))
      <4> HIDE DEF Seen
      <4>1. QED
        BY <2>1, AddKeeps
    <3>3. QED
      BY <3>1, <3>2
  <2>3. Seen(i) = Seen(i - 1) \union {u[i]}
    <3>1. 1..i = 1..(i - 1) \union {i}
      BY <1>2
    <3>2. QED
      BY <3>1
  <2>4. ToSet(h[i]) = Seen(i) /\ i \in 0..n
    <3>1. ToSet(h[i - 1]) = Seen(i - 1)
      BY <2>1
    <3> HIDE DEF Seen
    <3>2. QED
      BY <1>2, <2>2, <2>3, <3>1
  <2> HIDE DEF Seen
  <2>5. QED
    BY <2>2, <2>4
<1> HIDE DEF T
<1>6. n \in T
  <2>1. 0..n \subseteq T
    BY <1>2, <1>4, <1>5, PrefixInduction
  <2>2. QED
    BY <1>2, <2>1
<1>7. QED
  BY <1>1, <1>3, <1>6, <1>a DEF T

LEMMA UpToAreSequences ==
  ASSUME NEW n \in Nat
  PROVE  \A s : s \in UpTo(n) <=> s \in Seq(Labels) /\ Len(s) <= n
<1>1. ASSUME NEW s, s \in UpTo(n)
      PROVE  s \in Seq(Labels) /\ Len(s) <= n
  <2>1. PICK i \in 0..n : s \in [1..i -> Labels]
    BY <1>1 DEF UpTo
  <2>2. i \in Nat /\ i <= n
    BY <2>1
  <2>3. QED
    BY <2>1, <2>2
<1>2. ASSUME NEW s \in Seq(Labels), Len(s) <= n
      PROVE  s \in UpTo(n)
  <2>1. Len(s) \in 0..n /\ s \in [1..Len(s) -> Labels]
    BY <1>2
  <2>2. QED
    BY <2>1 DEF UpTo
<1>3. QED
  BY <1>1, <1>2

LEMMA DistinctAreShort ==
  ASSUME IsFiniteSet(Labels)
  PROVE  \A s : s \in Distinct <=> s \in Seq(Labels) /\ IsInjective(s)
<1>1. Cardinality(Labels) \in Nat
  BY FS_CardinalityType
<1>3. ASSUME NEW s \in Seq(Labels), IsInjective(s)
      PROVE  Len(s) <= Cardinality(Labels)
  <2>1. Len(s) \in Nat /\ DOMAIN s = 1..Len(s) /\ s \in [1..Len(s) -> Labels]
    OBVIOUS
  <2>2. s \in Injection(1..Len(s), Labels)
    BY <1>3, <2>1 DEF Injection
  <2>3. Cardinality(1..Len(s)) <= Cardinality(Labels)
    BY <2>2, FS_Injection
  <2>4. Cardinality(1..Len(s)) = Len(s)
    BY <2>1, FS_Interval
  <2>5. QED
    BY <2>3, <2>4
<1>4. QED
  BY <1>1, <1>3, UpToAreSequences DEF Distinct

LEMMA LabelsAreDistinct ==
  ASSUME IsFiniteSet(Labels), NEW s \in Seq(Labels), NEW t \in Seq(Labels)
  PROVE  Unique(s, t) \in Distinct
  BY UniqueKeeps, DistinctAreShort

LEMMA NoLabels ==
  /\ <<>> \in Seq(Labels)
  /\ <<>> \in Distinct
  /\ <<>> \in UpTo(MaxDefaults + 1)
  /\ Idle \in Operations
<1>1. IsFiniteSet(Labels) /\ MaxDefaults \in Nat
  BY DefaultLabelsAssumption
<1>2. <<>> \in Seq(Labels) /\ Len(<<>>) = 0 /\ DOMAIN <<>> = {}
  OBVIOUS
<1>3. IsInjective(<<>>)
  BY <1>2 DEF IsInjective
<1>4. <<>> \in Distinct
  BY <1>1, <1>2, <1>3, DistinctAreShort
<1>5. <<>> \in UpTo(MaxDefaults + 1)
  <2>1. MaxDefaults + 1 \in Nat /\ 0 <= MaxDefaults + 1
    BY <1>1
  <2>2. QED
    BY <1>2, <2>1, UpToAreSequences
<1>6. QED
  BY <1>2, <1>4, <1>5 DEF Idle, Operations

LEMMA LabelsOfBlocks ==
  ASSUME DefaultsTypeOK
  PROVE  /\ IsFiniteSet(Labels)
         /\ named \in Seq(Labels)
         /\ stored # Absent => stored \in Seq(Labels)
         /\ carried # Absent => carried \in Seq(Labels)
         /\ kind \notin Listed => named \in Distinct
         /\ \A v \in LabelBlocks : v \in Seq(Labels)
         /\ Configured \in Seq(Labels)
         /\ LoadProviderTags \in Seq(Labels)
         /\ LoadProviderTags \in UpTo(MaxDefaults + 1)
<1>1. IsFiniteSet(Labels) /\ MaxLength \in Nat /\ MaxDefaults \in Nat
  BY DefaultLabelsAssumption
<1>2. \A v \in LabelBlocks :
         v \in Seq(Labels) /\ (kind \notin Listed => v \in Distinct)
  BY <1>1, UpToAreSequences DEF LabelBlocks, Lists
<1>3. \A v \in Distinct : v \in Seq(Labels)
  BY <1>1, DistinctAreShort
<1>4. /\ provider.listed \in Seq(Labels) /\ Len(provider.listed) <= MaxDefaults
      /\ provider.branch # Absent => provider.branch \in Labels
  BY <1>1, UpToAreSequences DEF DefaultsTypeOK, Settings
<1>5. /\ Configured \in Seq(Labels)
      /\ Len(Configured) <= MaxDefaults + 1
  <2>1. CASE provider.branch # Absent /\ kind \notin Teams
    <3>1. Configured = Append(provider.listed, provider.branch)
      BY <2>1 DEF Configured
    <3>2. QED
      BY <1>1, <1>4, <2>1, <3>1
  <2>2. CASE ~(provider.branch # Absent /\ kind \notin Teams)
    <3>1. Configured = provider.listed
      BY <2>2 DEF Configured
    <3>2. QED
      BY <1>1, <1>4, <3>1
  <2>3. QED
    BY <2>1, <2>2
<1>6. /\ LoadProviderTags \in Seq(Labels)
      /\ Len(LoadProviderTags) <= MaxDefaults + 1
  BY <1>1, <1>5 DEF LoadProviderTags
<1>7. LoadProviderTags \in UpTo(MaxDefaults + 1)
  BY <1>1, <1>6, UpToAreSequences
<1>8. QED
  BY <1>1, <1>2, <1>3, <1>5, <1>6, <1>7 DEF DefaultsTypeOK

LEMMA SentLabelsDistinct ==
  ASSUME DefaultsTypeOK
  PROVE  ToCreate \in Distinct /\ ToUpdate \in Distinct
<1> USE LabelsOfBlocks, LabelsAreDistinct
<1>1. kind \in Teams => kind \notin Listed
  BY DEF Teams, Listed
<1>2. /\ Unique(LoadProviderTags, named) \in Distinct
      /\ kind \in Teams => MergeProviderTeams \in Distinct
  BY <1>1 DEF MergeProviderTeams
<1>3. TimeChartWrite \in Distinct
  BY NoLabels DEF TimeChartWrite, TimeChartPayload
<1>4. kind = "group teams" => kind \in Teams
  BY DEF Teams
<1>5. /\ DetectorCreate \in Distinct
      /\ DetectorUpdate \in Distinct
      /\ DashboardWrite \in Distinct
      /\ ChartCreate \in Distinct
      /\ ChartUpdate \in Distinct
      /\ kind = "group teams" => GroupWrite \in Distinct
  BY <1>1, <1>2, <1>4 DEF DetectorCreate, DetectorUpdate,
     DashboardWrite, ChartCreate, ChartUpdate,
     GroupWrite
<1>6. kind \in Kinds
  BY DEF DefaultsTypeOK
<1>7. CASE kind \in {"detector tags", "detector teams"}
  BY <1>5, <1>7 DEF ToCreate, ToUpdate
<1>8. CASE kind = "dashboard tags"
  BY <1>5, <1>8 DEF ToCreate, ToUpdate
<1>9. CASE kind = "chart tags"
  BY <1>5, <1>9 DEF ToCreate, ToUpdate
<1>10. CASE kind = "time chart tags"
  BY <1>3, <1>10 DEF ToCreate, ToUpdate
<1>11. CASE kind = "group teams"
  BY <1>5, <1>11 DEF ToCreate, ToUpdate
<1>12. QED
  BY <1>6, <1>7, <1>8, <1>9, <1>10, <1>11 DEF Kinds

LEMMA LabelsInitTyped ==
  ASSUME DefaultsInit
  PROVE  DefaultsTypeOK
<1>1. IsFiniteSet(Labels) /\ MaxDefaults \in Nat /\ MaxFaults \in Nat
  BY DefaultLabelsAssumption
<1>2. MaxFaults \in 0..MaxFaults
  BY <1>1
<1>3. QED
  BY <1>2, NoLabels DEF DefaultsInit, DefaultsTypeOK

LEMMA LabelsStepTyped ==
  ASSUME DefaultsTypeOK,
         [DefaultsNext]_defaultsVars
  PROVE  DefaultsTypeOK'
<1> USE DEF DefaultsTypeOK, LabelBlocks
<1>0. MaxFaults \in Nat
  BY DefaultLabelsAssumption
<1>1. \A v \in LabelBlocks : EditLabels(v) => DefaultsTypeOK'
  BY <1>0 DEF EditLabels, Disturbs
<1>2. \A v \in Distinct : OthersRelabel(v) => DefaultsTypeOK'
  BY <1>0 DEF OthersRelabel, Disturbs
<1>3. \A s \in Settings : EditProvider(s) => DefaultsTypeOK'
  BY <1>0 DEF EditProvider, Disturbs
<1>4. RefreshLabels => DefaultsTypeOK'
  BY DEF RefreshLabels, Recorded
<1>5. StartCreate => DefaultsTypeOK'
  BY SentLabelsDistinct
     DEF StartCreate, Start, Operations
<1>6. StartUpdate => DefaultsTypeOK'
  BY SentLabelsDistinct
     DEF StartUpdate, Start, Operations
<1>7. ServerApplies => DefaultsTypeOK'
  BY LabelsOfBlocks DEF ServerApplies, Operations
<1>8. ReplyReturns => DefaultsTypeOK'
  <2>1. SUFFICES ASSUME ReplyReturns PROVE DefaultsTypeOK'
    OBVIOUS
  <2>2. op.labels \in Distinct
    BY DEF Operations
  <2>3. Idle \in Operations
    BY NoLabels
  <2>4. stored' = Absent \/ stored' \in LabelBlocks \union Distinct
    BY <2>1, <2>2 DEF ReplyReturns, Recorded
  <2>5. QED
    BY <2>1, <2>3, <2>4 DEF ReplyReturns
<1>a. Idle \in Operations
  BY NoLabels
<1>9. CallFails => DefaultsTypeOK'
  BY <1>0, <1>a DEF CallFails, Disturbs, Operations
<1>10. Interrupt => DefaultsTypeOK'
  BY <1>0, <1>a DEF Interrupt, Disturbs, Operations
<1>11. UNCHANGED defaultsVars => DefaultsTypeOK'
  BY DEF defaultsVars
<1>12. QED
  BY <1>1, <1>2, <1>3, <1>4, <1>5, <1>6, <1>7, <1>8, <1>9, <1>10, <1>11
     DEF DefaultsNext

(* The operation under way is one of Terraform's, and only what has no     *)
(* entry is created.                                                       *)
OperationsKnown ==
    /\ op # Idle => /\ op.kind \in {"create", "update"}
                            /\ op.phase \in {"request", "reply"}
    /\ op.kind = "create" => stored = Absent

(* What a chart or dashboard is sent, and what the provider remembers of   *)
(* it until the reply is there.                                            *)
SentFromBlock ==
    /\ op.phase = "reply" => written = LoadProviderTags
    /\ op.phase \in {"request", "reply"} /\ kind \notin ReadBack
           => op.labels = Unique(LoadProviderTags, named)

(* UnreadKeepsLastWrite with the entry in the place of the block: an edit  *)
(* of the block must not disturb it.                                       *)
EntryTellsWrite ==
    op = Idle /\ stored # Absent /\ ~unnoticed
        /\ kind \notin ReadBack
    => ToSet(carried) = ToSet(written) \union ToSet(stored)

LabelsInvariant ==
    /\ DefaultsTypeOK
    /\ OperationsKnown
    /\ SentFromBlock
    /\ EntryTellsWrite

LEMMA LabelsInit ==
  ASSUME DefaultsInit
  PROVE  LabelsInvariant
<1>1. DefaultsTypeOK
  BY LabelsInitTyped
<1>2. QED
  BY <1>1 DEF LabelsInvariant, DefaultsInit, Idle, OperationsKnown,
     SentFromBlock, EntryTellsWrite

LEMMA UnreadSends ==
  ASSUME DefaultsTypeOK, kind \notin ReadBack
  PROVE  /\ ToCreate = Unique(LoadProviderTags, named)
         /\ ToUpdate = Unique(LoadProviderTags, named)
<1>1. CASE kind = "dashboard tags"
  BY <1>1 DEF ToCreate, ToUpdate, DashboardWrite
<1>2. CASE kind = "chart tags"
  BY <1>2 DEF ToCreate, ToUpdate, ChartCreate,
     ChartUpdate
<1>3. QED
  BY <1>1, <1>2 DEF DefaultsTypeOK, Kinds, ReadBack

LEMMA LabelsStep ==
  ASSUME LabelsInvariant, [DefaultsNext]_defaultsVars
  PROVE  LabelsInvariant'
<1> DEFINE Rest == OperationsKnown /\ SentFromBlock /\ EntryTellsWrite
<1> USE DEF LabelsInvariant
<1>a. DefaultsTypeOK'
  BY LabelsStepTyped
<1>c. LoadProviderTags' = LoadProviderTags
        \/ provider' # provider \/ kind' # kind
  BY DEF LoadProviderTags, Configured
<1>d. op.phase = "none" \/ op # Idle
  BY DEF Idle
<1>1. ASSUME NEW v \in LabelBlocks, EditLabels(v) PROVE Rest'
  BY <1>1, <1>c, <1>d DEF EditLabels, OperationsKnown, SentFromBlock,
     EntryTellsWrite, Idle
<1>2. ASSUME NEW v \in Distinct, OthersRelabel(v) PROVE Rest'
  BY <1>2, <1>c DEF OthersRelabel, OperationsKnown, SentFromBlock,
     EntryTellsWrite
<1>3. ASSUME NEW s \in Settings, EditProvider(s) PROVE Rest'
  BY <1>3 DEF EditProvider, OperationsKnown, SentFromBlock,
     EntryTellsWrite, Idle
<1>4. ASSUME RefreshLabels PROVE Rest'
  <2>1. kind \notin ReadBack => stored' = stored
    BY <1>4 DEF RefreshLabels, Recorded
  <2>2. QED
    BY <1>4, <1>c, <2>1 DEF RefreshLabels, OperationsKnown, SentFromBlock,
       EntryTellsWrite, Idle
<1>5. ASSUME StartCreate PROVE Rest'
  BY <1>5, <1>c, UnreadSends DEF StartCreate, Start,
     OperationsKnown, SentFromBlock, EntryTellsWrite, Idle
<1>6. ASSUME StartUpdate PROVE Rest'
  BY <1>6, <1>c, UnreadSends DEF StartUpdate, Start,
     Differs, OperationsKnown, SentFromBlock, EntryTellsWrite,
     Idle
<1>7. ASSUME ServerApplies PROVE Rest'
  BY <1>7, <1>c DEF ServerApplies, OperationsKnown, SentFromBlock,
     EntryTellsWrite, Idle, DefaultsTypeOK, Operations
<1>8. ASSUME ReplyReturns PROVE Rest'
  <2>1. OperationsKnown' /\ SentFromBlock'
    BY <1>8 DEF ReplyReturns, OperationsKnown, SentFromBlock,
       Idle
  <2>2. ASSUME ~unnoticed', kind \notin ReadBack
        PROVE  ToSet(carried) = ToSet(written) \union ToSet(stored')
    <3>1. /\ carried = op.labels
          /\ stored' = named
          /\ op.labels = Unique(LoadProviderTags, named)
          /\ written = LoadProviderTags
      BY <1>8, <2>2 DEF ReplyReturns, Recorded, SentFromBlock
    <3>2. named \in Seq(Labels) /\ LoadProviderTags \in Seq(Labels)
      BY LabelsOfBlocks
    <3>3. QED
      BY <3>1, <3>2, UniqueKeeps
  <2>3. EntryTellsWrite'
    BY <1>8, <2>2 DEF ReplyReturns, EntryTellsWrite
  <2>4. QED
    BY <2>1, <2>3
<1>9. ASSUME CallFails PROVE Rest'
  BY <1>9 DEF CallFails, OperationsKnown, SentFromBlock,
     EntryTellsWrite, Idle
<1>10. ASSUME Interrupt PROVE Rest'
  BY <1>10 DEF Interrupt, OperationsKnown, SentFromBlock,
     EntryTellsWrite, Idle
<1>11. ASSUME UNCHANGED defaultsVars PROVE Rest'
  BY <1>11, <1>c DEF defaultsVars, OperationsKnown, SentFromBlock,
     EntryTellsWrite
<1> HIDE DEF Rest
<1>12. Rest'
  BY <1>1, <1>2, <1>3, <1>4, <1>5, <1>6, <1>7, <1>8, <1>9, <1>10, <1>11
     DEF DefaultsNext
<1>13. QED
  BY <1>a, <1>12 DEF Rest

LEMMA LabelsImply ==
  ASSUME LabelsInvariant
  PROVE  UnreadKeepsLastWrite
<1> USE DEF LabelsInvariant
<1>1. SUFFICES ASSUME op = Idle, stored # Absent, ~Differs,
                      kind \notin ReadBack, ~unnoticed
               PROVE  ToSet(carried)
                        = ToSet(written) \union ToSet(named)
  BY DEF UnreadKeepsLastWrite
<1>2. ToSet(carried) = ToSet(written) \union ToSet(stored)
  BY <1>1 DEF EntryTellsWrite
<1>3. ToSet(named) = ToSet(stored)
  BY <1>1 DEF Differs, Same
<1>4. QED
  BY <1>2, <1>3

(* The labels of a block, an entry and an object stay what the model says  *)
(* they are, whatever the provider's own labels and the block's: what      *)
(* common.Unique makes of two lists repeats no label, and so is no longer  *)
(* than there are labels.                                                  *)
THEOREM LabelsTypeCorrect ==
  DefaultsSpec => []DefaultsTypeOK
<1>1. DefaultsInit => LabelsInvariant
  BY LabelsInit
<1>2. LabelsInvariant /\ [DefaultsNext]_defaultsVars => LabelsInvariant'
  BY LabelsStep
<1>3. LabelsInvariant => DefaultsTypeOK
  BY DEF LabelsInvariant
<1>4. QED
  BY <1>1, <1>2, <1>3, PTL DEF DefaultsSpec

(* Whatever labels there are, however many the provider and a block name   *)
(* and however often either is edited: a chart or dashboard whose plan is  *)
(* empty carries its own labels and those the provider had at the last     *)
(* write, unless a write failed or somebody edited the object since.       *)
THEOREM UnreadKeepsWritten ==
  DefaultsSpec
    => []UnreadKeepsLastWrite
<1>1. DefaultsInit => LabelsInvariant
  BY LabelsInit
<1>2. LabelsInvariant /\ [DefaultsNext]_defaultsVars => LabelsInvariant'
  BY LabelsStep
<1>3. LabelsInvariant => UnreadKeepsLastWrite
  BY LabelsImply
<1>4. QED
  BY <1>1, <1>2, <1>3, PTL DEF DefaultsSpec

----------------------------------------------------------------------------
(* Where grids put their charts.                                           *)

\* Any charts, anywhere; and any grids, not those of the bounded inputs only.
Places(X) == [chart_id : X, row : Nat, column : Nat, width : Widths,
                height : Nat \ {0}]
AnyGrids(X) == [chart_ids : Seq(X), width : Widths, height : Nat \ {0}]

\* While a grid of that height is laid out, its charts are in the rows above
\* or, with that height, to the left in the row that is being filled.
Filling(X, height) ==
    {at \in [row : Nat, column : 0..DashboardColumns, charts : Seq(Places(X))] :
        /\ WellPlaced(ToSet(at.charts))
        /\ \A p \in ToSet(at.charts) :
               \/ p.row + p.height <= at.row
               \/ /\ p.row = at.row
                  /\ p.height = height
                  /\ p.column + p.width <= at.column}

\* Between two grids, every chart is above the row in which the next begins.
Between(X) ==
    {at \in [row : Nat, column : 0..DashboardColumns, charts : Seq(Places(X))] :
        /\ WellPlaced(ToSet(at.charts))
        /\ \A p \in ToSet(at.charts) : p.row + p.height <= at.row}

LEMMA CellsApart ==
  ASSUME NEW X, NEW p \in Places(X), NEW q \in Places(X),
         \/ p.row + p.height <= q.row
         \/ p.column + p.width <= q.column
  PROVE  Cells(p) \intersect Cells(q) = {}
<1>0. /\ p.row \in Nat /\ p.column \in Nat /\ p.width \in Nat /\ p.height \in Nat
      /\ q.row \in Nat /\ q.column \in Nat /\ q.width \in Nat /\ q.height \in Nat
  BY DashboardColumnsAssumption DEF Places, Widths
<1>1. SUFFICES ASSUME NEW i \in 0..(p.height - 1), NEW j \in 0..(p.width - 1),
                      NEW k \in 0..(q.height - 1), NEW l \in 0..(q.width - 1),
                      <<p.row + i, p.column + j>> = <<q.row + k, q.column + l>>
               PROVE  FALSE
  BY DEF Cells
<1>2. p.row + i = q.row + k /\ p.column + j = q.column + l
  BY <1>1
<1>3. QED
  BY <1>0, <1>2

LEMMA NextChartFits ==
  ASSUME NEW X, NEW grid \in AnyGrids(X),
         NEW at \in Filling(X, grid.height), NEW id \in X
  PROVE  NextChart(grid, at, id) \in Filling(X, grid.height)
<1> DEFINE wraps == at.column + grid.width > DashboardColumns
           row == IF wraps THEN at.row + grid.height ELSE at.row
           column == IF wraps THEN 0 ELSE at.column
           new == Place(id, grid, row, column)
           next == [row |-> row, column |-> column + grid.width,
                    charts |-> Append(at.charts, new)]
<1>1. NextChart(grid, at, id) = next
  BY DEF NextChart
<1>2. /\ DashboardColumns \in Nat /\ grid.width \in 1..DashboardColumns
      /\ grid.height \in Nat /\ grid.height > 0
      /\ at.row \in Nat /\ at.column \in 0..DashboardColumns
      /\ at.charts \in Seq(Places(X))
  BY DashboardColumnsAssumption DEF AnyGrids, Filling, Widths
<1>3. /\ row \in Nat /\ column \in 0..DashboardColumns
      /\ column + grid.width \in 0..DashboardColumns
  BY <1>2
<1>4. /\ new \in Places(X)
      /\ new.row = row /\ new.column = column /\ new.width = grid.width
      /\ new.height = grid.height
  BY <1>2, <1>3 DEF Place, Places, Widths
<1>5. ASSUME NEW p \in ToSet(at.charts)
      PROVE  /\ p \in Places(X)
             /\ p.column + p.width <= DashboardColumns
             /\ \/ p.row + p.height <= row
                \/ /\ p.row = row
                   /\ p.height = grid.height
                   /\ p.column + p.width <= column
  <2>1. p \in Places(X)
    BY <1>2 DEF ToSet
  <2>2. p.row \in Nat /\ p.height \in Nat /\ p.column \in Nat /\ p.width \in Nat
    BY <1>2, <2>1 DEF Places, Widths
  <2>3. p.column + p.width <= DashboardColumns
    BY DEF Filling, WellPlaced
  <2>4. \/ p.row + p.height <= at.row
        \/ /\ p.row = at.row
           /\ p.height = grid.height
           /\ p.column + p.width <= at.column
    BY DEF Filling
  <2>5. QED
    BY <1>2, <2>1, <2>2, <2>3, <2>4
<1> HIDE DEF row, column, new
<1>6. /\ next.charts \in Seq(Places(X))
      /\ ToSet(next.charts) = ToSet(at.charts) \union {new}
  BY <1>2, <1>4, ElementsOfAppend
<1>7. WellPlaced(ToSet(next.charts))
  <2>1. \A p \in ToSet(at.charts) : /\ Cells(p) \intersect Cells(new) = {}
                                    /\ Cells(new) \intersect Cells(p) = {}
    BY <1>4, <1>5, CellsApart
  <2>2. \A p, q \in ToSet(at.charts) : p # q => Cells(p) \intersect Cells(q) = {}
    BY DEF Filling, WellPlaced
  <2>3. new.column + new.width <= DashboardColumns
    BY <1>2, <1>3, <1>4
  <2>4. QED
    BY <1>5, <1>6, <2>1, <2>2, <2>3 DEF WellPlaced
<1>8. \A p \in ToSet(next.charts) :
         \/ p.row + p.height <= next.row
         \/ /\ p.row = next.row
            /\ p.height = grid.height
            /\ p.column + p.width <= next.column
  <2>1. ASSUME NEW p \in ToSet(at.charts)
        PROVE  \/ p.row + p.height <= row
               \/ /\ p.row = row
                  /\ p.height = grid.height
                  /\ p.column + p.width <= column + grid.width
    <3>1. p.column \in Nat /\ p.width \in Nat
      BY <1>2, <1>5 DEF Places, Widths
    <3>2. QED
      BY <1>2, <1>3, <1>5, <3>1
  <2>2. new.row = row /\ new.height = grid.height
          /\ new.column + new.width <= column + grid.width
    BY <1>2, <1>3, <1>4
  <2>3. QED
    BY <1>6, <2>1, <2>2
<1>9. next \in [row : Nat, column : 0..DashboardColumns, charts : Seq(Places(X))]
  BY <1>3, <1>6
<1> HIDE DEF next
<1>10. QED
  BY <1>1, <1>7, <1>8, <1>9 DEF Filling

LEMMA GridFilled ==
  ASSUME NEW X, NEW grid \in AnyGrids(X),
         NEW start \in Filling(X, grid.height)
  PROVE  FoldLeft(LAMBDA a, id : NextChart(grid, a, id), start, grid.chart_ids)
           \in Filling(X, grid.height)
<1> DEFINE s == grid.chart_ids
           n == Len(s)
           A == Filling(X, grid.height)
           Step == [p \in A \X (1..n) |-> NextChart(grid, p[1], s[p[2]])]
           Equation(g) == g = [S \in SUBSET (1..n) |->
                                 IF S = {} THEN start
                                 ELSE NextChart(grid, g[S \ {Max(S)}], s[Max(S)])]
           it == CHOOSE g : Equation(g)
           T == {i \in 0..n : it[1..i] \in A}
<1>1. s \in Seq(X) /\ n \in Nat /\ DOMAIN s = 1..n
  BY DEF AnyGrids
<1>2. FoldLeft(LAMBDA a, id : NextChart(grid, a, id), start, s) = it[1..n]
  BY <1>1, Zenon DEF FoldLeft, MapThenFoldSet
<1> HIDE DEF s, A
<1>3. \A a \in A, i \in 1..n : NextChart(grid, a, s[i]) \in A
  BY <1>1, NextChartFits DEF A
<1>4. \E g : Equation(g)
  <2>1. Step \in [A \X (1..n) -> A]
    BY <1>3
  <2>2. \E g \in [SUBSET (1..n) -> A] : Solves(g, start, n, Step)
    <3>1. start \in A
      BY DEF A
    <3> HIDE DEF Step, n
    <3>2. QED
      BY <1>1, <2>1, <3>1, RecursionOnIndices
  <2>3. PICK g \in [SUBSET (1..n) -> A] : Solves(g, start, n, Step)
    BY <2>2
  <2>4. \A S \in SUBSET (1..n) : S # {} =>
           Step[<<g[S \ {Max(S)}], Max(S)>>]
             = NextChart(grid, g[S \ {Max(S)}], s[Max(S)])
    <3>1. \A S \in SUBSET (1..n) : S # {} =>
             <<g[S \ {Max(S)}], Max(S)>> \in A \X (1..n)
      <4>1. \A S \in SUBSET (1..n) : S # {} => Max(S) \in 1..n
        BY <1>1, LargestIndex
      <4>2. \A S \in SUBSET (1..n) : S \ {Max(S)} \in SUBSET (1..n)
        OBVIOUS
      <4> HIDE DEF n
      <4>3. QED
        BY <4>1, <4>2
    <3>2. QED
      BY <3>1
  <2> HIDE DEF Step, n
  <2>5. Equation(g)
    BY <2>3, <2>4 DEF Solves
  <2>6. QED
    BY <2>5
<1>5. Equation(it)
  <2> HIDE DEF Equation
  <2>1. QED
    BY <1>4
<1> HIDE DEF it, n
<1>6. 0 \in T
  <2>1. it[{}] = start /\ 1..0 = {}
    BY <1>5
  <2>2. QED
    BY <1>1, <2>1 DEF A
<1>7. ASSUME NEW i \in 1..n, i - 1 \in T PROVE i \in T
  <2>1. Max(1..i) = i /\ (1..i) \ {i} = 1..(i - 1)
    BY <1>1, LastIndex
  <2>2. 1..i \in SUBSET (1..n) /\ 1..i # {} /\ i \in 0..n
    BY <1>1, PrefixOfIndices
  <2>3. it[1..i] = NextChart(grid, it[1..(i - 1)], s[i])
    BY <1>5, <2>1, <2>2
  <2>4. QED
    BY <1>3, <1>7, <2>2, <2>3
<1>8. n \in T
  <2> HIDE DEF T
  <2>1. 0..n \subseteq T
    BY <1>1, <1>6, <1>7, PrefixInduction
  <2>2. QED
    BY <1>1, <2>1
<1>9. QED
  BY <1>2, <1>8 DEF A, s

LEMMA NextGridFits ==
  ASSUME NEW X, NEW grid \in AnyGrids(X), NEW at \in Between(X)
  PROVE  NextGrid(at, grid) \in Between(X)
<1> DEFINE start == [at EXCEPT !.column = 0]
           laid == FoldLeft(LAMBDA a, id : NextChart(grid, a, id), start,
                            grid.chart_ids)
           next == [laid EXCEPT !.row = @ + grid.height]
<1>1. NextGrid(at, grid) = next
  BY DEF NextGrid
<1>2. start \in Filling(X, grid.height)
  BY DashboardColumnsAssumption DEF Between, Filling
<1>3. laid \in Filling(X, grid.height)
  BY <1>2, GridFilled
<1> HIDE DEF laid
<1>4. grid.height \in Nat /\ laid.row \in Nat
  BY <1>3 DEF Filling, AnyGrids
<1>5. /\ next \in [row : Nat, column : 0..DashboardColumns, charts : Seq(Places(X))]
      /\ next.charts = laid.charts
      /\ next.row = laid.row + grid.height
  BY <1>3, <1>4 DEF Filling
<1>6. ASSUME NEW p \in ToSet(laid.charts)
      PROVE  p.row + p.height <= next.row
  <2>1. p \in Places(X)
    BY <1>3 DEF Filling, ToSet
  <2>2. p.row \in Nat /\ p.height \in Nat
    BY <2>1 DEF Places
  <2>3. p.row + p.height <= laid.row \/ (p.row = laid.row /\ p.height = grid.height)
    BY <1>3 DEF Filling
  <2>4. QED
    BY <1>4, <1>5, <2>2, <2>3
<1>7. WellPlaced(ToSet(next.charts))
  BY <1>3, <1>5 DEF Filling
<1> HIDE DEF next
<1>8. QED
  BY <1>1, <1>5, <1>6, <1>7 DEF Between

LEMMA GridsFilled ==
  ASSUME NEW X, NEW s \in Seq(AnyGrids(X)), NEW start \in Between(X)
  PROVE  FoldLeft(NextGrid, start, s) \in Between(X)
<1> DEFINE n == Len(s)
           A == Between(X)
           Step == [p \in A \X (1..n) |-> NextGrid(p[1], s[p[2]])]
           Equation(g) == g = [S \in SUBSET (1..n) |->
                                 IF S = {} THEN start
                                 ELSE NextGrid(g[S \ {Max(S)}], s[Max(S)])]
           it == CHOOSE g : Equation(g)
           T == {i \in 0..n : it[1..i] \in A}
<1>1. n \in Nat /\ DOMAIN s = 1..n
  OBVIOUS
<1>2. FoldLeft(NextGrid, start, s) = it[1..n]
  BY <1>1, Zenon DEF FoldLeft, MapThenFoldSet
<1> HIDE DEF A
<1>3. \A a \in A, i \in 1..n : NextGrid(a, s[i]) \in A
  BY <1>1, NextGridFits DEF A
<1>4. \E g : Equation(g)
  <2>1. Step \in [A \X (1..n) -> A]
    BY <1>3
  <2>2. \E g \in [SUBSET (1..n) -> A] : Solves(g, start, n, Step)
    <3>1. start \in A
      BY DEF A
    <3> HIDE DEF Step, n
    <3>2. QED
      BY <1>1, <2>1, <3>1, RecursionOnIndices
  <2>3. PICK g \in [SUBSET (1..n) -> A] : Solves(g, start, n, Step)
    BY <2>2
  <2>4. \A S \in SUBSET (1..n) : S # {} =>
           Step[<<g[S \ {Max(S)}], Max(S)>>]
             = NextGrid(g[S \ {Max(S)}], s[Max(S)])
    <3>1. \A S \in SUBSET (1..n) : S # {} =>
             <<g[S \ {Max(S)}], Max(S)>> \in A \X (1..n)
      <4>1. \A S \in SUBSET (1..n) : S # {} => Max(S) \in 1..n
        BY <1>1, LargestIndex
      <4>2. \A S \in SUBSET (1..n) : S \ {Max(S)} \in SUBSET (1..n)
        OBVIOUS
      <4> HIDE DEF n
      <4>3. QED
        BY <4>1, <4>2
    <3>2. QED
      BY <3>1
  <2> HIDE DEF Step, n
  <2>5. Equation(g)
    BY <2>3, <2>4 DEF Solves
  <2>6. QED
    BY <2>5
<1>5. Equation(it)
  <2> HIDE DEF Equation
  <2>1. QED
    BY <1>4
<1> HIDE DEF it, n
<1>6. 0 \in T
  <2>1. it[{}] = start /\ 1..0 = {}
    BY <1>5
  <2>2. QED
    BY <1>1, <2>1 DEF A
<1>7. ASSUME NEW i \in 1..n, i - 1 \in T PROVE i \in T
  <2>1. Max(1..i) = i /\ (1..i) \ {i} = 1..(i - 1)
    BY <1>1, LastIndex
  <2>2. 1..i \in SUBSET (1..n) /\ 1..i # {} /\ i \in 0..n
    BY <1>1, PrefixOfIndices
  <2>3. it[1..i] = NextGrid(it[1..(i - 1)], s[i])
    BY <1>5, <2>1, <2>2
  <2>4. QED
    BY <1>3, <1>7, <2>2, <2>3
<1>8. n \in T
  <2> HIDE DEF T
  <2>1. 0..n \subseteq T
    BY <1>1, <1>6, <1>7, PrefixInduction
  <2>2. QED
    BY <1>1, <2>1
<1>9. QED
  BY <1>2, <1>8 DEF A

(* However many grids a dashboard has, of whatever widths and heights and  *)
(* with however many charts: getDashboardGrids leaves no two charts in one *)
(* cell and none beyond the last column.                                   *)
THEOREM GridsNeverOverlap ==
  ASSUME NEW X, NEW grids \in Seq(AnyGrids(X))
  PROVE  WellPlaced(ToSet(getDashboardGrids(grids)))
<1> DEFINE start == [row |-> 0, column |-> 0, charts |-> <<>>]
<1>1. start \in Between(X)
  <2>1. <<>> \in Seq(Places(X)) /\ ToSet(<<>>) = {}
    BY DEF ToSet
  <2>2. 0 \in 0..DashboardColumns
    BY DashboardColumnsAssumption
  <2>3. QED
    BY <2>1, <2>2 DEF Between, WellPlaced
<1>2. FoldLeft(NextGrid, start, grids) \in Between(X)
  BY <1>1, GridsFilled
<1>3. QED
  BY <1>2 DEF Between, getDashboardGrids

----------------------------------------------------------------------------
(* Lists: chosen from, sorted by classes, put end to end.                  *)

LEMMA SequenceInduction ==
  ASSUME NEW X, NEW T, <<>> \in T,
         \A s \in Seq(X), x \in X : s \in T => Append(s, x) \in T
  PROVE  Seq(X) \subseteq T
<1> DEFINE Reached == {n \in Nat : \A s \in Seq(X) : Len(s) = n => s \in T}
<1>1. 0 \in Reached
  <2>1. \A s \in Seq(X) : Len(s) = 0 => s = <<>>
    BY EmptySeq
  <2>2. QED
    BY <2>1
<1>2. ASSUME NEW n \in Nat, n \in Reached PROVE n + 1 \in Reached
  <2>1. SUFFICES ASSUME NEW s \in Seq(X), Len(s) = n + 1 PROVE s \in T
    BY <1>2
  <2>2. s # <<>>
    BY <1>2, <2>1
  <2>3. PICK r \in Seq(X), x \in X : s = Append(r, x)
    BY <2>2, SequenceEmptyOrAppend
  <2>4. Len(r) = n
    BY <1>2, <2>1, <2>3
  <2>5. r \in T
    BY <1>2, <2>4
  <2>6. QED
    BY <2>3, <2>5
<1>3. Nat \subseteq Reached
  <2> HIDE DEF Reached
  <2>1. QED
    BY <1>1, <1>2, NaturalInduction
<1>4. \A s \in Seq(X) : Len(s) \in Nat
  OBVIOUS
<1>5. QED
  BY <1>3, <1>4

Steps(h, base, n, step) ==
    h[0] = base /\ \A i \in 1..n : h[i] = step[<<h[i - 1], i>>]

LEMMA RecursionUpTo ==
  ASSUME NEW A, NEW base \in A, NEW n \in Nat,
         NEW step \in [A \X (1..n) -> A]
  PROVE  \E h \in [0..n -> A] : Steps(h, base, n, step)
<1>1. PICK g \in [SUBSET (1..n) -> A] : Solves(g, base, n, step)
  BY RecursionOnIndices
<1> DEFINE h == [i \in 0..n |-> g[1..i]]
<1>2. \A i \in 0..n : 1..i \in SUBSET (1..n)
  <2>1. ASSUME NEW i \in 0..n, NEW j \in 1..i PROVE j \in 1..n
    <3>1. i \in Nat /\ i <= n
      OBVIOUS
    <3>2. QED
      BY <3>1
  <2>2. QED
    BY <2>1
<1>3. h \in [0..n -> A]
  BY <1>2
<1>4. h[0] = base
  <2>1. 1..0 = {} /\ 0 \in 0..n
    OBVIOUS
  <2>2. QED
    BY <1>1, <2>1 DEF Solves
<1>5. ASSUME NEW i \in 1..n PROVE h[i] = step[<<h[i - 1], i>>]
  <2>1. /\ 1..i \in SUBSET (1..n) /\ 1..i # {}
        /\ i \in 0..n /\ i - 1 \in 0..n
    BY PrefixOfIndices
  <2>2. Max(1..i) = i /\ (1..i) \ {i} = 1..(i - 1)
    BY LastIndex
  <2>3. g[1..i] = step[<<g[1..(i - 1)], i>>]
    BY <1>1, <2>1, <2>2 DEF Solves
  <2>4. QED
    BY <2>1, <2>3
<1> HIDE DEF h
<1>6. QED
  BY <1>3, <1>4, <1>5 DEF Steps

\* A function that does what the steps say, where they say it, is theirs.
LEMMA StepsFollowed ==
  ASSUME NEW A, NEW base \in A, NEW n \in Nat,
         NEW step \in [A \X (1..n) -> A], NEW f, f[0] = base,
         \A i \in 1..n : f[i - 1] \in A => f[i] = step[<<f[i - 1], i>>]
  PROVE  Steps(f, base, n, step) /\ \A i \in 0..n : f[i] \in A
<1> DEFINE T == {k \in 0..n : f[k] \in A}
<1>1. 0 \in T
  OBVIOUS
<1>2. ASSUME NEW k \in 1..n, k - 1 \in T PROVE k \in T
  <2>1. <<f[k - 1], k>> \in A \X (1..n) /\ k \in 0..n
    BY <1>2
  <2>2. QED
    BY <1>2, <2>1
<1>3. 0..n \subseteq T
  <2> HIDE DEF T
  <2>1. QED
    BY <1>1, <1>2, PrefixInduction
<1>4. \A i \in 1..n : i - 1 \in 0..n
  OBVIOUS
<1>5. QED
  BY <1>3, <1>4 DEF Steps

\* What two such functions have in common.
LEMMA SameRecursion ==
  ASSUME NEW m \in Nat, NEW f, NEW h, f[0] = h[0],
         \A i \in 1..m : f[i - 1] = h[i - 1] => f[i] = h[i]
  PROVE  f[m] = h[m]
<1> DEFINE T == {k \in 0..m : f[k] = h[k]}
<1>1. 0 \in T
  OBVIOUS
<1>2. \A k \in 1..m : k - 1 \in T => k \in T
  <2>1. \A k \in 1..m : k \in 0..m
    OBVIOUS
  <2>2. QED
    BY <2>1
<1>3. 0..m \subseteq T
  <2> HIDE DEF T
  <2>1. QED
    BY <1>1, <1>2, PrefixInduction
<1>4. QED
  BY <1>3

Chooses(h, X, s, S) ==
    /\ h[0] = <<>>
    /\ \A i \in 1..Len(s) :
          h[i] = IF s[i] \in S THEN Append(h[i - 1], s[i]) ELSE h[i - 1]
    /\ \A i \in 0..Len(s) : h[i] \in Seq(X)
    /\ Among(s, S) = h[Len(s)]

LEMMA AmongSteps ==
  ASSUME NEW X, NEW s \in Seq(X), NEW S
  PROVE  \E h : Chooses(h, X, s, S)
<1> DEFINE n == Len(s)
           A == Seq(X)
           Step == [p \in A \X (1..n) |->
                      IF s[p[2]] \in S THEN Append(p[1], s[p[2]]) ELSE p[1]]
           Equation(f) == f = [i \in 0..n |->
                                 IF i = 0 THEN <<>>
                                 ELSE IF s[i] \in S THEN Append(f[i - 1], s[i])
                                 ELSE f[i - 1]]
           it == CHOOSE f : Equation(f)
<1>1. /\ n \in Nat /\ <<>> \in A /\ \A i \in 1..n : s[i] \in X
      /\ \A i \in 0..n : i # 0 => i \in 1..n /\ i - 1 \in 0..n
      /\ \A i \in 1..n : i \in 0..n /\ i # 0
      /\ 0 \in 0..n
  OBVIOUS
<1>2. Among(s, S) = it[n]
  BY DEF Among
<1>3. Step \in [A \X (1..n) -> A]
  <2>1. \A p \in A \X (1..n) : p[1] \in Seq(X) /\ s[p[2]] \in X
    OBVIOUS
  <2>2. QED
    BY <2>1
<1>4. \A a \in A, i \in 1..n :
         Step[<<a, i>>] = IF s[i] \in S THEN Append(a, s[i]) ELSE a
  OBVIOUS
<1> HIDE DEF Step, A, n
<1>5. \E f : Equation(f)
  <2>1. PICK h \in [0..n -> A] : Steps(h, <<>>, n, Step)
    BY <1>1, <1>3, RecursionUpTo
  <2>2. \A i \in 0..n : i # 0 =>
           h[i] = IF s[i] \in S THEN Append(h[i - 1], s[i]) ELSE h[i - 1]
    BY <1>1, <1>4, <2>1 DEF Steps
  <2>3. h = [i \in 0..n |-> h[i]] /\ h[0] = <<>>
    BY <2>1 DEF Steps
  <2>4. Equation(h)
    BY <2>2, <2>3
  <2>5. QED
    BY <2>4
<1>6. Equation(it)
  <2> HIDE DEF Equation
  <2>1. QED
    BY <1>5
<1> HIDE DEF it
<1>7. /\ it[0] = <<>>
      /\ \A i \in 1..n : it[i - 1] \in A => it[i] = Step[<<it[i - 1], i>>]
  BY <1>1, <1>4, <1>6
<1>8. Steps(it, <<>>, n, Step) /\ \A i \in 0..n : it[i] \in A
  BY <1>1, <1>3, <1>7, StepsFollowed
<1>9. Chooses(it, X, s, S)
  BY <1>1, <1>2, <1>4, <1>8 DEF Chooses, Steps, A, n
<1>10. QED
  BY <1>9

LEMMA AmongEmpty ==
  ASSUME NEW S
  PROVE  Among(<<>>, S) = <<>>
<1>1. <<>> \in Seq({}) /\ Len(<<>>) = 0
  OBVIOUS
<1>2. PICK h : Chooses(h, {}, <<>>, S)
  BY <1>1, AmongSteps
<1>3. QED
  BY <1>1, <1>2 DEF Chooses

LEMMA AmongAppend ==
  ASSUME NEW X, NEW s \in Seq(X), NEW x \in X, NEW S
  PROVE  /\ Among(s, S) \in Seq(X)
         /\ x \in S => Among(Append(s, x), S) = Append(Among(s, S), x)
         /\ x \notin S => Among(Append(s, x), S) = Among(s, S)
<1> DEFINE t == Append(s, x)
<1>1. /\ t \in Seq(X) /\ Len(t) = Len(s) + 1 /\ Len(s) \in Nat
      /\ t[Len(t)] = x
      /\ \A i \in 1..Len(s) : t[i] = s[i]
  OBVIOUS
<1> HIDE DEF t
<1>2. PICK f : Chooses(f, X, s, S)
  BY AmongSteps
<1>3. PICK h : Chooses(h, X, t, S)
  BY <1>1, AmongSteps
<1>4. f[Len(s)] = h[Len(s)]
  <2>1. \A i \in 1..Len(s) : i \in 1..Len(t)
    BY <1>1
  <2>2. \A i \in 1..Len(s) : f[i - 1] = h[i - 1] => f[i] = h[i]
    BY <1>1, <1>2, <1>3, <2>1 DEF Chooses
  <2>3. f[0] = h[0]
    BY <1>2, <1>3 DEF Chooses
  <2>4. QED
    BY <1>1, <2>2, <2>3, SameRecursion
<1>5. Len(t) \in 1..Len(t) /\ Len(t) - 1 = Len(s) /\ Len(s) \in 0..Len(s)
  BY <1>1
<1>6. h[Len(t)] = IF x \in S THEN Append(f[Len(s)], x) ELSE f[Len(s)]
  BY <1>1, <1>3, <1>4, <1>5 DEF Chooses
<1>7. QED
  BY <1>2, <1>3, <1>5, <1>6 DEF Chooses, t

\* What is chosen, and from what.
LEMMA AmongKeeps ==
  ASSUME NEW X, NEW S
  PROVE  \A s \in Seq(X) : /\ Among(s, S) \in Seq(X)
                           /\ ToSet(Among(s, S)) = ToSet(s) \intersect S
<1> DEFINE T == {s \in Seq(X) : /\ Among(s, S) \in Seq(X)
                                /\ ToSet(Among(s, S)) = ToSet(s) \intersect S}
<1>1. <<>> \in T
  <2>1. <<>> \in Seq(X) /\ ToSet(<<>>) = {}
    BY DEF ToSet
  <2>2. QED
    BY <2>1, AmongEmpty
<1>2. ASSUME NEW s \in Seq(X), NEW x \in X, s \in T PROVE Append(s, x) \in T
  <2>1. Append(s, x) \in Seq(X) /\ ToSet(Append(s, x)) = ToSet(s) \union {x}
    BY ElementsOfAppend
  <2>2. CASE x \in S
    <3>1. Among(Append(s, x), S) = Append(Among(s, S), x)
      BY <2>2, AmongAppend
    <3>2. /\ Append(Among(s, S), x) \in Seq(X)
          /\ ToSet(Append(Among(s, S), x)) = ToSet(Among(s, S)) \union {x}
      BY <1>2, ElementsOfAppend
    <3>3. QED
      BY <1>2, <2>1, <2>2, <3>1, <3>2
  <2>3. CASE x \notin S
    <3>1. Among(Append(s, x), S) = Among(s, S)
      BY <2>3, AmongAppend
    <3>2. QED
      BY <1>2, <2>1, <2>3, <3>1
  <2>4. QED
    BY <2>2, <2>3
<1>3. Seq(X) \subseteq T
  <2> HIDE DEF T
  <2>1. QED
    BY <1>1, <1>2, SequenceInduction
<1>4. QED
  BY <1>3

LEMMA AmongAll ==
  ASSUME NEW X, NEW S, X \subseteq S
  PROVE  \A s \in Seq(X) : Among(s, S) = s
<1> DEFINE T == {s \in Seq(X) : Among(s, S) = s}
<1>1. <<>> \in T
  BY AmongEmpty
<1>2. ASSUME NEW s \in Seq(X), NEW x \in X, s \in T PROVE Append(s, x) \in T
  BY <1>2, AmongAppend
<1>3. Seq(X) \subseteq T
  <2> HIDE DEF T
  <2>1. QED
    BY <1>1, <1>2, SequenceInduction
<1>4. QED
  BY <1>3

LEMMA AmongNone ==
  ASSUME NEW X, NEW S, NEW s \in Seq(X), ToSet(s) \intersect S = {}
  PROVE  Among(s, S) = <<>>
<1>1. Among(s, S) \in Seq(X) /\ ToSet(Among(s, S)) = {}
  BY AmongKeeps
<1>2. \A t \in Seq(X) : t # <<>> => 1 \in DOMAIN t
  OBVIOUS
<1>3. QED
  BY <1>1, <1>2 DEF ToSet

LEMMA AmongConcat ==
  ASSUME NEW X, NEW S, NEW s \in Seq(X)
  PROVE  \A t \in Seq(X) : Among(s \o t, S) = Among(s, S) \o Among(t, S)
<1>a. \A r \in Seq(X), x \in X :
         /\ Among(r, S) \in Seq(X)
         /\ x \in S => Among(Append(r, x), S) = Append(Among(r, S), x)
         /\ x \notin S => Among(Append(r, x), S) = Among(r, S)
  BY AmongAppend
<1> DEFINE T == {t \in Seq(X) : Among(s \o t, S) = Among(s, S) \o Among(t, S)}
<1>1. <<>> \in T
  <2>1. Among(s, S) \in Seq(X)
    BY AmongKeeps
  <2>2. /\ s \o <<>> = s /\ Among(s, S) \o <<>> = Among(s, S)
        /\ <<>> \in Seq(X)
    BY <2>1, ConcatEmptySeq
  <2>3. Among(<<>>, S) = <<>>
    BY AmongEmpty
  <2>4. QED
    BY <2>2, <2>3
<1>2. ASSUME NEW t \in Seq(X), NEW x \in X, t \in T PROVE Append(t, x) \in T
  <2>1. s \o t \in Seq(X) /\ s \o Append(t, x) = Append(s \o t, x)
    OBVIOUS
  <2>2. Among(s, S) \in Seq(X) /\ Among(t, S) \in Seq(X)
    BY AmongKeeps
  <2>3. Among(s, S) \o Append(Among(t, S), x)
           = Append(Among(s, S) \o Among(t, S), x)
    BY <2>2
  <2>6. Append(t, x) \in Seq(X)
    OBVIOUS
  <2>8. Among(s \o t, S) = Among(s, S) \o Among(t, S)
    BY <1>2
  <2>9. Among(s \o Append(t, x), S) = Among(s, S) \o Among(Append(t, x), S)
    <3>1. CASE x \in S
      <4>1. Among(Append(s \o t, x), S) = Append(Among(s \o t, S), x)
        BY <1>a, <2>1, <3>1
      <4>2. Among(Append(t, x), S) = Append(Among(t, S), x)
        BY <1>a, <3>1
      <4>3. QED
        BY <2>1, <2>3, <2>8, <4>1, <4>2
    <3>2. CASE x \notin S
      <4>1. Among(Append(s \o t, x), S) = Among(s \o t, S)
        BY <1>a, <2>1, <3>2
      <4>2. Among(Append(t, x), S) = Among(t, S)
        BY <1>a, <3>2
      <4>3. QED
        BY <2>1, <2>8, <4>1, <4>2
    <3>3. QED
      BY <3>1, <3>2
  <2>7. QED
    BY <2>6, <2>9
<1>3. Seq(X) \subseteq T
  <2> HIDE DEF T
  <2>1. QED
    BY <1>1, <1>2, SequenceInduction
<1>4. QED
  BY <1>3

LEMMA AmongOne ==
  ASSUME NEW X, NEW s \in Seq(X), NEW t \in Seq(X), NEW x,
         Len(Among(s, {x})) = Len(Among(t, {x}))
  PROVE  Among(s, {x}) = Among(t, {x})
<1> DEFINE p == Among(s, {x})
           q == Among(t, {x})
<1>1. p \in Seq(X) /\ q \in Seq(X) /\ ToSet(p) \subseteq {x} /\ ToSet(q) \subseteq {x}
  BY AmongKeeps
<1>2. Len(p) = Len(q)
  OBVIOUS
<1> HIDE DEF p, q
<1>3. \A i \in 1..Len(p) : p[i] = x /\ q[i] = x
  <2>1. DOMAIN p = 1..Len(p) /\ DOMAIN q = 1..Len(q)
    BY <1>1
  <2>2. \A i \in 1..Len(p) : p[i] \in ToSet(p) /\ q[i] \in ToSet(q)
    BY <1>2, <2>1 DEF ToSet
  <2>3. QED
    BY <1>1, <2>2
<1>4. p = q
  BY <1>1, <1>2, <1>3, SeqEqual
<1>5. QED
  BY <1>4 DEF p, q

LEMMA OneElement ==
  ASSUME NEW X, NEW t \in Seq(X), Len(t) = 1
  PROVE  t = <<t[1]>> /\ t[1] \in X
<1>1. t[1] \in X
  <2>1. 1 \in 1..Len(t)
    OBVIOUS
  <2>2. QED
    BY <2>1, ElementOfSeq
<1>2. <<t[1]>> \in Seq(X) /\ Len(<<t[1]>>) = 1 /\ <<t[1]>>[1] = t[1]
  BY <1>1
<1>3. \A i \in 1..1 : i = 1
  OBVIOUS
<1>4. QED
  BY <1>1, <1>2, <1>3, SeqEqual

LEMMA FlattenSingletons ==
  ASSUME NEW X, NEW seqs \in Seq(Seq(X)),
         \A i \in DOMAIN seqs : Len(seqs[i]) = 1
  PROVE  FlattenSeq(seqs) = [i \in DOMAIN seqs |-> seqs[i][1]]
<1> DEFINE n == Len(seqs)
           upTo == [i \in 1..n |-> [j \in 1..i |-> seqs[j][1]]]
           Equation(f) == f = [i \in 1..n |-> IF i = 1 THEN seqs[i]
                                              ELSE f[i - 1] \o seqs[i]]
           it == CHOOSE f : Equation(f)
<1>1. /\ n \in Nat /\ DOMAIN seqs = 1..n
      /\ \A i \in 1..n : seqs[i] = <<seqs[i][1]>> /\ seqs[i][1] \in X
  <2>1. \A t \in Seq(X) : Len(t) = 1 => t = <<t[1]>> /\ t[1] \in X
    BY OneElement
  <2>2. \A i \in 1..n : seqs[i] \in Seq(X) /\ Len(seqs[i]) = 1
    OBVIOUS
  <2>3. n \in Nat /\ DOMAIN seqs = 1..n
    OBVIOUS
  <2>4. QED
    BY <2>1, <2>2, <2>3
<1>2. CASE n = 0
  <2>1. FlattenSeq(seqs) = seqs /\ seqs = <<>>
    BY <1>2 DEF FlattenSeq
  <2>2. [i \in DOMAIN seqs |-> seqs[i][1]] = <<>>
    BY <2>1
  <2>3. QED
    BY <2>1, <2>2
<1>3. CASE n # 0
  <2>1. FlattenSeq(seqs) = it[n]
    BY <1>1, <1>3 DEF FlattenSeq
  <2> HIDE DEF n
  <2>2. \A i \in 1..n : i # 1 => upTo[i] = upTo[i - 1] \o seqs[i]
    <3>1. SUFFICES ASSUME NEW i \in 1..n, i # 1
                   PROVE  upTo[i] = upTo[i - 1] \o seqs[i]
      OBVIOUS
    <3>2. i - 1 \in 1..n /\ i - 1 \in Nat /\ i = (i - 1) + 1
      BY <1>1, <3>1
    <3>3. /\ upTo[i] = [j \in 1..i |-> seqs[j][1]]
          /\ upTo[i - 1] = [j \in 1..(i - 1) |-> seqs[j][1]]
      BY <3>2
    <3>4. \A j \in 1..i : j \in 1..n
      BY <1>1
    <3> DEFINE a == [j \in 1..(i - 1) |-> seqs[j][1]]
               b == [j \in 1..i |-> seqs[j][1]]
    <3>a. i \in Nat /\ \A j \in 1..(i - 1) : j \in 1..i
      BY <1>1, <3>2
    <3>b. \A j \in 1..i : seqs[j][1] \in X
      BY <1>1, <3>4
    <3>c. b \in [1..i -> X] /\ a \in [1..(i - 1) -> X]
      BY <3>a, <3>b
    <3>5. a \in Seq(X) /\ Len(a) = i - 1 /\ b \in Seq(X) /\ Len(b) = i
      <4>1. \A m \in Nat : \A f \in [1..m -> X] : f \in Seq(X) /\ Len(f) = m
        OBVIOUS
      <4> HIDE DEF a, b
      <4>2. QED
        BY <4>1, <3>2, <3>a, <3>c
    <3>6. /\ \A j \in 1..i : b[j] = seqs[j][1]
          /\ \A j \in 1..(i - 1) : a[j] = seqs[j][1]
      OBVIOUS
    <3> HIDE DEF a, b
    <3>7. b = a \o <<seqs[i][1]>>
      <4>1. a \o <<seqs[i][1]>> = Append(a, seqs[i][1])
        BY <1>1, <3>5
      <4>2. /\ Append(a, seqs[i][1]) \in Seq(X)
            /\ Len(Append(a, seqs[i][1])) = i
            /\ Append(a, seqs[i][1])[i] = seqs[i][1]
            /\ \A j \in 1..(i - 1) : Append(a, seqs[i][1])[j] = a[j]
        BY <1>1, <3>2, <3>5
      <4>3. \A j \in 1..i : j \in 1..(i - 1) \/ j = i
        BY <3>2
      <4>4. \A j \in 1..i : Append(a, seqs[i][1])[j] = b[j]
        BY <3>6, <4>2, <4>3
      <4>5. QED
        BY <3>5, <4>1, <4>2, <4>4, SeqEqual
    <3>8. QED
      BY <1>1, <3>3, <3>7 DEF a, b
  <2>3. 1 \in 1..n => upTo[1] = seqs[1]
    <3>1. [j \in 1..1 |-> seqs[j][1]] = <<seqs[1][1]>>
      OBVIOUS
    <3>2. 1 \in 1..n => upTo[1] = [j \in 1..1 |-> seqs[j][1]]
      OBVIOUS
    <3>3. QED
      BY <1>1, <3>1, <3>2
  <2>4. upTo = [i \in 1..n |-> upTo[i]]
    OBVIOUS
  <2>5. upTo[n] = [i \in 1..n |-> seqs[i][1]]
    BY <1>1, <1>3
  <2> HIDE DEF upTo
  <2>6. Equation(upTo)
    BY <2>2, <2>3, <2>4
  <2>7. Equation(it)
    <3> HIDE DEF Equation
    <3>1. QED
      BY <2>6
  <2> HIDE DEF it
  <2> DEFINE T == {k \in 0..n : k = 0 \/ it[k] = upTo[k]}
  <2>8. 0 \in T
    BY <1>1
  <2>9. \A k \in 1..n : k - 1 \in T => k \in T
    <3>1. SUFFICES ASSUME NEW k \in 1..n, k - 1 \in T PROVE it[k] = upTo[k]
      OBVIOUS
    <3>2. CASE k = 1
      BY <2>3, <2>7, <3>2
    <3>3. CASE k # 1
      <4>1. it[k - 1] = upTo[k - 1]
        BY <3>1, <3>3
      <4>2. QED
        BY <2>2, <2>7, <3>3, <4>1
    <3>4. QED
      BY <3>2, <3>3
  <2>10. 0..n \subseteq T
    <3> HIDE DEF T
    <3>1. QED
      BY <1>1, <2>8, <2>9, PrefixInduction
  <2>11. it[n] = upTo[n]
    BY <1>1, <1>3, <2>10
  <2>12. QED
    BY <1>1, <2>1, <2>5, <2>11
<1>4. QED
  BY <1>2, <1>3

LEMMA GroupedByThree ==
  ASSUME NEW X, NEW s \in Seq(X), NEW classes, Len(classes) = 3
  PROVE  /\ Grouped(s, classes)
               = (Among(s, classes[1]) \o Among(s, classes[2]))
                     \o Among(s, classes[3])
         /\ Grouped(s, classes) \in Seq(X)
<1> DEFINE A(k) == Among(s, classes[k])
           Equation(f) == f = [k \in 0..3 |->
                                 IF k = 0 THEN <<>> ELSE f[k - 1] \o A(k)]
           it == CHOOSE f : Equation(f)
           those == [k \in 0..3 |-> IF k = 0 THEN <<>>
                                    ELSE IF k = 1 THEN A(1)
                                    ELSE IF k = 2 THEN A(1) \o A(2)
                                    ELSE (A(1) \o A(2)) \o A(3)]
<1>1. Grouped(s, classes) = it[3]
  BY DEF Grouped
<1>2. A(1) \in Seq(X) /\ A(2) \in Seq(X) /\ A(3) \in Seq(X)
  BY AmongKeeps
<1> HIDE DEF A
<1>3. <<>> \o A(1) = A(1)
  BY <1>2
<1>4. /\ those[0] = <<>> /\ those[1] = A(1) /\ those[2] = A(1) \o A(2)
      /\ those[3] = (A(1) \o A(2)) \o A(3)
      /\ those = [k \in 0..3 |-> those[k]]
  OBVIOUS
<1> HIDE DEF those
<1>5. Equation(those)
  <2>1. \A k \in 0..3 : those[k] = IF k = 0 THEN <<>> ELSE those[k - 1] \o A(k)
    <3>1. \A k \in 0..3 : k = 0 \/ k = 1 \/ k = 2 \/ k = 3
      OBVIOUS
    <3>a. 1 - 1 = 0 /\ 2 - 1 = 1 /\ 3 - 1 = 2
      OBVIOUS
    <3>2. those[1] = those[1 - 1] \o A(1)
      BY <1>3, <1>4, <3>a
    <3>3. those[2] = those[2 - 1] \o A(2) /\ those[3] = those[3 - 1] \o A(3)
      BY <1>4, <3>a
    <3>4. QED
      BY <1>4, <3>1, <3>2, <3>3
  <2>2. QED
    BY <1>4, <2>1
<1>6. Equation(it)
  <2> HIDE DEF Equation
  <2>1. QED
    BY <1>5
<1> HIDE DEF it
<1>7. it[0] = <<>> /\ it[1] = it[0] \o A(1) /\ it[2] = it[1] \o A(2)
      /\ it[3] = it[2] \o A(3)
  <2>1. \A k \in 0..3 : it[k] = IF k = 0 THEN <<>> ELSE it[k - 1] \o A(k)
    BY <1>6
  <2>2. /\ 0 \in 0..3 /\ 1 \in 0..3 /\ 2 \in 0..3 /\ 3 \in 0..3
        /\ 1 - 1 = 0 /\ 2 - 1 = 1 /\ 3 - 1 = 2
    OBVIOUS
  <2>3. it[1] = it[1 - 1] \o A(1) /\ it[2] = it[2 - 1] \o A(2)
        /\ it[3] = it[3 - 1] \o A(3) /\ it[0] = <<>>
    BY <2>1, <2>2
  <2>4. QED
    BY <2>2, <2>3
<1>8. it[3] = (A(1) \o A(2)) \o A(3)
  BY <1>3, <1>7
<1>9. (A(1) \o A(2)) \o A(3) \in Seq(X)
  BY <1>2
<1>10. QED
  BY <1>1, <1>8, <1>9 DEF A

\* Three classes that no element is in two of, and lists in their order.
Disjoint(classes) ==
    /\ Len(classes) = 3
    /\ \A i, j \in 1..3 : i # j => classes[i] \intersect classes[j] = {}
InOrder(s, classes) ==
    \A i, j \in 1..Len(s), k, l \in 1..3 :
        i < j /\ s[i] \in classes[k] /\ s[j] \in classes[l] => k <= l

LEMMA ChosenAlready ==
  ASSUME NEW X, NEW s \in Seq(X), NEW S, ToSet(s) \subseteq S
  PROVE  Among(s, S) = s
<1>1. \A i \in 1..Len(s) : s[i] \in S
  BY DEF ToSet
<1>2. s \in [1..Len(s) -> S] /\ Len(s) \in Nat
  BY <1>1
<1>3. s \in Seq(S)
  BY <1>2
<1>4. QED
  BY <1>3, AmongAll

LEMMA ChosenOfChosen ==
  ASSUME NEW X, NEW s \in Seq(X), NEW S, NEW T, S = T \/ S \intersect T = {}
  PROVE  Among(Among(s, S), T) = IF S = T THEN Among(s, S) ELSE <<>>
<1>1. Among(s, S) \in Seq(X) /\ ToSet(Among(s, S)) = ToSet(s) \intersect S
  BY AmongKeeps
<1>2. CASE S = T
  BY <1>1, <1>2, ChosenAlready
<1>3. CASE S # T
  BY <1>1, <1>3, AmongNone
<1>4. QED
  BY <1>2, <1>3

LEMMA AmongGrouped ==
  ASSUME NEW X, NEW s \in Seq(X), NEW classes, Disjoint(classes),
         NEW k \in 1..3, classes[k] # {}
  PROVE  Among(Grouped(s, classes), classes[k]) = Among(s, classes[k])
<1> DEFINE c == classes[k]
           A(i) == Among(s, classes[i])
<1>1. A(1) \in Seq(X) /\ A(2) \in Seq(X) /\ A(3) \in Seq(X)
  BY AmongKeeps
<1>2. Grouped(s, classes) = (A(1) \o A(2)) \o A(3)
  BY GroupedByThree DEF Disjoint
<1>3. ASSUME NEW i \in 1..3
      PROVE  Among(A(i), c) = IF i = k THEN A(k) ELSE <<>>
  <2>1. i # k => classes[i] \intersect c = {} /\ classes[i] # c
    BY DEF Disjoint
  <2>2. QED
    BY <2>1, ChosenOfChosen
<1>4. A(1) \o A(2) \in Seq(X)
  BY <1>1
<1>5. Among((A(1) \o A(2)) \o A(3), c)
         = (Among(A(1), c) \o Among(A(2), c)) \o Among(A(3), c)
  <2>1. \A p, q \in Seq(X) : Among(p \o q, c) = Among(p, c) \o Among(q, c)
    BY AmongConcat
  <2> HIDE DEF A, c
  <2>2. QED
    BY <1>1, <1>4, <2>1
<1>6. A(k) \in Seq(X) /\ 1 \in 1..3 /\ 2 \in 1..3 /\ 3 \in 1..3
  BY AmongKeeps
<1> HIDE DEF A
<1>7. /\ (A(k) \o <<>>) \o <<>> = A(k)
      /\ (<<>> \o A(k)) \o <<>> = A(k)
      /\ (<<>> \o <<>>) \o A(k) = A(k)
  <2>1. \A t \in Seq(X) : t \o <<>> = t /\ <<>> \o t = t
    BY ConcatEmptySeq
  <2>2. <<>> \o <<>> = <<>>
    OBVIOUS
  <2>3. QED
    BY <1>6, <2>1, <2>2
<1>8. k = 1 \/ k = 2 \/ k = 3
  OBVIOUS
<1>9. Among((A(1) \o A(2)) \o A(3), c) = A(k)
  <2>1. CASE k = 1
    BY <1>3, <1>5, <1>6, <1>7, <2>1
  <2>2. CASE k = 2
    BY <1>3, <1>5, <1>6, <1>7, <2>2
  <2>3. CASE k = 3
    BY <1>3, <1>5, <1>6, <1>7, <2>3
  <2>4. QED
    BY <1>8, <2>1, <2>2, <2>3
<1>10. QED
  BY <1>2, <1>9 DEF A

LEMMA GroupedAlike ==
  ASSUME NEW X, NEW s \in Seq(X), NEW t \in Seq(X), NEW classes,
         Len(classes) = 3,
         \A k \in 1..3 : Among(s, classes[k]) = Among(t, classes[k])
  PROVE  Grouped(s, classes) = Grouped(t, classes)
<1>1. 1 \in 1..3 /\ 2 \in 1..3 /\ 3 \in 1..3
  OBVIOUS
<1>2. QED
  BY <1>1, GroupedByThree

\* A list that is sorted stays as it is.
LEMMA GroupedAgain ==
  ASSUME NEW X, NEW s \in Seq(X), NEW classes, Disjoint(classes),
         \A k \in 1..3 : classes[k] # {}
  PROVE  Grouped(Grouped(s, classes), classes) = Grouped(s, classes)
<1> DEFINE t == Grouped(s, classes)
<1>1. t \in Seq(X) /\ Len(classes) = 3
  BY GroupedByThree DEF Disjoint
<1>2. \A k \in 1..3 : Among(t, classes[k]) = Among(s, classes[k])
  BY AmongGrouped
<1> HIDE DEF t
<1>3. Grouped(t, classes) = Grouped(s, classes)
  BY <1>1, <1>2, GroupedAlike
<1>4. QED
  BY <1>3 DEF t

LEMMA GroupedInOrder ==
  ASSUME NEW X, NEW classes, Disjoint(classes),
         \A x \in X : \E k \in 1..3 : x \in classes[k]
  PROVE  \A s \in Seq(X) : InOrder(s, classes) => Grouped(s, classes) = s
<1>a. ASSUME NEW r \in Seq(X), NEW x \in X, NEW S
      PROVE  IF x \in S THEN Among(Append(r, x), S) = Append(Among(r, S), x)
                         ELSE Among(Append(r, x), S) = Among(r, S)
  <2>1. CASE x \in S
    BY <2>1, AmongAppend
  <2>2. CASE x \notin S
    BY <2>2, AmongAppend
  <2>3. QED
    BY <2>1, <2>2
<1> DEFINE T == {s \in Seq(X) : InOrder(s, classes)
                                    => Grouped(s, classes) = s}
           A(s, k) == Among(s, classes[k])
<1>0. \A s \in Seq(X) : /\ Grouped(s, classes) = (A(s, 1) \o A(s, 2)) \o A(s, 3)
                        /\ A(s, 1) \in Seq(X) /\ A(s, 2) \in Seq(X)
                        /\ A(s, 3) \in Seq(X)
  BY AmongKeeps, GroupedByThree DEF Disjoint
<1>1. <<>> \in T
  <2>1. A(<<>>, 1) = <<>> /\ A(<<>>, 2) = <<>> /\ A(<<>>, 3) = <<>>
    BY AmongEmpty
  <2>2. (<<>> \o <<>>) \o <<>> = <<>> /\ <<>> \in Seq(X)
    OBVIOUS
  <2> HIDE DEF A
  <2>3. Grouped(<<>>, classes) = <<>>
    BY <1>0, <2>1, <2>2
  <2>4. QED
    BY <2>2, <2>3
<1>2. ASSUME NEW s \in Seq(X), NEW x \in X, s \in T PROVE Append(s, x) \in T
  <2> DEFINE t == Append(s, x)
  <2>1. /\ t \in Seq(X) /\ Len(t) = Len(s) + 1 /\ Len(s) \in Nat
        /\ t[Len(t)] = x /\ \A i \in 1..Len(s) : t[i] = s[i]
    OBVIOUS
  <2>2. SUFFICES ASSUME InOrder(t, classes) PROVE Grouped(t, classes) = t
    BY <2>1
  <2> HIDE DEF t
  <2>3. /\ Len(t) \in 1..Len(t)
        /\ \A i \in 1..Len(s) : i \in 1..Len(t) /\ i < Len(t)
    BY <2>1
  <2>4. InOrder(s, classes)
    BY <2>1, <2>2, <2>3 DEF InOrder
  <2>5. (A(s, 1) \o A(s, 2)) \o A(s, 3) = s
    <3> HIDE DEF A
    <3>1. QED
      BY <1>0, <1>2, <2>4
  <2>6. PICK k \in 1..3 : x \in classes[k]
    OBVIOUS
  <2>7. \A i \in 1..Len(s), m \in 1..3 : s[i] \in classes[m] => m <= k
    BY <2>1, <2>2, <2>3, <2>6 DEF InOrder
  <2>8. ASSUME NEW m \in 1..3, m > k PROVE A(s, m) = <<>>
    <3>1. ToSet(s) \intersect classes[m] = {}
      BY <2>7, <2>8 DEF ToSet
    <3>2. QED
      BY <3>1, AmongNone
  <2>9. \A m \in 1..3 : A(t, m) = IF m = k THEN Append(A(s, m), x) ELSE A(s, m)
    <3>1. SUFFICES ASSUME NEW m \in 1..3
                   PROVE  A(t, m) = IF m = k THEN Append(A(s, m), x)
                                    ELSE A(s, m)
      OBVIOUS
    <3>2. x \in classes[m] <=> m = k
      BY <2>6 DEF Disjoint
    <3>3. QED
      BY <1>a, <3>2 DEF t
  <2> HIDE DEF A
  <2>10. /\ A(s, 1) \in Seq(X) /\ A(s, 2) \in Seq(X) /\ A(s, 3) \in Seq(X)
         /\ A(s, 1) \o A(s, 2) \in Seq(X)
    BY <1>0
  <2>11. (A(t, 1) \o A(t, 2)) \o A(t, 3)
            = Append((A(s, 1) \o A(s, 2)) \o A(s, 3), x)
    <3>0. 1 \in 1..3 /\ 2 \in 1..3 /\ 3 \in 1..3
      OBVIOUS
    <3>a. \A p, q \in Seq(X) : /\ p \o Append(q, x) = Append(p \o q, x)
                               /\ p \o <<>> = p
                               /\ Append(p, x) \in Seq(X)
      BY ConcatEmptySeq
    <3>1. CASE k = 1
      <4>1. A(s, 2) = <<>> /\ A(s, 3) = <<>>
        BY <2>8, <3>0, <3>1
      <4>2. A(t, 1) = Append(A(s, 1), x) /\ A(t, 2) = <<>> /\ A(t, 3) = <<>>
        BY <2>9, <3>0, <3>1, <4>1
      <4>3. QED
        BY <2>10, <3>a, <4>1, <4>2
    <3>2. CASE k = 2
      <4>1. A(s, 3) = <<>>
        BY <2>8, <3>0, <3>2
      <4>2. /\ A(t, 1) = A(s, 1) /\ A(t, 2) = Append(A(s, 2), x)
            /\ A(t, 3) = <<>>
        BY <2>9, <3>0, <3>2, <4>1
      <4>3. A(s, 1) \o Append(A(s, 2), x) = Append(A(s, 1) \o A(s, 2), x)
        BY <2>10, <3>a
      <4>4. /\ Append(A(s, 1) \o A(s, 2), x) \o <<>>
                  = Append(A(s, 1) \o A(s, 2), x)
            /\ (A(s, 1) \o A(s, 2)) \o <<>> = A(s, 1) \o A(s, 2)
        BY <2>10, <3>a
      <4>5. QED
        BY <4>1, <4>2, <4>3, <4>4
    <3>3. CASE k = 3
      <4>1. /\ A(t, 1) = A(s, 1) /\ A(t, 2) = A(s, 2)
            /\ A(t, 3) = Append(A(s, 3), x)
        BY <2>9, <3>0, <3>3
      <4>2. (A(s, 1) \o A(s, 2)) \o Append(A(s, 3), x)
               = Append((A(s, 1) \o A(s, 2)) \o A(s, 3), x)
        BY <2>10, <3>a
      <4>3. QED
        BY <4>1, <4>2
    <3>4. k = 1 \/ k = 2 \/ k = 3
      OBVIOUS
    <3>5. QED
      BY <3>1, <3>2, <3>3, <3>4
  <2>12. QED
    BY <1>0, <2>1, <2>5, <2>11 DEF t
<1>3. Seq(X) \subseteq T
  <2> HIDE DEF T
  <2>1. QED
    BY <1>1, <1>2, SequenceInduction
<1>4. QED
  BY <1>3

----------------------------------------------------------------------------
(* Notifications.                                                          *)

AnyType == Types \union {"Fax"}
AnyText == [type : AnyType, parts : Seq(Seq(Pieces))]
AnyNotification == [type : AnyType, fields : Seq(Seq(Seq(Pieces)))]

LEMMA AlphabetSplits ==
  /\ Disjoint(Alphabet)
  /\ \A k \in 1..3 : Alphabet[k] # {} /\ Alphabet[k] = {Order[k]}
  /\ \A x \in ToSet(Order) : \E k \in 1..3 : x \in Alphabet[k]
  /\ ToSet(Order) = {"#", "a", "b"}
<1>1. Alphabet = [k \in 1..3 |-> {Order[k]}]
  BY DEF Alphabet, Order
<1>2. Len(Alphabet) = 3 /\ \A k \in 1..3 : Alphabet[k] = {Order[k]}
  BY <1>1
<1>3. Order[1] = "#" /\ Order[2] = "a" /\ Order[3] = "b"
  BY DEF Order
<1>4. \A k \in 1..3 : k = 1 \/ k = 2 \/ k = 3
  OBVIOUS
<1>5. DOMAIN Order = 1..3
  BY DEF Order
<1>6. \A i, j \in 1..3 : i # j => Order[i] # Order[j]
  BY <1>3, <1>4
<1>7. ToSet(Order) = {"#", "a", "b"}
  <2>1. 1 \in 1..3 /\ 2 \in 1..3 /\ 3 \in 1..3
    OBVIOUS
  <2>2. QED
    BY <1>3, <1>4, <1>5, <2>1 DEF ToSet
<1>8. \A x \in ToSet(Order) : \E k \in 1..3 : x \in Alphabet[k]
  BY <1>2, <1>5 DEF ToSet
<1>9. QED
  BY <1>2, <1>6, <1>7, <1>8 DEF Disjoint

LEMMA ElementsOfConcat ==
  ASSUME NEW X, NEW s \in Seq(X), NEW t \in Seq(X)
  PROVE  ToSet(s \o t) \subseteq ToSet(s) \union ToSet(t)
<1>1. s \o t \in Seq(X) /\ Len(s \o t) = Len(s) + Len(t)
      /\ Len(s) \in Nat /\ Len(t) \in Nat
  OBVIOUS
<1>2. ASSUME NEW i \in 1..Len(s \o t)
      PROVE  (s \o t)[i] \in ToSet(s) \union ToSet(t)
  <2>1. CASE i <= Len(s)
    <3>1. i \in 1..Len(s) /\ (s \o t)[i] = s[i]
      BY <1>1, <2>1
    <3>2. QED
      BY <3>1 DEF ToSet
  <2>2. CASE i > Len(s)
    <3>1. i - Len(s) \in 1..Len(t) /\ (s \o t)[i] = t[i - Len(s)]
      BY <1>1, <2>2
    <3>2. QED
      BY <3>1 DEF ToSet
  <2>3. QED
    BY <1>1, <2>1, <2>2
<1>3. QED
  BY <1>1, <1>2 DEF ToSet

LEMMA RecipientsKept ==
  ASSUME NEW part \in Seq(Pieces)
  PROVE  /\ Recipients(part) \in Seq(Pieces)
         /\ \A piece \in ToSet(Recipients(part)) : ~IsBlank(piece)
         /\ ToSet(Recipients(part)) \subseteq ToSet(part)
         /\ (\A piece \in ToSet(part) : ~IsBlank(piece))
               => Recipients(part) = part
<1> DEFINE S == {piece \in Pieces : ~IsBlank(piece)}
<1>1. /\ Among(part, S) \in Seq(Pieces)
      /\ ToSet(Among(part, S)) = ToSet(part) \intersect S
  BY AmongKeeps
<1>2. ToSet(part) \subseteq Pieces
  BY DEF ToSet
<1>3. (\A piece \in ToSet(part) : ~IsBlank(piece)) => Among(part, S) = part
  <2>1. SUFFICES ASSUME \A piece \in ToSet(part) : ~IsBlank(piece)
                 PROVE  Among(part, S) = part
    OBVIOUS
  <2>2. ToSet(part) \subseteq S
    BY <1>2, <2>1
  <2> HIDE DEF S
  <2>3. QED
    BY <2>2, ChosenAlready
<1>4. QED
  BY <1>1, <1>3 DEF Recipients

LEMMA WordsAreNotBlank ==
  ASSUME NEW piece, IsWord(piece)
  PROVE  ~IsBlank(piece) /\ piece \in Pieces /\ piece \in ToSet(Order)
<1>1. piece \in ToSet(Order) /\ ToSet(Order) = {"#", "a", "b"}
  BY AlphabetSplits DEF IsWord, Words
<1>2. QED
  BY <1>1 DEF IsBlank, Pieces

\* No recipient at the API is blank, so nothing of a list is dropped.
LEMMA ListedRecipients ==
  ASSUME NEW part \in Seq(Pieces), ToSet(part) \subseteq ToSet(Order)
  PROVE  /\ Recipients(part) = part
         /\ AreRecipients(part) <=> \A piece \in ToSet(part) : IsWord(piece)
<1>1. \A piece \in ToSet(Order) : ~IsBlank(piece)
  BY AlphabetSplits DEF IsBlank
<1>2. Recipients(part) = part
  BY <1>1, RecipientsKept
<1>3. QED
  BY <1>2 DEF AreRecipients

\* What the entry has for a list of recipients.
LEMMA RecipientsSorted ==
  ASSUME NEW part \in Seq(Pieces), ToSet(part) \subseteq ToSet(Order),
         NEW sorted, sorted = Grouped(part, Alphabet)
  PROVE  /\ sorted \in Seq(Pieces)
         /\ Recipients(sorted) = sorted
         /\ AreRecipients(sorted) <=> \A piece \in ToSet(part) : IsWord(piece)
         /\ SameRecipients(sorted, part)
         /\ sorted = <<>> <=> part = <<>>
<1> DEFINE A(k) == Among(part, Alphabet[k])
<1>1. sorted = (A(1) \o A(2)) \o A(3) /\ sorted \in Seq(Pieces)
  <2>1. Len(Alphabet) = 3
    BY AlphabetSplits DEF Disjoint
  <2>2. QED
    BY <2>1, GroupedByThree
<1>2. \A k \in 1..3 : Among(sorted, Alphabet[k]) = A(k)
  BY AlphabetSplits, AmongGrouped
<1>3. \A k \in 1..3 : A(k) \in Seq(Pieces) /\ ToSet(A(k)) \subseteq ToSet(part)
  BY AmongKeeps
<1>4. ToSet(sorted) \subseteq ToSet(part)
  <2>1. 1 \in 1..3 /\ 2 \in 1..3 /\ 3 \in 1..3
    OBVIOUS
  <2> HIDE DEF A
  <2>2. A(1) \o A(2) \in Seq(Pieces)
    BY <1>3, <2>1
  <2>3. ToSet(A(1) \o A(2)) \subseteq ToSet(A(1)) \union ToSet(A(2))
    BY <1>3, <2>1, ElementsOfConcat
  <2>4. ToSet((A(1) \o A(2)) \o A(3)) \subseteq ToSet(A(1) \o A(2)) \union ToSet(A(3))
    BY <1>3, <2>1, <2>2, ElementsOfConcat
  <2>5. QED
    BY <1>1, <1>3, <2>1, <2>3, <2>4
<1>5. ToSet(part) \subseteq ToSet(sorted)
  <2>1. SUFFICES ASSUME NEW piece \in ToSet(part) PROVE piece \in ToSet(sorted)
    OBVIOUS
  <2>2. PICK k \in 1..3 : piece \in Alphabet[k]
    BY AlphabetSplits
  <2>3. piece \in ToSet(A(k))
    BY <2>2, AmongKeeps
  <2>4. ToSet(Among(sorted, Alphabet[k])) \subseteq ToSet(sorted)
    BY <1>1, AmongKeeps
  <2>5. QED
    BY <1>2, <2>3, <2>4
<1>6. Recipients(sorted) = sorted
  BY <1>1, <1>4, ListedRecipients
<1>7. AreRecipients(sorted) <=> \A piece \in ToSet(part) : IsWord(piece)
  BY <1>4, <1>5, <1>6 DEF AreRecipients
<1>8. SameRecipients(sorted, part)
  <2>1. \A piece \in ToSet(Order) : \E k \in 1..3 : Alphabet[k] = {piece}
    BY AlphabetSplits
  <2>2. QED
    BY <1>2, <2>1 DEF SameRecipients
<1>9. sorted = <<>> <=> part = <<>>
  <2>1. ASSUME part = <<>> PROVE sorted = <<>>
    <3>1. A(1) = <<>> /\ A(2) = <<>> /\ A(3) = <<>>
      BY <2>1, AmongEmpty
    <3>2. (<<>> \o <<>>) \o <<>> = <<>>
      OBVIOUS
    <3>3. QED
      BY <1>1, <3>1, <3>2
  <2>2. ASSUME part # <<>> PROVE sorted # <<>>
    <3>1. 1 \in 1..Len(part)
      BY <2>2
    <3>2. part[1] \in ToSet(part)
      BY <3>1 DEF ToSet
    <3>3. PICK k \in 1..3 : part[1] \in Alphabet[k]
      BY <3>2, AlphabetSplits
    <3>4. part[1] \in ToSet(A(k))
      BY <3>2, <3>3, AmongKeeps
    <3>5. A(k) # <<>>
      BY <3>4 DEF ToSet
    <3>6. Among(<<>>, Alphabet[k]) = <<>>
      BY AmongEmpty
    <3>7. QED
      BY <1>2, <3>5, <3>6
  <2>3. QED
    BY <2>1, <2>2
<1>10. QED
  BY <1>1, <1>6, <1>7, <1>8, <1>9

LEMMA SameRecipientsSorted ==
  ASSUME NEW p \in Seq(Pieces), NEW q \in Seq(Pieces), SameRecipients(p, q)
  PROVE  Grouped(p, Alphabet) = Grouped(q, Alphabet)
<1>1. ASSUME NEW k \in 1..3
      PROVE  Among(p, Alphabet[k]) = Among(q, Alphabet[k])
  <2>1. PICK piece \in ToSet(Order) : Alphabet[k] = {piece}
    <3>1. Order[k] \in ToSet(Order)
      BY DEF Order, ToSet
    <3>2. QED
      BY <3>1, AlphabetSplits
  <2>2. Len(Among(p, {piece})) = Len(Among(q, {piece}))
    BY DEF SameRecipients
  <2>3. Among(p, {piece}) = Among(q, {piece})
    BY <2>2, AmongOne
  <2>4. QED
    BY <2>1, <2>3
<1>2. QED
  BY <1>1, AlphabetSplits, GroupedAlike DEF Disjoint

\* A list that has the recipients of a list of words is one.
LEMMA SameRecipientsAreWords ==
  ASSUME NEW p \in Seq(Pieces), NEW q \in Seq(Pieces), SameRecipients(p, q),
         ToSet(p) \subseteq ToSet(Order), \A piece \in ToSet(q) : IsWord(piece)
  PROVE  \A piece \in ToSet(p) : IsWord(piece)
<1>1. SUFFICES ASSUME NEW piece \in ToSet(p) PROVE IsWord(piece)
  OBVIOUS
<1> DEFINE r == Among(p, {piece})
           s == Among(q, {piece})
<1>2. /\ r \in Seq(Pieces) /\ ToSet(r) = ToSet(p) \intersect {piece}
      /\ s \in Seq(Pieces) /\ ToSet(s) = ToSet(q) \intersect {piece}
  BY AmongKeeps
<1>3. Len(r) = Len(s)
  BY <1>1 DEF SameRecipients
<1> HIDE DEF r, s
<1>4. Len(r) \in Nat \ {0}
  <2>1. piece \in ToSet(r)
    BY <1>1, <1>2
  <2>2. ToSet(<<>>) = {}
    BY DEF ToSet
  <2>3. r # <<>>
    BY <2>1, <2>2
  <2>4. QED
    BY <1>2, <2>3
<1>5. 1 \in 1..Len(s) /\ DOMAIN s = 1..Len(s)
  BY <1>2, <1>3, <1>4
<1>6. s[1] \in ToSet(s)
  BY <1>5 DEF ToSet
<1>7. QED
  BY <1>2, <1>6

LEMMA OrderedStays ==
  ASSUME NEW part \in Seq(Pieces), \A piece \in ToSet(part) : IsWord(piece),
         Ordered(part)
  PROVE  Grouped(part, Alphabet) = part
<1>1. \A k \in 1..3 : Rank(Order[k]) = k
  <2>1. DOMAIN Order = 1..3 /\ Order[1] = "#" /\ Order[2] = "a" /\ Order[3] = "b"
    BY DEF Order
  <2>2. \A i, j \in 1..3 : Order[i] = Order[j] => i = j
    <3>1. \A i \in 1..3 : i = 1 \/ i = 2 \/ i = 3
      OBVIOUS
    <3>2. QED
      BY <2>1, <3>1
  <2>3. QED
    BY <2>1, <2>2 DEF Rank
<1>2. part \in Seq(ToSet(Order))
  <2>0. \A i \in 1..Len(part) : part[i] \in ToSet(part)
    BY DEF ToSet
  <2>1. \A i \in 1..Len(part) : part[i] \in ToSet(Order)
    BY <2>0, WordsAreNotBlank
  <2>2. part \in [1..Len(part) -> ToSet(Order)] /\ Len(part) \in Nat
    BY <2>1
  <2>3. QED
    BY <2>2
<1>3. InOrder(part, Alphabet)
  <2>1. SUFFICES ASSUME NEW i \in 1..Len(part), NEW j \in 1..Len(part),
                        NEW k \in 1..3, NEW l \in 1..3, i < j,
                        part[i] \in Alphabet[k], part[j] \in Alphabet[l]
                 PROVE  k <= l
    BY DEF InOrder
  <2>2. part[i] = Order[k] /\ part[j] = Order[l]
    BY <2>1, AlphabetSplits
  <2>3. Rank(part[i]) <= Rank(part[j])
    BY <2>1 DEF Ordered, Before
  <2>4. QED
    BY <1>1, <2>2, <2>3
<1>4. QED
  BY <1>2, <1>3, AlphabetSplits, GroupedInOrder

\* A text of another type than Email: what is kept of it comes back.
LEMMA PlainText ==
  ASSUME NEW t \in AnyText, Valid(t), t.type # "Email",
         NEW n, n = NewNotificationFromString(t)
  PROVE  /\ Kept(t) \in Seq(Seq(Pieces))
         /\ n = [type |-> t.type, fields |-> [i \in DOMAIN Kept(t) |-> <<Kept(t)[i]>>]]
         /\ n \in AnyNotification
         /\ NewNotificationStringFromAPI(n) = [type |-> t.type, parts |-> Kept(t)]
         /\ NewNotificationFromString(NewNotificationStringFromAPI(n)) = n
         /\ t.type \in SinglePart => Kept(t) = <<t.parts[1]>>
         /\ t.type \notin SinglePart => Kept(t) = t.parts
<1> DEFINE k == Kept(t)
           f == [i \in DOMAIN k |-> <<k[i]>>]
           u == [type |-> t.type, parts |-> k]
<1>1. t.parts \in Seq(Seq(Pieces)) /\ t.parts # <<>> /\ t.type \in AnyType
      /\ t = [type |-> t.type, parts |-> t.parts]
  BY DEF AnyText, Valid
<1>2. /\ t.type \in SinglePart => k = <<t.parts[1]>>
      /\ t.type \notin SinglePart => k = t.parts
  BY DEF Kept
<1>3. k \in Seq(Seq(Pieces)) /\ k # <<>>
  <2>1. t.parts[1] \in Seq(Pieces)
    <3>1. 1 \in 1..Len(t.parts)
      BY <1>1
    <3>2. QED
      BY <1>1, <3>1, ElementOfSeq
  <2>2. <<t.parts[1]>> \in Seq(Seq(Pieces)) /\ <<t.parts[1]>> # <<>>
    BY <2>1
  <2>3. QED
    BY <1>1, <1>2, <2>2
<1>4. n = [type |-> t.type, fields |-> f]
  BY DEF NewNotificationFromString
<1>a. t.type \in SinglePart => k[1] = t.parts[1]
  BY <1>2
<1> HIDE DEF k
<1>5. /\ f \in Seq(Seq(Seq(Pieces)))
      /\ DOMAIN f = DOMAIN k
      /\ \A i \in DOMAIN f : f[i] = <<k[i]>> /\ Len(f[i]) = 1 /\ f[i][1] = k[i]
  <2>1. \A i \in DOMAIN k : k[i] \in Seq(Pieces)
    BY <1>3, ElementOfSeq
  <2>2. \A i \in DOMAIN k : <<k[i]>> \in Seq(Seq(Pieces))
    BY <2>1
  <2>3. DOMAIN k = 1..Len(k) /\ Len(k) \in Nat
    BY <1>3
  <2>4. f \in [1..Len(k) -> Seq(Seq(Pieces))]
    BY <2>2, <2>3
  <2>5. \A i \in DOMAIN k : f[i] = <<k[i]>>
    OBVIOUS
  <2>6. DOMAIN f = DOMAIN k
    OBVIOUS
  <2>7. f \in Seq(Seq(Seq(Pieces)))
    <3> HIDE DEF f
    <3>1. QED
      BY <2>3, <2>4
  <2> HIDE DEF f
  <2>8. \A x : Len(<<x>>) = 1 /\ <<x>>[1] = x
    OBVIOUS
  <2>9. \A i \in DOMAIN f : f[i] = <<k[i]>> /\ Len(f[i]) = 1 /\ f[i][1] = k[i]
    BY <2>5, <2>6, <2>8
  <2>10. QED
    BY <2>6, <2>7, <2>9
<1> HIDE DEF f
<1>6. FlattenSeq(f) = k
  <2>1. FlattenSeq(f) = [i \in DOMAIN f |-> f[i][1]]
    BY <1>5, FlattenSingletons
  <2>2. k = [i \in DOMAIN k |-> k[i]]
    BY <1>3
  <2>3. [i \in DOMAIN f |-> f[i][1]] = [i \in DOMAIN k |-> k[i]]
    BY <1>5
  <2>4. QED
    BY <2>1, <2>2, <2>3
<1>7. NewNotificationStringFromAPI(n) = u
  BY <1>4, <1>6 DEF NewNotificationStringFromAPI
<1>8. Valid(u) /\ Kept(u) = k
  <2>1. CASE t.type \in SinglePart
    <3>1. Valid(u)
      BY <1>3, <2>1 DEF Valid
    <3>2. Kept(u) = <<k[1]>>
      BY <2>1 DEF Kept
    <3>3. QED
      BY <1>2, <1>a, <2>1, <3>1, <3>2
  <2>2. CASE t.type \notin SinglePart
    <3>1. u = t
      BY <1>1, <1>2, <2>2
    <3> HIDE DEF u
    <3>2. QED
      BY <3>1 DEF k
  <2>3. QED
    BY <2>1, <2>2
<1>9. NewNotificationFromString(u) = n
  BY <1>4, <1>8 DEF NewNotificationFromString, f
<1>10. n \in AnyNotification
  BY <1>1, <1>4, <1>5 DEF AnyNotification
<1>11. QED
  BY <1>2, <1>3, <1>4, <1>7, <1>9, <1>10 DEF f, k

\* An e-mail: its three fields, lists of words.
IsEmail(n, address, cc, bcc) ==
    /\ n = [type |-> "Email", fields |-> <<<<address>>, <<cc>>, <<bcc>>>>]
    /\ address \in Seq(Pieces) /\ IsAddress(address)
    /\ cc \in Seq(Pieces) /\ \A piece \in ToSet(cc) : IsWord(piece)
    /\ bcc \in Seq(Pieces) /\ \A piece \in ToSet(bcc) : IsWord(piece)
    /\ Recipients(cc) = cc /\ Recipients(bcc) = bcc

NamedAt(t, i) == IF i > Len(t.parts) THEN <<>> ELSE Recipients(t.parts[i])

LEMMA NoRecipients == Recipients(<<>>) = <<>> /\ ToSet(<<>>) = {}
BY AmongEmpty DEF Recipients, ToSet

LEMMA EmailText ==
  ASSUME NEW t \in AnyText, Valid(t), t.type = "Email",
         NEW n, n = NewNotificationFromString(t)
  PROVE  IsEmail(n, t.parts[1], NamedAt(t, 2), NamedAt(t, 3))
<1> DEFINE k == [i \in 1..3 |-> IF i > Len(t.parts) THEN Empty
                                ELSE IF i = 1 THEN t.parts[1]
                                ELSE Recipients(t.parts[i])]
           m == Len(t.parts)
<1>1. t.parts \in Seq(Seq(Pieces)) /\ "Email" \notin SinglePart
  BY DEF AnyText, SinglePart
<1>2. ValidEmail(t.parts)
  BY <1>1 DEF Valid
<1>3. /\ m \in 1..3
      /\ IsAddress(t.parts[1])
      /\ \A i \in 2..m : AreRecipients(t.parts[i])
  BY <1>2 DEF ValidEmail
<1>4. \A i \in 1..m : t.parts[i] \in Seq(Pieces)
  BY <1>1, ElementOfSeq
<1>5. Kept(t) = k
  BY <1>1 DEF Kept
<1>6. n = [type |-> "Email", fields |-> [i \in DOMAIN k |-> <<k[i]>>]]
  BY <1>5 DEF NewNotificationFromString
<1>7. k[1] = t.parts[1] /\ k[2] = NamedAt(t, 2) /\ k[3] = NamedAt(t, 3)
  <2>1. ~(1 > m)
    BY <1>3
  <2>2. QED
    BY <2>1 DEF NamedAt, Empty
<1>8. [i \in DOMAIN k |-> <<k[i]>>]
         = <<<<t.parts[1]>>, <<NamedAt(t, 2)>>, <<NamedAt(t, 3)>>>>
  <2>1. DOMAIN k = 1..3
    OBVIOUS
  <2> HIDE DEF k
  <2>2. \A i \in 1..3 : i = 1 \/ i = 2 \/ i = 3
    OBVIOUS
  <2>3. QED
    BY <1>7, <2>1, <2>2
<1>9. ASSUME NEW i \in 2..3
      PROVE  /\ NamedAt(t, i) \in Seq(Pieces)
             /\ \A piece \in ToSet(NamedAt(t, i)) : IsWord(piece)
             /\ Recipients(NamedAt(t, i)) = NamedAt(t, i)
  <2>1. CASE i > m
    <3>1. <<>> \in Seq(Pieces)
      OBVIOUS
    <3>2. QED
      BY <2>1, <3>1, NoRecipients DEF NamedAt
  <2>2. CASE ~(i > m)
    <3>1. i \in 1..m /\ i \in 2..m
      BY <1>3, <2>2
    <3> DEFINE r == Recipients(t.parts[i])
    <3>2. /\ r \in Seq(Pieces)
          /\ \A piece \in ToSet(r) : ~IsBlank(piece)
      BY <1>4, <3>1, RecipientsKept
    <3>3. \A piece \in ToSet(r) : IsWord(piece)
      BY <1>3, <3>1 DEF AreRecipients
    <3>4. NamedAt(t, i) = r
      BY <2>2 DEF NamedAt
    <3> HIDE DEF r
    <3>5. Recipients(r) = r
      BY <3>2, RecipientsKept
    <3>6. QED
      BY <3>2, <3>3, <3>4, <3>5
  <2>3. QED
    BY <2>1, <2>2
<1>10. t.parts[1] \in Seq(Pieces)
  BY <1>3, <1>4
<1>11. 2 \in 2..3 /\ 3 \in 2..3
  OBVIOUS
<1> HIDE DEF k
<1>12. QED
  BY <1>3, <1>6, <1>8, <1>9, <1>10, <1>11 DEF IsEmail

LEMMA OneAndTwo ==
  ASSUME NEW x, NEW y, NEW z
  PROVE  <<x>> \o <<y, z>> = <<x, y, z>>
<1> DEFINE X == {x, y, z}
           s == <<x>> \o <<y, z>>
           t == <<x, y, z>>
<1>1. <<x>> \in Seq(X) /\ <<y, z>> \in Seq(X) /\ t \in Seq(X)
  OBVIOUS
<1>2. s \in Seq(X) /\ Len(s) = 3 /\ Len(t) = 3
  BY <1>1
<1>3. s[1] = x /\ s[2] = y /\ s[3] = z
  BY <1>1
<1>4. t[1] = x /\ t[2] = y /\ t[3] = z
  OBVIOUS
<1>5. \A i \in 1..3 : i = 1 \/ i = 2 \/ i = 3
  OBVIOUS
<1> HIDE DEF s, t
<1>6. \A i \in 1..Len(s) : s[i] = t[i]
  BY <1>2, <1>3, <1>4, <1>5
<1>7. s = t
  BY <1>1, <1>2, <1>6, SeqEqual
<1>8. QED
  BY <1>7 DEF s, t

\* The text of an e-mail.
LEMMA TextOfEmail ==
  ASSUME NEW n, NEW address, NEW cc, NEW bcc, IsEmail(n, address, cc, bcc)
  PROVE  NewNotificationStringFromAPI(n) =
           [type |-> "Email",
            parts |-> IF cc = <<>> /\ bcc = <<>> THEN <<address>>
                      ELSE <<address, Grouped(cc, Alphabet), Grouped(bcc, Alphabet)>>]
<1> DEFINE gcc == Grouped(cc, Alphabet)
           gbcc == Grouped(bcc, Alphabet)
<1>1. /\ n.type = "Email" /\ n.fields[1] = <<address>>
      /\ n.fields[2] = <<cc>> /\ n.fields[3] = <<bcc>>
  BY DEF IsEmail
<1>2. /\ formatEmailRecipientList(n.fields[2]) = gcc
      /\ formatEmailRecipientList(n.fields[3]) = gbcc
  BY <1>1 DEF formatEmailRecipientList
<1>3. (gcc = <<>> <=> cc = <<>>) /\ (gbcc = <<>> <=> bcc = <<>>)
  <2>1. cc \in Seq(Pieces) /\ \A piece \in ToSet(cc) : IsWord(piece)
    BY DEF IsEmail
  <2>2. bcc \in Seq(Pieces) /\ \A piece \in ToSet(bcc) : IsWord(piece)
    BY DEF IsEmail
  <2>3. QED
    BY <2>1, <2>2, RecipientsSorted, WordsAreNotBlank
<1> HIDE DEF gcc, gbcc
<1>4. <<address>> \o <<gcc, gbcc>> = <<address, gcc, gbcc>>
  BY OneAndTwo
<1>5. formatEmail(n) = IF cc = <<>> /\ bcc = <<>> THEN <<address>>
                       ELSE <<address, gcc, gbcc>>
  BY <1>1, <1>2, <1>3, <1>4 DEF formatEmail, Empty
<1>6. QED
  BY <1>1, <1>5 DEF NewNotificationStringFromAPI, gcc, gbcc

\* It is read as an e-mail with the same recipients.
LEMMA EmailOfText ==
  ASSUME NEW n, NEW address, NEW cc, NEW bcc, IsEmail(n, address, cc, bcc)
  PROVE  NewNotificationFromString(NewNotificationStringFromAPI(n)) =
           [type |-> "Email",
            fields |-> <<<<address>>, <<Grouped(cc, Alphabet)>>,
                         <<Grouped(bcc, Alphabet)>>>>]
<1> DEFINE gcc == Grouped(cc, Alphabet)
           gbcc == Grouped(bcc, Alphabet)
           parts == IF cc = <<>> /\ bcc = <<>> THEN <<address>>
                    ELSE <<address, gcc, gbcc>>
           u == [type |-> "Email", parts |-> parts]
<1>1. /\ gcc \in Seq(Pieces) /\ Recipients(gcc) = gcc /\ AreRecipients(gcc)
      /\ gbcc \in Seq(Pieces) /\ Recipients(gbcc) = gbcc /\ AreRecipients(gbcc)
      /\ (gcc = <<>> <=> cc = <<>>) /\ (gbcc = <<>> <=> bcc = <<>>)
  <2>1. cc \in Seq(Pieces) /\ \A piece \in ToSet(cc) : IsWord(piece)
    BY DEF IsEmail
  <2>2. bcc \in Seq(Pieces) /\ \A piece \in ToSet(bcc) : IsWord(piece)
    BY DEF IsEmail
  <2>3. QED
    BY <2>1, <2>2, RecipientsSorted, WordsAreNotBlank
<1>2. NewNotificationStringFromAPI(n) = u
  BY TextOfEmail
<1>3. address \in Seq(Pieces) /\ IsAddress(address) /\ "Email" \notin SinglePart
  BY DEF IsEmail, SinglePart
<1> HIDE DEF gcc, gbcc
<1>4. /\ parts # <<>> /\ parts[1] = address
      /\ (Len(parts) = 1 /\ gcc = <<>> /\ gbcc = <<>>)
            \/ (Len(parts) = 3 /\ parts[2] = gcc /\ parts[3] = gbcc)
  BY <1>1
<1> HIDE DEF parts
<1>5. ValidEmail(parts)
  <2>1. \A i \in 2..3 : i = 2 \/ i = 3
    OBVIOUS
  <2>2. QED
    BY <1>1, <1>3, <1>4, <2>1 DEF ValidEmail
<1>6. Valid(u)
  BY <1>4, <1>5 DEF Valid
<1>7. u \in AnyText
  <2>1. "Email" \in AnyType
    BY DEF AnyType, Types
  <2>2. parts \in Seq(Seq(Pieces))
    BY <1>1, <1>3 DEF parts
  <2>3. QED
    BY <2>1, <2>2 DEF AnyText
<1>8. u.type = "Email" /\ u.parts = parts
  OBVIOUS
<1> HIDE DEF u
<1>9. IsEmail(NewNotificationFromString(u), u.parts[1], NamedAt(u, 2), NamedAt(u, 3))
  BY <1>6, <1>7, <1>8, EmailText
<1>10. NamedAt(u, 2) = gcc /\ NamedAt(u, 3) = gbcc /\ u.parts[1] = address
  BY <1>1, <1>4, <1>8 DEF NamedAt
<1>11. QED
  BY <1>2, <1>9, <1>10 DEF IsEmail, gcc, gbcc

LEMMA EquivalentBothWays ==
  ASSUME NEW m, NEW n, Equivalent(m, n)
  PROVE  Equivalent(n, m)
<1>1. CASE m.type = "Email" /\ n.type = "Email"
  BY <1>1 DEF Equivalent, SameRecipients
<1>2. CASE ~(m.type = "Email" /\ n.type = "Email")
  BY <1>2 DEF Equivalent
<1>3. QED
  BY <1>1, <1>2

(* What a block says, written to the entry, is read as what it was: the    *)
(* same type and fields, and the same recipients of every list.            *)
THEOREM TextIsReadAsItWas ==
  ASSUME NEW t \in AnyText, Valid(t), NEW n, n = NewNotificationFromString(t)
  PROVE  /\ Equivalent(NewNotificationFromString(NewNotificationStringFromAPI(n)), n)
         /\ Writable(n)
<1>0. n.type = t.type
  BY DEF NewNotificationFromString
<1>1. CASE t.type # "Email"
  <2>1. NewNotificationFromString(NewNotificationStringFromAPI(n)) = n
    BY <1>1, PlainText
  <2>2. QED
    BY <1>0, <1>1, <2>1 DEF Equivalent, Writable, Valid, Types
<1>2. CASE t.type = "Email"
  <2> DEFINE m == NewNotificationFromString(NewNotificationStringFromAPI(n))
             cc == NamedAt(t, 2)
             bcc == NamedAt(t, 3)
             address == t.parts[1]
  <2>1. IsEmail(n, address, cc, bcc)
    BY <1>2, EmailText
  <2> HIDE DEF cc, bcc, address
  <2>2. m = [type |-> "Email",
             fields |-> <<<<address>>, <<Grouped(cc, Alphabet)>>,
                          <<Grouped(bcc, Alphabet)>>>>]
    BY <2>1, EmailOfText
  <2>3. SameRecipients(Grouped(cc, Alphabet), cc)
        /\ SameRecipients(Grouped(bcc, Alphabet), bcc)
    BY <2>1, RecipientsSorted, WordsAreNotBlank DEF IsEmail
  <2> HIDE DEF m
  <2>4. /\ m.type = "Email" /\ n.type = "Email"
        /\ m.fields[1] = n.fields[1]
        /\ SameRecipients(m.fields[2][1], n.fields[2][1])
        /\ SameRecipients(m.fields[3][1], n.fields[3][1])
    BY <2>1, <2>2, <2>3 DEF IsEmail
  <2>5. Equivalent(m, n)
    BY <2>4 DEF Equivalent
  <2>6. QED
    BY <2>4, <2>5 DEF m, Writable, Types
<1>3. QED
  BY <1>1, <1>2

(* A text with its recipients in order and its parts in their places       *)
(* comes back from its notification as it was.                             *)
THEOREM CanonicalComesBack ==
  ASSUME NEW t \in AnyText, Valid(t), Canonical(t)
  PROVE  NewNotificationStringFromAPI(NewNotificationFromString(t)) = t
<1> DEFINE n == NewNotificationFromString(t)
<1>1. t = [type |-> t.type, parts |-> t.parts] /\ t.parts \in Seq(Seq(Pieces))
  BY DEF AnyText
<1>2. CASE t.type # "Email"
  <2>1. /\ NewNotificationStringFromAPI(n) = [type |-> t.type, parts |-> Kept(t)]
        /\ t.type \in SinglePart => Kept(t) = <<t.parts[1]>>
        /\ t.type \notin SinglePart => Kept(t) = t.parts
    BY <1>2, PlainText
  <2>2. t.type \in SinglePart => t.parts = <<t.parts[1]>>
    BY <1>1, OneElement DEF Canonical
  <2>3. QED
    BY <1>1, <2>1, <2>2
<1>3. CASE t.type = "Email"
  <2> DEFINE cc == NamedAt(t, 2)
             bcc == NamedAt(t, 3)
             address == t.parts[1]
  <2>1. IsEmail(n, address, cc, bcc)
    BY <1>3, EmailText
  <2>2. NewNotificationStringFromAPI(n) =
           [type |-> "Email",
            parts |-> IF cc = <<>> /\ bcc = <<>> THEN <<address>>
                      ELSE <<address, Grouped(cc, Alphabet), Grouped(bcc, Alphabet)>>]
    <3> HIDE DEF cc, bcc, address, n
    <3>1. QED
      BY <2>1, TextOfEmail
  <2>3. CASE Len(t.parts) = 1
    <3>1. cc = <<>> /\ bcc = <<>>
      BY <2>3 DEF NamedAt
    <3>2. t.parts = <<address>>
      BY <1>1, <2>3, OneElement
    <3>3. QED
      BY <1>1, <1>3, <2>2, <3>1, <3>2
  <2>4. CASE Len(t.parts) # 1
    <3>1. /\ Len(t.parts) = 3
          /\ t.parts[2] # <<>> \/ t.parts[3] # <<>>
          /\ Ordered(t.parts[2]) /\ Recipients(t.parts[2]) = t.parts[2]
          /\ Ordered(t.parts[3]) /\ Recipients(t.parts[3]) = t.parts[3]
      BY <1>3, <2>4 DEF Canonical, Empty
    <3>2. cc = t.parts[2] /\ bcc = t.parts[3]
      BY <3>1 DEF NamedAt
    <3>3. Grouped(cc, Alphabet) = cc /\ Grouped(bcc, Alphabet) = bcc
      <4>1. cc \in Seq(Pieces) /\ \A piece \in ToSet(cc) : IsWord(piece)
        BY <2>1 DEF IsEmail
      <4>2. bcc \in Seq(Pieces) /\ \A piece \in ToSet(bcc) : IsWord(piece)
        BY <2>1 DEF IsEmail
      <4>3. Ordered(cc) /\ Ordered(bcc)
        BY <3>1, <3>2
      <4> HIDE DEF cc, bcc
      <4>4. QED
        BY <4>1, <4>2, <4>3, OrderedStays
    <3>4. t.parts = <<address, cc, bcc>>
      <4>1. \A i \in 1..3 : i = 1 \/ i = 2 \/ i = 3
        OBVIOUS
      <4>2. t.parts = [i \in 1..3 |-> t.parts[i]]
        BY <1>1, <3>1
      <4>3. t.parts[1] = address /\ t.parts[2] = cc /\ t.parts[3] = bcc
        BY <3>2
      <4> HIDE DEF address, cc, bcc
      <4>4. QED
        BY <4>1, <4>2, <4>3
    <3>5. QED
      BY <1>1, <1>3, <2>2, <3>1, <3>2, <3>3, <3>4
  <2>5. QED
    BY <2>3, <2>4
<1>4. QED
  BY <1>2, <1>3

LEMMA EmailsAlike ==
  ASSUME NEW m, NEW a, NEW b, NEW c, IsEmail(m, a, b, c),
         NEW n, NEW x, NEW y, NEW z, IsEmail(n, x, y, z),
         Equivalent(m, n)
  PROVE  NewNotificationStringFromAPI(m) = NewNotificationStringFromAPI(n)
<1>1. /\ m.type = "Email" /\ m.fields[1] = <<a>>
      /\ m.fields[2][1] = b /\ m.fields[3][1] = c
  BY DEF IsEmail
<1>2. /\ n.type = "Email" /\ n.fields[1] = <<x>>
      /\ n.fields[2][1] = y /\ n.fields[3][1] = z
  BY DEF IsEmail
<1>3. m.fields[1] = n.fields[1] /\ SameRecipients(b, y) /\ SameRecipients(c, z)
  BY <1>1, <1>2 DEF Equivalent
<1>4. a = x
  <2>1. <<a>>[1] = a /\ <<x>>[1] = x
    OBVIOUS
  <2>2. QED
    BY <1>1, <1>2, <1>3, <2>1
<1>5. Grouped(b, Alphabet) = Grouped(y, Alphabet)
      /\ Grouped(c, Alphabet) = Grouped(z, Alphabet)
  BY <1>3, SameRecipientsSorted DEF IsEmail
<1>6. (b = <<>> <=> y = <<>>) /\ (c = <<>> <=> z = <<>>)
  <2>1. \A s \in Seq(Pieces) : (\A piece \in ToSet(s) : IsWord(piece))
           => (Grouped(s, Alphabet) = <<>> <=> s = <<>>)
    BY RecipientsSorted, WordsAreNotBlank
  <2>2. QED
    BY <1>5, <2>1 DEF IsEmail
<1>7. NewNotificationStringFromAPI(m) =
           [type |-> "Email",
            parts |-> IF b = <<>> /\ c = <<>> THEN <<a>>
                      ELSE <<a, Grouped(b, Alphabet), Grouped(c, Alphabet)>>]
  BY TextOfEmail
<1>8. NewNotificationStringFromAPI(n) =
           [type |-> "Email",
            parts |-> IF y = <<>> /\ z = <<>> THEN <<x>>
                      ELSE <<x, Grouped(y, Alphabet), Grouped(z, Alphabet)>>]
  BY TextOfEmail
<1>9. QED
  BY <1>4, <1>5, <1>6, <1>7, <1>8

LEMMA OneIn ==
  ASSUME NEW X, NEW x \in X
  PROVE  /\ <<x>> \in Seq(X) /\ Len(<<x>>) = 1 /\ DOMAIN <<x>> = 1..1
         /\ <<x>>[1] = x /\ ToSet(<<x>>) = {x}
<1>1. <<x>> \in Seq(X) /\ Len(<<x>>) = 1 /\ DOMAIN <<x>> = 1..1 /\ <<x>>[1] = x
  OBVIOUS
<1>2. \A i \in 1..1 : i = 1
  OBVIOUS
<1>3. QED
  BY <1>1, <1>2 DEF ToSet

LEMMA TwoIn ==
  ASSUME NEW X, NEW x \in X, NEW y \in X
  PROVE  /\ <<x, y>> \in Seq(X) /\ Len(<<x, y>>) = 2 /\ DOMAIN <<x, y>> = 1..2
         /\ <<x, y>>[1] = x /\ <<x, y>>[2] = y
         /\ <<x>> \o <<y>> = <<x, y>>
<1>1. /\ <<x, y>> \in Seq(X) /\ Len(<<x, y>>) = 2 /\ DOMAIN <<x, y>> = 1..2
      /\ <<x, y>>[1] = x /\ <<x, y>>[2] = y
  OBVIOUS
<1>2. \A i \in 1..2 : i = 1 \/ i = 2
  OBVIOUS
<1>4. <<x>> \o <<y>> = <<x, y>>
  <2>1. <<x>> \in Seq(X) /\ <<y>> \in Seq(X) /\ Len(<<x>>) = 1
    OBVIOUS
  <2>2. <<x>> \o <<y>> = Append(<<x>>, y)
    BY <2>1
  <2>3. Append(<<x>>, y) = <<x, y>>
    <3> DEFINE s == Append(<<x>>, y)
               t == <<x, y>>
    <3>1. s \in Seq(X) /\ Len(s) = 2 /\ s[1] = x /\ s[2] = y
      BY <2>1
    <3>2. t \in Seq(X) /\ Len(t) = 2 /\ t[1] = x /\ t[2] = y
      OBVIOUS
    <3> HIDE DEF s, t
    <3>3. \A i \in 1..Len(s) : s[i] = t[i]
      BY <1>2, <3>1, <3>2
    <3>4. s = t
      BY <3>1, <3>2, <3>3, SeqEqual
    <3>5. QED
      BY <3>4 DEF s, t
  <2>4. QED
    BY <2>2, <2>3
<1>5. QED
  BY <1>1, <1>4

LEMMA ElementsOfTwo ==
  ASSUME NEW x, NEW y
  PROVE  ToSet(<<x, y>>) = {x, y}
<1>1. DOMAIN <<x, y>> = 1..2 /\ <<x, y>>[1] = x /\ <<x, y>>[2] = y
  OBVIOUS
<1>2. \A i \in 1..2 : i = 1 \/ i = 2
  OBVIOUS
<1>3. QED
  BY <1>1, <1>2 DEF ToSet

LEMMA ThreeIn ==
  ASSUME NEW X, NEW x \in X, NEW y \in X, NEW z \in X
  PROVE  /\ <<x, y, z>> \in Seq(X) /\ Len(<<x, y, z>>) = 3
         /\ <<x, y, z>>[1] = x /\ <<x, y, z>>[2] = y /\ <<x, y, z>>[3] = z
  OBVIOUS

LEMMA PiecesAre ==
  /\ "a" \in Pieces /\ "b" \in Pieces
  /\ " " \in Pieces /\ "#" \in Pieces
  /\ IsWord("a") /\ IsWord("b")
  /\ <<"a">> \in Seq(Pieces) /\ IsAddress(<<"a">>)
<1>1. ToSet(Order) = {"#", "a", "b"}
  BY AlphabetSplits
<1>2. /\ "a" \in Pieces /\ "b" \in Pieces
      /\ " " \in Pieces /\ "#" \in Pieces
  BY <1>1 DEF Pieces
<1>3. IsWord("a") /\ IsWord("b")
  BY DEF IsWord, Words
<1>4. <<"a">> \in Seq(Pieces) /\ Len(<<"a">>) = 1 /\ <<"a">>[1] = "a"
  BY <1>2, OneIn
<1>5. QED
  BY <1>2, <1>3, <1>4 DEF IsAddress

LEMMA ShortLists ==
  /\ <<>> \in Seq(Pieces)
  /\ <<"a">> \in Seq(Pieces) /\ <<"b">> \in Seq(Pieces)
  /\ <<"a", "#">> \in Seq(Pieces) /\ <<"#">> \in Seq(Pieces)
  /\ <<" ">> \in Seq(Pieces)
  /\ <<"a", "b">> \in Seq(Pieces) /\ <<"b", "a">> \in Seq(Pieces)
  /\ <<"b", " ">> \in Seq(Pieces)
  /\ ToSet(<<"b", "a">>) = {"b", "a"} /\ ToSet(<<"a", "#">>) = {"a", "#"}
<1>1. \A x, y \in Pieces : <<x>> \in Seq(Pieces) /\ <<x, y>> \in Seq(Pieces)
  OBVIOUS
<1>2. <<>> \in Seq(Pieces)
  OBVIOUS
<1>3. "a" \in Pieces /\ "b" \in Pieces
      /\ " " \in Pieces /\ "#" \in Pieces
  BY PiecesAre
<1>4. ToSet(<<"b", "a">>) = {"b", "a"} /\ ToSet(<<"a", "#">>) = {"a", "#"}
  BY ElementsOfTwo
<1>5. QED
  BY <1>1, <1>2, <1>3, <1>4

LEMMA TextsAreTexts == Texts \subseteq AnyText
<1>2. <<"a">> \in Seq(Pieces) /\ <<>> \in Seq(Pieces)
      /\ <<"b">> \in Seq(Pieces) /\ <<"#">> \in Seq(Pieces)
      /\ <<" ">> \in Seq(Pieces)
  BY ShortLists
<1>a. <<"a", "b">> \in Seq(Pieces) /\ <<"b", "a">> \in Seq(Pieces)
      /\ <<"b", " ">> \in Seq(Pieces)
  BY ShortLists
<1>1. Parts \subseteq Seq(Pieces) /\ RecipientParts \subseteq Seq(Pieces)
  BY <1>2, <1>a DEF Parts, RecipientParts, Empty
<1>3. /\ "PagerDuty" \in AnyType /\ "EmailTemplate" \in AnyType
      /\ "Slack" \in AnyType /\ "VictorOps" \in AnyType /\ "Opsgenie" \in AnyType
      /\ "Webhook" \in AnyType /\ "Email" \in AnyType /\ "Fax" \in AnyType
  BY DEF AnyType, Types, SinglePart
<1>4. ASSUME NEW S, S \subseteq Seq(Pieces), NEW n \in Nat, NEW f \in [1..n -> S]
      PROVE  f \in Seq(Seq(Pieces))
  <2>1. f \in [1..n -> Seq(Pieces)]
    BY <1>4
  <2>2. QED
    BY <2>1
<1>5. ASSUME NEW t \in [type : {"PagerDuty", "EmailTemplate", "Slack", "VictorOps"},
                        parts : UNION {[1..n -> Parts] : n \in 0..2}]
      PROVE  t \in AnyText
  <2>1. PICK n \in 0..2 : t.parts \in [1..n -> Parts]
    OBVIOUS
  <2>2. t.parts \in Seq(Seq(Pieces))
    BY <1>1, <1>4, <2>1
  <2>3. t.type \in AnyType /\ t = [type |-> t.type, parts |-> t.parts]
    BY <1>3
  <2>4. QED
    BY <2>2, <2>3 DEF AnyText
<1>6. ASSUME NEW t \in [type : {"Opsgenie", "Webhook"},
                        parts : UNION {[1..n -> {Empty, <<"a">>}] : n \in 3..4}]
      PROVE  t \in AnyText
  <2>1. PICK n \in 3..4 : t.parts \in [1..n -> {Empty, <<"a">>}]
    OBVIOUS
  <2>2. {Empty, <<"a">>} \subseteq Seq(Pieces)
    BY <1>2 DEF Empty
  <2>a. n \in Nat
    OBVIOUS
  <2>3. t.parts \in Seq(Seq(Pieces))
    BY <1>4, <2>1, <2>2, <2>a
  <2>4. t.type \in AnyType /\ t = [type |-> t.type, parts |-> t.parts]
    BY <1>3
  <2>5. QED
    BY <2>3, <2>4 DEF AnyText
<1>7. ASSUME NEW n \in 0..2, NEW rest \in [1..n -> RecipientParts]
      PROVE  [type |-> "Email", parts |-> <<<<"a">>>> \o rest] \in AnyText
  <2>1. rest \in Seq(Seq(Pieces))
    BY <1>1, <1>4
  <2>2. <<<<"a">>>> \in Seq(Seq(Pieces))
    BY <1>2, OneIn
  <2>3. <<<<"a">>>> \o rest \in Seq(Seq(Pieces))
    BY <2>1, <2>2
  <2>4. QED
    BY <1>3, <2>3 DEF AnyText
<1>8. /\ [type |-> "Email", parts |-> <<<<"#">>>>] \in AnyText
      /\ [type |-> "Email", parts |-> <<<<"a">>, Empty, Empty, Empty>>] \in AnyText
      /\ [type |-> "Slack", parts |-> <<<<"a">>, <<"b">>, Empty>>] \in AnyText
      /\ [type |-> "Fax", parts |-> <<<<"a">>>>] \in AnyText
  <2>1. \A p, q, r, s \in Seq(Pieces) :
           /\ <<p>> \in Seq(Seq(Pieces)) /\ <<p, q, r>> \in Seq(Seq(Pieces))
           /\ <<p, q, r, s>> \in Seq(Seq(Pieces))
    OBVIOUS
  <2>2. /\ <<<<"#">>>> \in Seq(Seq(Pieces)) /\ <<<<"a">>>> \in Seq(Seq(Pieces))
        /\ <<<<"a">>, <<>>, <<>>, <<>>>> \in Seq(Seq(Pieces))
        /\ <<<<"a">>, <<"b">>, <<>>>> \in Seq(Seq(Pieces))
    BY <1>2, <2>1
  <2>3. QED
    BY <1>3, <2>2 DEF AnyText, Empty
<1>9. SUFFICES ASSUME NEW t \in Texts PROVE t \in AnyText
  OBVIOUS
<1>10. \/ t \in [type : {"PagerDuty", "EmailTemplate", "Slack", "VictorOps"},
                  parts : UNION {[1..n -> Parts] : n \in 0..2}]
       \/ t \in [type : {"Opsgenie", "Webhook"},
                  parts : UNION {[1..n -> {Empty, <<"a">>}] : n \in 3..4}]
       \/ \E rest \in UNION {[1..n -> RecipientParts] : n \in 0..2} :
              t = [type |-> "Email", parts |-> <<<<"a">>>> \o rest]
       \/ t \in {[type |-> "Email", parts |-> <<<<"#">>>>],
                 [type |-> "Email", parts |-> <<<<"a">>, Empty, Empty, Empty>>],
                 [type |-> "Slack", parts |-> <<<<"a">>, <<"b">>, Empty>>],
                 [type |-> "Fax", parts |-> <<<<"a">>>>]}
  BY DEF Texts
<1>11. (\E rest \in UNION {[1..n -> RecipientParts] : n \in 0..2} :
              t = [type |-> "Email", parts |-> <<<<"a">>>> \o rest])
         => t \in AnyText
  BY <1>7
<1>12. QED
  BY <1>5, <1>6, <1>8, <1>10, <1>11

SaidBy(n, texts) ==
    \E t \in texts : Valid(t) /\ n = NewNotificationFromString(t)

\* A notification of the API: as many fields as its type has; the recipients
\* of an e-mail are words.
Fields(type) ==
    CASE type \in SinglePart \union {"EmailTemplate"} -> 1
      [] type \in {"Slack", "VictorOps"} -> 2
      [] type = "Webhook" -> 3
      [] OTHER -> 4
Plain(n) ==
    /\ n \in AnyNotification
    /\ n.type \in Types \ {"Email"}
    /\ Len(n.fields) = Fields(n.type)
Mail(n, address, cc, bcc) ==
    /\ n = [type |-> "Email", fields |-> <<<<address>>, <<cc>>, <<bcc>>>>]
    /\ address \in Seq(Pieces)
    /\ cc \in Seq(Pieces) /\ ToSet(cc) \subseteq ToSet(Order)
    /\ bcc \in Seq(Pieces) /\ ToSet(bcc) \subseteq ToSet(Order)
AreWords(part) == \A piece \in ToSet(part) : IsWord(piece)
IsMail(n) == \E address, cc, bcc : Mail(n, address, cc, bcc)
Shaped(n) == Plain(n) \/ IsMail(n)

\* What makes its text one that a block may have.
Sayable(n) ==
    NoCommas(n) /\ PlainChannel(n) /\ OneWay(n) /\ Understood(n) /\ NamedTemplate(n)

\* The parts of a text are the fields.
LEMMA TextOfPlain ==
  ASSUME NEW n, Plain(n), NoCommas(n),
         NEW t, t = NewNotificationStringFromAPI(n)
  PROVE  /\ t \in AnyText /\ t.type = n.type
         /\ DOMAIN t.parts = DOMAIN n.fields /\ Len(t.parts) = Fields(n.type)
         /\ DOMAIN n.fields = 1..Fields(n.type)
         /\ \A i \in DOMAIN n.fields : /\ n.fields[i][1] = t.parts[i]
                                       /\ n.fields[i] = <<t.parts[i]>>
                                       /\ t.parts[i] \in Seq(Pieces)
<1> DEFINE f == n.fields
           P == Seq(Pieces)
<1>1. /\ f \in Seq(Seq(P)) /\ n.type \in AnyType /\ n.type # "Email"
      /\ Len(f) = Fields(n.type) /\ DOMAIN f = 1..Len(f)
  BY DEF Plain, AnyNotification
<1>2. \A i \in DOMAIN f : f[i] \in Seq(P) /\ Len(f[i]) = 1
  BY <1>1 DEF NoCommas
<1> HIDE DEF P
<1>3. \A i \in DOMAIN f : f[i] = <<f[i][1]>> /\ f[i][1] \in P
  BY <1>2, OneElement
<1>4. FlattenSeq(f) = [i \in DOMAIN f |-> f[i][1]]
  BY <1>1, <1>2, FlattenSingletons
<1>5. t = [type |-> n.type, parts |-> [i \in DOMAIN f |-> f[i][1]]]
  BY <1>1, <1>4 DEF NewNotificationStringFromAPI
<1>6. [i \in DOMAIN f |-> f[i][1]] \in Seq(P)
  <2>1. [i \in DOMAIN f |-> f[i][1]] \in [1..Len(f) -> P]
    BY <1>1, <1>3
  <2>2. Len(f) \in Nat
    BY <1>1
  <2>3. QED
    BY <2>1, <2>2
<1>7. t \in AnyText
  BY <1>1, <1>5, <1>6 DEF AnyText, P
<1>8. DOMAIN t.parts = DOMAIN f /\ \A i \in DOMAIN f : t.parts[i] = f[i][1]
  BY <1>5
<1>9. Len(t.parts) = Len(f)
  <2>1. t.parts \in Seq(P) /\ DOMAIN t.parts = 1..Len(t.parts)
    BY <1>5, <1>6
  <2>2. Len(t.parts) \in Nat /\ Len(f) \in Nat
    BY <1>1, <2>1
  <2>3. QED
    BY <1>1, <1>8, <2>1, <2>2
<1>10. QED
  BY <1>1, <1>3, <1>5, <1>7, <1>8, <1>9 DEF P

\* If it is one, it says the notification.
LEMMA PlainSaid ==
  ASSUME NEW n, Plain(n), NoCommas(n),
         Valid(NewNotificationStringFromAPI(n))
  PROVE  SaidBy(n, AnyText)
<1> DEFINE t == NewNotificationStringFromAPI(n)
<1>1. /\ t \in AnyText /\ t.type = n.type
      /\ DOMAIN t.parts = DOMAIN n.fields /\ Len(t.parts) = Fields(n.type)
      /\ DOMAIN n.fields = 1..Fields(n.type)
      /\ \A i \in DOMAIN n.fields : n.fields[i] = <<t.parts[i]>>
  BY TextOfPlain
<1>2. Valid(t)
  OBVIOUS
<1> HIDE DEF t
<1>3. n = [type |-> n.type, fields |-> n.fields] /\ n.type # "Email"
      /\ n.fields = [i \in DOMAIN n.fields |-> n.fields[i]]
  BY DEF Plain, AnyNotification
<1>4. /\ NewNotificationFromString(t)
           = [type |-> t.type, fields |-> [i \in DOMAIN Kept(t) |-> <<Kept(t)[i]>>]]
      /\ t.type \notin SinglePart => Kept(t) = t.parts
      /\ t.type \in SinglePart => Kept(t) = <<t.parts[1]>>
  BY <1>1, <1>2, <1>3, PlainText
<1>a. DOMAIN t.parts = DOMAIN n.fields /\ t.type = n.type
  BY <1>1
<1>5. /\ DOMAIN Kept(t) = DOMAIN n.fields
      /\ \A i \in DOMAIN n.fields : Kept(t)[i] = t.parts[i]
  <2>1. CASE t.type \notin SinglePart
    BY <1>a, <1>4, <2>1
  <2>2. CASE t.type \in SinglePart
    <3>1. DOMAIN n.fields = 1..1
      <4>1. Fields(n.type) = 1
        BY <1>a, <2>2 DEF Fields, SinglePart
      <4>2. QED
        BY <1>1, <4>1
    <3>2. DOMAIN <<t.parts[1]>> = 1..1 /\ <<t.parts[1]>>[1] = t.parts[1]
      OBVIOUS
    <3>3. \A i \in 1..1 : i = 1
      OBVIOUS
    <3>4. QED
      BY <1>4, <2>2, <3>1, <3>2, <3>3
  <2>3. QED
    BY <2>1, <2>2
<1>6. [i \in DOMAIN Kept(t) |-> <<Kept(t)[i]>>] = [i \in DOMAIN n.fields |-> n.fields[i]]
  BY <1>1, <1>5
<1>7. NewNotificationFromString(t) = n
  BY <1>1, <1>3, <1>4, <1>6
<1>8. QED
  BY <1>1, <1>2, <1>7 DEF SaidBy

LEMMA PlainValid ==
  ASSUME NEW n, Plain(n), Sayable(n)
  PROVE  Valid(NewNotificationStringFromAPI(n))
<1> DEFINE t == NewNotificationStringFromAPI(n)
<1>1. /\ t \in AnyText /\ t.type = n.type
      /\ DOMAIN t.parts = DOMAIN n.fields /\ Len(t.parts) = Fields(n.type)
      /\ DOMAIN n.fields = 1..Fields(n.type)
      /\ \A i \in DOMAIN n.fields : /\ n.fields[i][1] = t.parts[i]
                                    /\ n.fields[i] = <<t.parts[i]>>
  BY TextOfPlain DEF Sayable
<1>0. SUFFICES Valid(t)
  OBVIOUS
<1> HIDE DEF t
<1>2. n.type \in Types \ {"Email"} /\ Fields(n.type) \in {1, 2, 3, 4}
  BY DEF Plain, Fields
<1>3. t.parts # <<>>
  <2>1. Len(<<>>) = 0
    OBVIOUS
  <2>2. QED
    BY <1>1, <1>2, <2>1
<1>4. t.type = n.type /\ Len(t.parts) = Fields(n.type)
  BY <1>1
<1>5. CASE n.type \in SinglePart
  BY <1>3, <1>4, <1>5 DEF Valid
<1>6. CASE n.type = "EmailTemplate"
  <2>1. Fields(n.type) = 1 /\ 1 \in DOMAIN n.fields
    BY <1>1, <1>6 DEF Fields
  <2>2. \E i \in DOMAIN t.parts[1] : ~IsBlank(t.parts[1][i])
    BY <1>1, <1>6, <2>1 DEF Sayable, NamedTemplate
  <2>3. QED
    BY <1>3, <1>4, <1>6, <2>1, <2>2 DEF Valid
<1>7. CASE n.type = "Slack"
  <2>0. "Slack" \notin SinglePart \union {"EmailTemplate"}
    BY DEF SinglePart
  <2>1. Fields(n.type) = 2 /\ 2 \in DOMAIN n.fields
    BY <1>1, <1>7, <2>0 DEF Fields
  <2>2. t.parts[2] \in ToSet(<<t.parts[2]>>)
    <3>1. 1 \in DOMAIN <<t.parts[2]>> /\ <<t.parts[2]>>[1] = t.parts[2]
      OBVIOUS
    <3>2. QED
      BY <3>1 DEF ToSet
  <2>3. \A i \in DOMAIN t.parts[2] : t.parts[2][i] # "#"
    BY <1>1, <1>7, <2>1, <2>2 DEF Sayable, PlainChannel
  <2>4. QED
    BY <1>3, <1>4, <1>7, <2>1, <2>3 DEF Valid
<1>8. CASE n.type = "VictorOps"
  <2>1. "VictorOps" \notin SinglePart \union {"EmailTemplate"}
    BY DEF SinglePart
  <2>2. Fields(n.type) = 2
    BY <1>8, <2>1 DEF Fields
  <2>3. QED
    BY <1>3, <1>4, <1>8, <2>2 DEF Valid
<1>9. CASE n.type = "Opsgenie"
  <2>1. "Opsgenie" \notin SinglePart \union {"EmailTemplate"}
    BY DEF SinglePart
  <2>2. Fields(n.type) = 4
    BY <1>9, <2>1 DEF Fields
  <2>3. QED
    BY <1>3, <1>4, <1>9, <2>2 DEF Valid
<1>10. CASE n.type = "Webhook"
  <2>0. "Webhook" \notin SinglePart \union {"EmailTemplate"}
    BY DEF SinglePart
  <2>1. Fields(n.type) = 3 /\ 1 \in DOMAIN n.fields /\ 3 \in DOMAIN n.fields
    BY <1>1, <1>10, <2>0 DEF Fields
  <2>2. (n.fields[1] = <<Empty>>) # (n.fields[3] = <<Empty>>)
    BY <1>10 DEF Sayable, OneWay
  <2>3. n.fields[3] = <<Empty>> \/ IsAddress(n.fields[3][1])
    BY <1>10 DEF Sayable, Understood
  <2>4. /\ n.fields[1] = <<Empty>> <=> t.parts[1] = Empty
        /\ n.fields[3] = <<Empty>> <=> t.parts[3] = Empty
    <3>1. /\ n.fields[1] = <<t.parts[1]>> /\ n.fields[3] = <<t.parts[3]>>
          /\ n.fields[1][1] = t.parts[1] /\ n.fields[3][1] = t.parts[3]
      BY <1>1, <2>1
    <3>2. <<Empty>>[1] = Empty
      OBVIOUS
    <3>3. QED
      BY <3>1, <3>2
  <2>5. (t.parts[1] = Empty) # (t.parts[3] = Empty)
    BY <2>2, <2>4
  <2>6. t.parts[3] # Empty => IsAddress(t.parts[3])
    BY <1>1, <2>1, <2>3, <2>4
  <2>7. ValidWebhook(t.parts)
    BY <1>4, <2>1, <2>5, <2>6 DEF ValidWebhook
  <2>8. QED
    BY <1>3, <1>4, <1>10, <2>7 DEF Valid
<1>11. QED
  BY <1>2, <1>5, <1>6, <1>7, <1>8, <1>9, <1>10 DEF Types

\* An e-mail's text is one of a block only if all its recipients are addresses.
LEMMA MailValid ==
  ASSUME NEW n, NEW address, NEW cc, NEW bcc, Mail(n, address, cc, bcc),
         Valid(NewNotificationStringFromAPI(n))
  PROVE  IsAddress(address) /\ AreWords(cc) /\ AreWords(bcc)
<1> DEFINE x == Grouped(cc, Alphabet)
           y == Grouped(bcc, Alphabet)
           t == NewNotificationStringFromAPI(n)
<1>1. /\ n.type = "Email" /\ n.fields[1] = <<address>>
      /\ n.fields[2] = <<cc>> /\ n.fields[3] = <<bcc>>
  BY DEF Mail
<1>2. /\ formatEmailRecipientList(n.fields[2]) = x
      /\ formatEmailRecipientList(n.fields[3]) = y
  BY <1>1 DEF formatEmailRecipientList
<1>3. /\ (x = <<>> <=> cc = <<>>) /\ (AreRecipients(x) <=> AreWords(cc))
      /\ (y = <<>> <=> bcc = <<>>) /\ (AreRecipients(y) <=> AreWords(bcc))
  BY RecipientsSorted DEF Mail, AreWords
<1> HIDE DEF x, y
<1>4. <<address>> \o <<x, y>> = <<address, x, y>>
  BY OneAndTwo
<1>5. formatEmail(n) = IF cc = <<>> /\ bcc = <<>> THEN <<address>>
                       ELSE <<address, x, y>>
  BY <1>1, <1>2, <1>3, <1>4 DEF formatEmail, Empty
<1>6. t.type = "Email" /\ t.parts = formatEmail(n) /\ Valid(t)
  BY <1>1 DEF NewNotificationStringFromAPI
<1> HIDE DEF t
<1>7. ValidEmail(formatEmail(n))
  BY <1>6 DEF Valid, SinglePart
<1>8. CASE cc = <<>> /\ bcc = <<>>
  <2>1. <<address>>[1] = address
    OBVIOUS
  <2>2. IsAddress(address)
    BY <1>5, <1>7, <1>8, <2>1 DEF ValidEmail
  <2>3. QED
    BY <1>8, <2>2, NoRecipients DEF AreWords, Empty
<1>9. CASE ~(cc = <<>> /\ bcc = <<>>)
  <2>1. /\ <<address, x, y>>[1] = address /\ <<address, x, y>>[2] = x
        /\ <<address, x, y>>[3] = y /\ Len(<<address, x, y>>) = 3
        /\ 2 \in 2..3 /\ 3 \in 2..3
    OBVIOUS
  <2>2. IsAddress(address) /\ AreRecipients(x) /\ AreRecipients(y)
    BY <1>5, <1>7, <1>9, <2>1 DEF ValidEmail
  <2>3. QED
    BY <1>3, <2>2
<1>10. QED
  BY <1>8, <1>9

LEMMA MailSaid ==
  ASSUME NEW n, NEW address, NEW cc, NEW bcc, Mail(n, address, cc, bcc),
         IsAddress(address), AreWords(cc), AreWords(bcc)
  PROVE  IsEmail(n, address, cc, bcc) /\ SaidBy(n, AnyText)
<1> DEFINE t == [type |-> "Email", parts |-> <<address, cc, bcc>>]
<1>1. /\ address \in Seq(Pieces)
      /\ cc \in Seq(Pieces) /\ \A piece \in ToSet(cc) : IsWord(piece)
      /\ bcc \in Seq(Pieces) /\ \A piece \in ToSet(bcc) : IsWord(piece)
  BY DEF Mail, AreWords
<1>2. Recipients(cc) = cc /\ Recipients(bcc) = bcc
  BY <1>1, RecipientsKept, WordsAreNotBlank
<1>3. AreRecipients(cc) /\ AreRecipients(bcc)
  BY <1>1, <1>2 DEF AreRecipients
<1>4. /\ t.type = "Email" /\ Len(t.parts) = 3 /\ t.parts # <<>>
      /\ t.parts[1] = address /\ t.parts[2] = cc /\ t.parts[3] = bcc
  OBVIOUS
<1>5. t.parts \in Seq(Seq(Pieces))
  BY <1>1, ThreeIn
<1>6. t \in AnyText
  BY <1>5 DEF AnyText, AnyType, Types
<1> HIDE DEF t
<1>7. ValidEmail(t.parts)
  <2>1. \A i \in 2..3 : i = 2 \/ i = 3
    OBVIOUS
  <2>2. IsAddress(t.parts[1]) /\ Len(t.parts) \in 1..3
    BY <1>4
  <2>3. \A i \in 2..Len(t.parts) : AreRecipients(t.parts[i])
    BY <1>3, <1>4, <2>1
  <2>4. QED
    BY <2>2, <2>3 DEF ValidEmail
<1>8. Valid(t)
  BY <1>4, <1>7 DEF Valid
<1>9. IsEmail(NewNotificationFromString(t), t.parts[1], NamedAt(t, 2), NamedAt(t, 3))
  BY <1>4, <1>6, <1>8, EmailText
<1>10. NamedAt(t, 2) = cc /\ NamedAt(t, 3) = bcc
  BY <1>2, <1>4 DEF NamedAt
<1>11. n = NewNotificationFromString(t)
  BY <1>4, <1>9, <1>10 DEF IsEmail, Mail
<1>12. IsEmail(n, address, cc, bcc)
  BY <1>1, <1>2 DEF IsEmail, Mail
<1>13. QED
  BY <1>6, <1>8, <1>11, <1>12 DEF SaidBy

\* A notification whose text a block may have is what the text says, but for
\* commas; and a block may have the text of every one that can be said.
LEMMA TextsSay ==
  ASSUME NEW n, Shaped(n)
  PROVE  /\ NoCommas(n) /\ Valid(NewNotificationStringFromAPI(n))
               => SaidBy(n, AnyText)
         /\ Sayable(n) => SaidBy(n, AnyText)
<1>1. CASE Plain(n)
  BY <1>1, PlainSaid, PlainValid DEF Sayable
<1>2. ASSUME NEW address, NEW cc, NEW bcc, Mail(n, address, cc, bcc)
      PROVE  /\ Valid(NewNotificationStringFromAPI(n)) => SaidBy(n, AnyText)
             /\ Sayable(n) => SaidBy(n, AnyText)
  <2>1. Valid(NewNotificationStringFromAPI(n)) => SaidBy(n, AnyText)
    BY <1>2, MailValid, MailSaid
  <2>2. /\ n.type = "Email" /\ n.fields[1][1] = address
        /\ n.fields[2][1] = cc /\ n.fields[3][1] = bcc
    BY <1>2 DEF Mail
  <2>3. /\ AreRecipients(cc) <=> AreWords(cc)
        /\ AreRecipients(bcc) <=> AreWords(bcc)
    BY <1>2, ListedRecipients DEF Mail, AreWords
  <2>4. Sayable(n) => IsAddress(address) /\ AreWords(cc) /\ AreWords(bcc)
    BY <2>2, <2>3 DEF Sayable, Understood
  <2>5. QED
    BY <1>2, <2>1, <2>4, MailSaid
<1>3. QED
  BY <1>1, <1>2 DEF Shaped, IsMail

\* What others may leave is shaped, unless it is of a type the provider does
\* not know.
LEMMA OthersAreShaped ==
  ASSUME NEW n \in OtherNotifications, Writable(n)
  PROVE  Shaped(n)
<1> DEFINE P == Seq(Pieces)
           F == Seq(P)
<1>1. /\ <<"a">> \in P /\ <<"b">> \in P /\ <<"#">> \in P /\ <<" ">> \in P
      /\ Empty \in P
  BY ShortLists DEF Empty
<1>2. <<"b", "a">> \in P /\ <<"a", "#">> \in P
  BY ShortLists
<1> HIDE DEF P
<1>3. \A p, q \in P : <<p>> \in F /\ <<p, q>> \in F
  OBVIOUS
<1> HIDE DEF F
<1>4. \A f, g, h \in F : /\ <<f, g>> \in Seq(F) /\ Len(<<f, g>>) = 2
                         /\ <<f, g, h>> \in Seq(F) /\ Len(<<f, g, h>>) = 3
  OBVIOUS
<1>5. ASSUME NEW f \in [1..1 -> F] PROVE f \in Seq(F) /\ Len(f) = 1
  <2>1. 1 \in Nat /\ f \in [1..1 -> F]
    BY <1>5
  <2>2. f \in Seq(F)
    BY <2>1
  <2>3. Len(f) \in Nat /\ DOMAIN f = 1..Len(f) /\ DOMAIN f = 1..1
    BY <2>1, <2>2
  <2>4. QED
    BY <2>2, <2>3
<1>6. /\ \A type \in SinglePart \union {"EmailTemplate"} : Fields(type) = 1
      /\ Fields("Slack") = 2 /\ Fields("Webhook") = 3
  BY DEF Fields, SinglePart
<1>7. /\ \A type \in Types : type \in AnyType
      /\ {"PagerDuty", "EmailTemplate", "Slack", "Webhook"}
             \subseteq Types \ {"Email"}
      /\ "PagerDuty" \in SinglePart
  BY DEF Types, AnyType, SinglePart
<1>8. ASSUME NEW type \in Types \ {"Email"}, NEW fields \in Seq(F),
             Len(fields) = Fields(type),
             n = [type |-> type, fields |-> fields]
      PROVE  Plain(n)
  BY <1>7, <1>8 DEF Plain, AnyNotification, F, P
<1>9. CASE n \in [type : {"PagerDuty"},
                  fields : [1..1 -> {<<<<"a">>>>, <<<<"a">>, <<"a">>>>}]]
  <2>1. {<<<<"a">>>>, <<<<"a">>, <<"a">>>>} \subseteq F
    BY <1>1, <1>3
  <2>2. n = [type |-> "PagerDuty", fields |-> n.fields] /\ n.fields \in [1..1 -> F]
    BY <1>9, <2>1
  <2>3. QED
    BY <1>5, <1>6, <1>7, <1>8, <2>2 DEF Shaped
<1>10. CASE n \in [type : {"EmailTemplate"},
                   fields : [1..1 -> {<<<<"a">>>>, <<<<" ">>>>}]]
  <2>1. {<<<<"a">>>>, <<<<" ">>>>} \subseteq F
    BY <1>1, <1>3
  <2>2. n = [type |-> "EmailTemplate", fields |-> n.fields]
        /\ n.fields \in [1..1 -> F]
    BY <1>10, <2>1
  <2>3. QED
    BY <1>5, <1>6, <1>7, <1>8, <2>2 DEF Shaped
<1>11. ASSUME NEW channel \in {<<<<"b">>>>, <<<<"#">>>>, <<<<"a">>, <<"b">>>>},
              n = [type |-> "Slack", fields |-> <<<<<<"a">>>>, channel>>]
       PROVE  Shaped(n)
  <2>1. <<<<"a">>>> \in F /\ channel \in F
    BY <1>1, <1>3
  <2> DEFINE fields == <<<<<<"a">>>>, channel>>
  <2>2. fields \in Seq(F) /\ Len(fields) = 2
    BY <1>4, <2>1
  <2> HIDE DEF fields
  <2>3. n = [type |-> "Slack", fields |-> fields]
    BY <1>11 DEF fields
  <2>4. QED
    BY <1>6, <1>7, <1>8, <2>2, <2>3 DEF Shaped
<1>12. ASSUME NEW id \in {Empty, <<"a">>}, NEW url \in Parts,
              n = [type |-> "Webhook", fields |-> <<<<id>>, <<Empty>>, <<url>>>>]
       PROVE  Shaped(n)
  <2>1. <<id>> \in F /\ <<Empty>> \in F /\ <<url>> \in F
    BY <1>1, <1>3 DEF Parts
  <2> DEFINE fields == <<<<id>>, <<Empty>>, <<url>>>>
  <2>2. fields \in Seq(F) /\ Len(fields) = 3
    BY <1>4, <2>1
  <2> HIDE DEF fields
  <2>3. n = [type |-> "Webhook", fields |-> fields]
    BY <1>12 DEF fields
  <2>4. QED
    BY <1>6, <1>7, <1>8, <2>2, <2>3 DEF Shaped
<1>13. ASSUME NEW address \in {<<"a">>, <<"#">>},
              NEW cc \in {Empty, <<"b", "a">>, <<"a", "#">>},
              NEW bcc \in {Empty, <<"b">>},
              n = [type |-> "Email", fields |-> <<<<address>>, <<cc>>, <<bcc>>>>]
       PROVE  Shaped(n)
  <2>1. /\ ToSet(<<>>) = {} /\ ToSet(<<"b", "a">>) = {"b", "a"}
        /\ ToSet(<<"a", "#">>) = {"a", "#"} /\ ToSet(<<"b">>) = {"b"}
    BY NoRecipients, ShortLists, PiecesAre, OneIn
  <2>2. ToSet(cc) \subseteq ToSet(Order) /\ ToSet(bcc) \subseteq ToSet(Order)
    BY <2>1, AlphabetSplits DEF Empty
  <2>3. address \in Seq(Pieces) /\ cc \in Seq(Pieces) /\ bcc \in Seq(Pieces)
    BY <1>1, <1>2 DEF P
  <2>4. Mail(n, address, cc, bcc)
    BY <1>13, <2>2, <2>3 DEF Mail
  <2>5. QED
    BY <2>4 DEF Shaped, IsMail
<1>14. CASE n.type = "Fax"
  BY <1>14 DEF Writable, Types, SinglePart
<1>15. n \in OneFields => Shaped(n)
  BY <1>9, <1>10 DEF OneFields
<1>16. n \in Channels => Shaped(n)
  BY <1>11 DEF Channels
<1>17. n \in Webhooks => Shaped(n)
  BY <1>12 DEF Webhooks
<1>18. n \in Emails \union Misaddressed => Shaped(n)
  BY <1>13 DEF Emails, Misaddressed
<1>19. n \in Faxes => n.type = "Fax"
  BY DEF Faxes
<1>20. QED
  BY <1>14, <1>15, <1>16, <1>17, <1>18, <1>19 DEF OtherNotifications

----------------------------------------------------------------------------
(* Alert rules and targets of SLOs.                                        *)

AnyRule == [type : ToSet(RuleTypes), notify : Notes]
AnySlo == [target : Targets, rules : Seq(AnyRule)]

LEMMA TypesSplit ==
  /\ Disjoint(RulesByType)
  /\ \A k \in 1..3 : RulesByType[k] # {}
  /\ \A k \in 1..3 : \A rule \in RulesByType[k] : TypeRank(rule) = k
  /\ \A rule \in AnyRule : \E k \in 1..3 : rule \in RulesByType[k]
<1>1. /\ DOMAIN RuleTypes = 1..3 /\ RuleTypes[1] = "BREACH"
      /\ RuleTypes[2] = "BURN_RATE" /\ RuleTypes[3] = "ERROR_BUDGET_LEFT"
  BY DEF RuleTypes
<1>2. \A k \in 1..3 : k = 1 \/ k = 2 \/ k = 3
  OBVIOUS
<1>3. \A i, j \in 1..3 : RuleTypes[i] = RuleTypes[j] => i = j
  BY <1>1, <1>2
<1>4. /\ RulesByType = [k \in 1..3 |-> [type : {RuleTypes[k]}, notify : Notes]]
      /\ Len(RulesByType) = 3
  BY <1>1 DEF RulesByType
<1>5. \A k \in 1..3 : RulesByType[k] = [type : {RuleTypes[k]}, notify : Notes]
  BY <1>4
<1>6. ASSUME NEW k \in 1..3, NEW rule \in RulesByType[k]
      PROVE  rule.type = RuleTypes[k]
  <2>1. rule \in [type : {RuleTypes[k]}, notify : Notes]
    BY <1>5
  <2>2. QED
    BY <2>1
<1>7. Disjoint(RulesByType)
  BY <1>3, <1>4, <1>6 DEF Disjoint
<1>8. ASSUME NEW k \in 1..3 PROVE RulesByType[k] # {}
  <2>1. "a" \in Notes
    BY DEF Notes
  <2>2. [type |-> RuleTypes[k], notify |-> "a"] \in RulesByType[k]
    BY <1>5, <2>1
  <2>3. QED
    BY <2>2
<1>9. \A k \in 1..3 : \A rule \in RulesByType[k] : TypeRank(rule) = k
  BY <1>1, <1>3, <1>6 DEF TypeRank
<1>10. \A rule \in AnyRule : \E k \in 1..3 : rule \in RulesByType[k]
  <2>1. SUFFICES ASSUME NEW rule \in AnyRule
                 PROVE  \E k \in 1..3 : rule \in RulesByType[k]
    OBVIOUS
  <2>2. PICK k \in 1..3 : rule.type = RuleTypes[k]
    BY <1>1 DEF AnyRule, ToSet
  <2>3. rule \in [type : {RuleTypes[k]}, notify : Notes]
    BY <2>2 DEF AnyRule
  <2>4. QED
    BY <1>5, <2>3
<1>11. QED
  BY <1>7, <1>8, <1>9, <1>10

LEMMA RulesSorted ==
  ASSUME NEW rules \in Seq(AnyRule)
  PROVE  /\ SortedByType(rules) \in Seq(AnyRule)
         /\ SortedByType(SortedByType(rules)) = SortedByType(rules)
<1>1. Len(RulesByType) = 3
  BY TypesSplit DEF Disjoint
<1>2. Grouped(rules, RulesByType) \in Seq(AnyRule)
  BY <1>1, GroupedByThree
<1>3. Grouped(Grouped(rules, RulesByType), RulesByType)
         = Grouped(rules, RulesByType)
  BY TypesSplit, GroupedAgain
<1>4. QED
  BY <1>2, <1>3 DEF SortedByType

LEMMA SortedRulesStay ==
  ASSUME NEW rules \in Seq(AnyRule),
         \A i, j \in DOMAIN rules :
             i < j => TypeRank(rules[i]) <= TypeRank(rules[j])
  PROVE  SortedByType(rules) = rules
<1>1. InOrder(rules, RulesByType)
  <2>1. SUFFICES ASSUME NEW i \in 1..Len(rules), NEW j \in 1..Len(rules),
                        NEW k \in 1..3, NEW l \in 1..3, i < j,
                        rules[i] \in RulesByType[k],
                        rules[j] \in RulesByType[l]
                 PROVE  k <= l
    BY DEF InOrder
  <2>2. TypeRank(rules[i]) = k /\ TypeRank(rules[j]) = l
    BY <2>1, TypesSplit
  <2>3. TypeRank(rules[i]) <= TypeRank(rules[j])
    BY <2>1
  <2>4. QED
    BY <2>2, <2>3
<1>2. QED
  BY <1>1, TypesSplit, GroupedInOrder DEF SortedByType

LEMMA TargetsKept ==
  ASSUME NEW target \in Targets
  PROVE  /\ TargetFields(target) \in Targets
         /\ TargetFields(TargetFields(target)) = TargetFields(target)
<1>1. Unset \in {Unset, "7d"} /\ Unset \in {Unset, "week"}
  OBVIOUS
<1>2. CASE target.type = "RollingWindow"
  <2> DEFINE u == [target EXCEPT !.cycle = Unset]
  <2>1. u \in Targets /\ u.type = "RollingWindow" /\ u.cycle = Unset
    BY <1>1, <1>2 DEF Targets
  <2>2. [u EXCEPT !.cycle = Unset] = u
    BY <2>1 DEF Targets
  <2> HIDE DEF u
  <2>3. TargetFields(u) = u
    BY <2>1, <2>2 DEF TargetFields
  <2>4. TargetFields(target) = u
    BY <1>2 DEF TargetFields, u
  <2>5. QED
    BY <2>1, <2>3, <2>4
<1>3. CASE target.type # "RollingWindow"
  <2> DEFINE u == [target EXCEPT !.period = Unset]
  <2>1. u \in Targets /\ u.type # "RollingWindow" /\ u.period = Unset
    BY <1>1, <1>3 DEF Targets
  <2>2. [u EXCEPT !.period = Unset] = u
    BY <2>1 DEF Targets
  <2> HIDE DEF u
  <2>3. TargetFields(u) = u
    BY <2>1, <2>2 DEF TargetFields
  <2>4. TargetFields(target) = u
    BY <1>3 DEF TargetFields, u
  <2>5. QED
    BY <2>1, <2>3, <2>4
<1>4. QED
  BY <1>2, <1>3

LEMMA SettledTargetsStay ==
  ASSUME NEW slo \in AnySlo, Settles(slo)
  PROVE  TargetFields(slo.target) = slo.target
<1> DEFINE target == slo.target
<1>1. target \in Targets
  BY DEF AnySlo
<1>2. /\ target.type = "RollingWindow" => target.cycle = Unset
      /\ target.type = "CalendarWindow" => target.period = Unset
      /\ target.type \in {"RollingWindow", "CalendarWindow"}
  BY <1>1 DEF Settles, Targets
<1> HIDE DEF target
<1>3. CASE target.type = "RollingWindow"
  <2>1. [target EXCEPT !.cycle = Unset] = target
    BY <1>1, <1>2, <1>3 DEF Targets
  <2>2. QED
    BY <1>3, <2>1 DEF TargetFields, target
<1>4. CASE target.type # "RollingWindow"
  <2>1. [target EXCEPT !.period = Unset] = target
    BY <1>1, <1>2, <1>4 DEF Targets
  <2>2. QED
    BY <1>4, <2>1 DEF TargetFields, target
<1>5. QED
  BY <1>3, <1>4

(* A reply that says what a settled SLO says is read as that SLO, in       *)
(* whatever order its rules come back.                                     *)
THEOREM SettledSloComesBack ==
  ASSUME NEW slo \in AnySlo, Settles(slo), NEW reply \in AnySlo,
         SameRules(reply, getApiTargets(slo))
  PROVE  getTfTargets(reply) = slo
<1>1. slo = [target |-> slo.target, rules |-> slo.rules]
      /\ slo.rules \in Seq(AnyRule) /\ slo.target \in Targets
  BY DEF AnySlo
<1>2. /\ reply.target = TargetFields(slo.target)
      /\ SortedByType(reply.rules) = SortedByType(slo.rules)
  BY DEF SameRules, getApiTargets
<1>3. SortedByType(slo.rules) = slo.rules
  BY <1>1, SortedRulesStay DEF Settles
<1>4. TargetFields(slo.target) = slo.target
  BY SettledTargetsStay
<1>5. QED
  BY <1>1, <1>2, <1>3, <1>4 DEF getTfTargets

(* An SLO read from a reply says what the reply says.                      *)
THEOREM SloReadSaysTheSame ==
  ASSUME NEW reply \in AnySlo, TargetFields(reply.target) = reply.target
  PROVE  SameRules(reply, getApiTargets(getTfTargets(reply)))
<1>1. reply.rules \in Seq(AnyRule)
  BY DEF AnySlo
<1>2. getApiTargets(getTfTargets(reply)) =
        [target |-> TargetFields(TargetFields(reply.target)),
         rules |-> SortedByType(reply.rules)]
  BY DEF getApiTargets, getTfTargets
<1>3. SortedByType(SortedByType(reply.rules)) = SortedByType(reply.rules)
  BY <1>1, RulesSorted
<1>4. QED
  BY <1>2, <1>3 DEF SameRules

LEMMA SlosAreSlos == Slos \subseteq AnySlo
<1>1. SomeRules \subseteq AnyRule
  <2>1. DOMAIN RuleTypes = 1..3 /\ RuleTypes[1] = "BREACH"
        /\ RuleTypes[3] = "ERROR_BUDGET_LEFT"
    BY DEF RuleTypes
  <2>2. "BREACH" \in ToSet(RuleTypes) /\ "ERROR_BUDGET_LEFT" \in ToSet(RuleTypes)
    <3>1. 1 \in 1..3 /\ 3 \in 1..3
      OBVIOUS
    <3>2. QED
      BY <2>1, <3>1 DEF ToSet
  <2>3. "a" \in Notes /\ "b" \in Notes
    BY DEF Notes
  <2>4. QED
    BY <2>2, <2>3 DEF SomeRules, Rule, AnyRule
<1>2. SUFFICES ASSUME NEW slo \in Slos PROVE slo \in AnySlo
  OBVIOUS
<1>3. PICK n \in 1..2 : slo.rules \in [1..n -> SomeRules]
  BY DEF Slos
<1>4. n \in Nat /\ slo.rules \in [1..n -> AnyRule]
  BY <1>1, <1>3
<1>5. slo.rules \in Seq(AnyRule)
  BY <1>4
<1>6. slo \in [target : Targets, rules : UNION {[1..m -> SomeRules] : m \in 1..2}]
  BY DEF Slos
<1>7. slo = [target |-> slo.target, rules |-> slo.rules] /\ slo.target \in Targets
  BY <1>6
<1>8. QED
  BY <1>5, <1>7 DEF AnySlo

\* What the API may hold in the place of an SLO.
AnyReply == {reply \in AnySlo : TargetFields(reply.target) = reply.target}

LEMMA SentAreReplies ==
  ASSUME NEW slo \in AnySlo
  PROVE  getApiTargets(slo) \in AnyReply
<1>1. slo.target \in Targets /\ slo.rules \in Seq(AnyRule)
  BY DEF AnySlo
<1>2. QED
  BY <1>1, TargetsKept DEF getApiTargets, AnyReply, AnySlo

LEMMA OthersAreReplies ==
  /\ OtherReplies \subseteq AnyReply
  /\ \A reply \in AnyReply :
        Reordered(reply) \union {[reply EXCEPT !.rules = <<>>]} \subseteq AnyReply
<1>1. OtherReplies \subseteq AnyReply
  <2>1. Rule("BURN_RATE", "a") \in AnyRule /\ Rule("BREACH", "b") \in AnyRule
    <3>1. DOMAIN RuleTypes = 1..3 /\ RuleTypes[1] = "BREACH"
          /\ RuleTypes[2] = "BURN_RATE"
      BY DEF RuleTypes
    <3>2. 1 \in 1..3 /\ 2 \in 1..3
      OBVIOUS
    <3>3. "BREACH" \in ToSet(RuleTypes) /\ "BURN_RATE" \in ToSet(RuleTypes)
      BY <3>1, <3>2 DEF ToSet
    <3>4. "a" \in Notes /\ "b" \in Notes
      BY DEF Notes
    <3>5. QED
      BY <3>3, <3>4 DEF Rule, AnyRule
  <2>2. ASSUME NEW t \in Targets
        PROVE  getApiTargets([target |-> t, rules |-> <<Rule("BURN_RATE", "a"),
                                                        Rule("BREACH", "b")>>])
                 \in AnyReply
    <3>1. <<Rule("BURN_RATE", "a"), Rule("BREACH", "b")>> \in Seq(AnyRule)
      BY <2>1
    <3>2. [target |-> t, rules |-> <<Rule("BURN_RATE", "a"), Rule("BREACH", "b")>>]
             \in AnySlo
      BY <3>1 DEF AnySlo
    <3>3. QED
      BY <3>2, SentAreReplies
  <2>3. QED
    BY <2>2 DEF OtherReplies
<1>2. ASSUME NEW reply \in AnyReply
      PROVE  Reordered(reply) \union {[reply EXCEPT !.rules = <<>>]} \subseteq AnyReply
  <2>1. /\ reply = [target |-> reply.target, rules |-> reply.rules]
        /\ reply.target \in Targets /\ reply.rules \in Seq(AnyRule)
        /\ TargetFields(reply.target) = reply.target
    BY DEF AnyReply, AnySlo
  <2>2. ASSUME NEW rules \in Seq(AnyRule)
        PROVE  [reply EXCEPT !.rules = rules] \in AnyReply
    BY <2>1 DEF AnyReply, AnySlo
  <2>3. Reverse(reply.rules) \in Seq(AnyRule)
    <3> DEFINE r == reply.rules
               m == Len(r)
    <3>1. m \in Nat /\ r \in Seq(AnyRule)
      BY <2>1
    <3>2. \A i \in 1..m : (m - i) + 1 \in 1..m
      BY <3>1
    <3>3. \A i \in 1..m : r[(m - i) + 1] \in AnyRule
      BY <3>1, <3>2, ElementOfSeq
    <3>4. Reverse(r) = [i \in 1..m |-> r[(m - i) + 1]]
      BY DEF Reverse
    <3> HIDE DEF r, m
    <3>5. [i \in 1..m |-> r[(m - i) + 1]] \in [1..m -> AnyRule]
      BY <3>3
    <3>6. QED
      BY <3>1, <3>4, <3>5 DEF r, m
  <2>4. <<>> \in Seq(AnyRule)
    OBVIOUS
  <2>5. Reordered(reply) = {[reply EXCEPT !.rules = Reverse(reply.rules)]}
    BY DEF Reordered
  <2>6. QED
    BY <2>2, <2>3, <2>4, <2>5
<1>3. QED
  BY <1>1, <1>2

----------------------------------------------------------------------------
(* Times and layouts.                                                      *)

\* A migrated entry may hold any range.
IsTime(e) == e = [range |-> e.range, start |-> e.start, end |-> e.end]

\* Numbers that an integer of the program holds.
LEMMA FitsIn ==
  ASSUME NEW max \in Nat, NEW n \in Int, -max <= n, n <= max
  PROVE  Wrapped(n, max) = n
<1> DEFINE x == n + max + 1
           D == 2 * max + 2
<1>1. x \in Nat /\ D \in Nat /\ D > 0 /\ x < D
  OBVIOUS
<1>2. x % D = x
  <2> HIDE DEF x, D
  <2>1. QED
    BY <1>1
<1>3. QED
  BY <1>2 DEF Wrapped

LEMMA WrappedStays ==
  ASSUME NEW max \in Nat, NEW n \in Int
  PROVE  Wrapped(n, max) \in Int /\ Wrapped(n, max) <= max
<1> DEFINE x == n + max + 1
           D == 2 * max + 2
           r == x % D
<1>1. x \in Int /\ D \in Nat /\ D > 0
  OBVIOUS
<1>2. r \in Int /\ r < D
  <2> HIDE DEF x, D
  <2>1. QED
    BY <1>1
<1>3. Wrapped(n, max) = r - max - 1
  BY DEF Wrapped
<1> HIDE DEF x, r
<1>4. QED
  BY <1>2, <1>3

LEMMA SecondsComeBack ==
  ASSUME NEW s \in Nat
  PROVE  /\ s * PerSecond \in Nat
         /\ (s * PerSecond) \div PerSecond = s
         /\ Quotient(s * PerSecond, PerSecond) = s
<1>1. PerSecond \in Nat /\ PerSecond > 0
  BY PerSecondAssumption
<1> DEFINE p == s * PerSecond
           q == p \div PerSecond
<1>2. p \in Nat
  BY <1>1
<1>3. q \in Int /\ q * PerSecond <= p /\ p < q * PerSecond + PerSecond
  <2> HIDE DEF p
  <2>1. QED
    BY <1>1, <1>2
<1> HIDE DEF q
<1>4. q * PerSecond <= s * PerSecond /\ s * PerSecond < (q + 1) * PerSecond
  BY <1>1, <1>3
<1>5. \A x, y \in Int : x < y => x * PerSecond + PerSecond <= y * PerSecond
  <2>1. SUFFICES ASSUME NEW x \in Int, NEW y \in Int, x < y
                 PROVE  x * PerSecond + PerSecond <= y * PerSecond
    OBVIOUS
  <2> DEFINE d == y - (x + 1)
  <2>2. d \in Nat /\ y = (x + 1) + d
    BY <2>1
  <2> HIDE DEF d
  <2>3. y * PerSecond = (x * PerSecond + PerSecond) + d * PerSecond
    BY <1>1, <2>2
  <2>4. d * PerSecond >= 0
    BY <1>1, <2>2
  <2>5. x * PerSecond \in Int /\ d * PerSecond \in Int
    BY <1>1, <2>2
  <2>6. QED
    BY <1>1, <2>3, <2>4, <2>5
<1>6. ~(s < q)
  <2>1. s * PerSecond \in Int /\ q * PerSecond \in Int
    BY <1>1, <1>3
  <2>2. QED
    BY <1>1, <1>3, <1>4, <1>5, <2>1
<1>7. ~(q < s)
  <2>1. s * PerSecond \in Int /\ q * PerSecond \in Int
    BY <1>1, <1>3
  <2>2. QED
    BY <1>1, <1>3, <1>5, <2>1
<1>8. q = s
  BY <1>3, <1>6, <1>7
<1>9. p \div PerSecond = s
  BY <1>8 DEF q
<1> HIDE DEF p
<1>10. Quotient(p, PerSecond) = s
  BY <1>2, <1>9 DEF Quotient
<1>11. QED
  BY <1>2, <1>9, <1>10 DEF p

LEMMA Truncated ==
  ASSUME NEW t \in Int, NEW q, q = Quotient(t, PerSecond)
  PROVE  /\ q \in Int
         /\ t < 0 => q <= 0
         /\ q > 0 => q * PerSecond \in Nat /\ q * PerSecond <= t
         /\ Whole(t) = q * PerSecond
         /\ InFirstSecond(t) <=> q = 0
<1>1. PerSecond \in Nat /\ PerSecond > 0
  BY PerSecondAssumption
<1>2. \A n \in Nat : /\ n \div PerSecond \in Nat
                     /\ (n \div PerSecond) * PerSecond <= n
  BY <1>1
<1>3. t < 0 => -t \in Nat
  OBVIOUS
<1>4. q \in Int /\ (t < 0 => q <= 0) /\ (q > 0 => q * PerSecond <= t)
  <2>1. CASE t >= 0
    BY <1>2, <2>1 DEF Quotient
  <2>2. CASE t < 0
    BY <1>2, <1>3, <2>2 DEF Quotient
  <2>3. QED
    BY <2>1, <2>2
<1>5. Whole(t) = q * PerSecond
  BY DEF Whole, IsMilliseconds
<1>6. q * PerSecond \in Int /\ (q > 0 => q * PerSecond >= 0)
  BY <1>1, <1>4
<1>7. q * PerSecond = 0 <=> q = 0
  BY <1>1, <1>4
<1>8. QED
  BY <1>4, <1>5, <1>6, <1>7 DEF InFirstSecond

\* What the API may hold as the time of a dashboard: nothing, a range that
\* ends now, or milliseconds; a second range cannot be read.
ViewObjects == OtherFilters \union {getDashboardTime(b) : b \in Views}

LEMMA ViewsAre ==
  ASSUME NEW b \in Views
  PROVE  /\ b = [range |-> b.range, start |-> b.start, end |-> b.end]
         /\ b.range # Nothing => /\ b.start = 0 /\ b.end = 0
                                 /\ b.range \in Ranges
         /\ b.start \in Nat /\ b.end \in Nat
<1>1. /\ \A s \in GivenSeconds \union {0} : s \in Nat
      /\ 0 \in Nat
  BY TimesAssumption
<1>2. CASE b \in [range : Ranges, start : {0}, end : {0}]
  BY <1>1, <1>2
<1>3. CASE b \in [range : {Nothing}, start : GivenSeconds \union {0},
                 end : GivenSeconds \union {0}]
  BY <1>1, <1>3
<1>4. QED
  BY <1>2, <1>3 DEF Views

LEMMA DashboardTimes ==
  ASSUME NEW b \in Views
  PROVE  /\ b.range # Nothing =>
               getDashboardTime(b) = [start |-> b.range, end |-> Now]
         /\ b.range = Nothing /\ b.start # 0 => getDashboardTime(b) =
               [start |-> InMilliseconds(b.start),
                end |-> IF b.end = 0 THEN Nothing ELSE InMilliseconds(b.end)]
         /\ b.range = Nothing /\ b.start = 0 => getDashboardTime(b) = NoFilter
BY DEF getDashboardTime

LEMMA MillisecondsAre ==
  ASSUME NEW s \in Nat
  PROVE  InMilliseconds(s) \in Int /\ InMilliseconds(s) <= MaxInt
<1> DEFINE p == s * PerSecond
<1>1. p \in Int
  BY SecondsComeBack
<1> HIDE DEF p
<1>2. Wrapped(p, MaxInt) \in Int /\ Wrapped(p, MaxInt) <= MaxInt
  BY <1>1, WidthAssumption, WrappedStays
<1>3. QED
  BY <1>2 DEF InMilliseconds, p

\* What a block says of a dashboard's time can always be read.
LEMMA ViewsReadable ==
  ASSUME NEW b \in Views
  PROVE  ReadableView(getDashboardTime(b))
<1>1. CASE b.range # Nothing
  BY <1>1, DashboardTimes DEF ReadableView
<1>2. CASE b.range = Nothing /\ b.start # 0
  <2> DEFINE s == InMilliseconds(b.start)
             e == InMilliseconds(b.end)
  <2>1. s \in Int /\ s <= MaxInt /\ e \in Int /\ e <= MaxInt
    BY ViewsAre, MillisecondsAre
  <2>2. getDashboardTime(b)
           = [start |-> s, end |-> IF b.end = 0 THEN Nothing ELSE e]
    BY <1>2, DashboardTimes
  <2> HIDE DEF s, e
  <2>3. QED
    BY <2>1, <2>2 DEF ReadableView, IsMilliseconds
<1>3. CASE b.range = Nothing /\ b.start = 0
  BY <1>3, DashboardTimes DEF ReadableView, NoFilter
<1>4. QED
  BY <1>1, <1>2, <1>3

LEMMA ViewObjectsAre ==
  ASSUME NEW o \in ViewObjects
  PROVE  /\ o = [start |-> o.start, end |-> o.end]
         /\ o.end = Now => o.start \in Ranges
<1>1. CASE o \in OtherFilters
  <2>1. Now \notin OtherMilliseconds \union {Nothing}
    <3>1. Now \notin Int /\ Now # Nothing
      BY TimesAssumption
    <3>2. \A t \in OtherMilliseconds : t \in Int
      BY TimesAssumption
    <3>3. QED
      BY <3>1, <3>2
  <2>2. CASE o \in [start : Ranges, end : Ranges \union {Now}]
    BY <2>2
  <2>3. CASE o \in [start : OtherMilliseconds \union {Nothing},
                   end : OtherMilliseconds \union {Nothing}]
    BY <2>1, <2>3
  <2>4. QED
    BY <1>1, <2>2, <2>3 DEF OtherFilters
<1>2. ASSUME NEW v \in Views, o = getDashboardTime(v)
      PROVE  /\ o = [start |-> o.start, end |-> o.end]
             /\ o.end = Now => o.start \in Ranges
  <2>1. CASE v.range # Nothing
    BY <1>2, <2>1, DashboardTimes, ViewsAre
  <2>2. CASE v.range = Nothing /\ v.start # 0
    <3> DEFINE s == InMilliseconds(v.start)
               e == InMilliseconds(v.end)
    <3>1. o = [start |-> s, end |-> IF v.end = 0 THEN Nothing ELSE e]
      BY <1>2, <2>2, DashboardTimes
    <3>2. e \in Int
      BY ViewsAre, MillisecondsAre
    <3> HIDE DEF s, e
    <3>3. e # Now /\ Nothing # Now
      BY <3>2, TimesAssumption
    <3>4. QED
      BY <3>1, <3>3
  <2>3. CASE v.range = Nothing /\ v.start = 0
    BY <1>2, <2>3, DashboardTimes, TimesAssumption DEF NoFilter
  <2>4. QED
    BY <2>1, <2>2, <2>3
<1>3. QED
  BY <1>1, <1>2 DEF ViewObjects

\* Seconds that are an int in milliseconds come back.
LEMMA MillisecondsComeBack ==
  ASSUME NEW s \in Nat, s * PerSecond <= MaxInt
  PROVE  /\ InMilliseconds(s) = s * PerSecond
         /\ InMilliseconds(s) \in Nat
         /\ Quotient(InMilliseconds(s), PerSecond) = s
<1> DEFINE p == s * PerSecond
<1>1. p \in Nat /\ Quotient(p, PerSecond) = s
  BY SecondsComeBack
<1>2. p <= MaxInt /\ MaxInt \in Nat
  BY WidthAssumption
<1>3. InMilliseconds(s) = Wrapped(p, MaxInt)
  BY DEF InMilliseconds
<1> HIDE DEF p
<1>4. Wrapped(p, MaxInt) = p
  BY <1>1, <1>2, FitsIn
<1>5. QED
  BY <1>1, <1>3, <1>4 DEF p

\* A view as the API holds it, read over its block, is the block.
LEMMA ViewComesBack ==
  ASSUME NEW b \in Views, ~Overflows(b)
  PROVE  ReadView(b, getDashboardTime(b)) = b
<1> DEFINE o == getDashboardTime(b)
<1>1. b = [range |-> b.range, start |-> b.start, end |-> b.end]
  BY ViewsAre
<1>2. CASE b.range # Nothing
  <2>1. o = [start |-> b.range, end |-> Now]
    BY <1>2, DashboardTimes
  <2> HIDE DEF o
  <2>2. ReadView(b, o) = [b EXCEPT !.range = b.range]
    BY <2>1 DEF ReadView
  <2>3. QED
    BY <1>1, <2>2 DEF o
<1>3. CASE b.range = Nothing /\ b.start # 0
  <2> DEFINE s == InMilliseconds(b.start)
             e == InMilliseconds(b.end)
  <2>1. o = [start |-> s, end |-> IF b.end = 0 THEN Nothing ELSE e]
    BY <1>3, DashboardTimes
  <2>2. /\ s \in Nat /\ Quotient(s, PerSecond) = b.start
        /\ e \in Nat /\ Quotient(e, PerSecond) = b.end
    <3>1. b.start \in Nat /\ b.end \in Nat
      BY ViewsAre
    <3>2. b.start * PerSecond <= MaxInt /\ b.end * PerSecond <= MaxInt
      <4>1. ~(b.start * PerSecond > MaxInt) /\ ~(b.end * PerSecond > MaxInt)
        BY <1>3 DEF Overflows
      <4>2. b.start * PerSecond \in Nat /\ b.end * PerSecond \in Nat
        BY <3>1, SecondsComeBack
      <4>3. QED
        BY <4>1, <4>2, WidthAssumption
    <3>3. QED
      BY <3>1, <3>2, MillisecondsComeBack
  <2> HIDE DEF o, s, e
  <2>3. s # Nothing /\ e # Nothing /\ e # Now /\ Nothing # Now
    BY <2>2, TimesAssumption
  <2>4. o.start = s /\ o.end # Now
        /\ o.end = (IF b.end = 0 THEN Nothing ELSE e)
    BY <2>1, <2>3
  <2>5. ReadView(b, o) = [b EXCEPT !.start = b.start, !.end = b.end]
    <3>1. CASE b.end = 0
      <4>1. ReadView(b, o) = [b EXCEPT !.start = b.start, !.end = @]
        BY <2>2, <2>3, <2>4, <3>1 DEF ReadView
      <4>2. QED
        BY <1>1, <4>1
    <3>2. CASE b.end # 0
      BY <2>2, <2>3, <2>4, <3>2 DEF ReadView
    <3>3. QED
      BY <3>1, <3>2
  <2>6. [b EXCEPT !.start = b.start, !.end = b.end] = b
    BY <1>1
  <2>7. QED
    BY <2>5, <2>6 DEF o
<1>4. CASE b.range = Nothing /\ b.start = 0
  <2>1. o = NoFilter
    BY <1>4, DashboardTimes
  <2> HIDE DEF o
  <2>2. ReadView(b, o) = [b EXCEPT !.start = @, !.end = @]
    BY <2>1, TimesAssumption DEF ReadView, NoFilter
  <2>3. QED
    BY <1>1, <2>2 DEF o
<1>5. QED
  BY <1>2, <1>3, <1>4

\* A part of a block that came from what was read is the part that was read.
LEMMA SecondsSayWhatWasRead ==
  ASSUME NEW t \in Int, t <= MaxInt, ~InFirstSecond(t),
         NEW s \in Nat, s = Quotient(t, PerSecond)
  PROVE  s # 0 /\ InMilliseconds(s) = Whole(t)
<1>1. /\ s # 0 /\ s * PerSecond \in Nat /\ s * PerSecond <= t
      /\ Whole(t) = s * PerSecond
  BY Truncated
<1> DEFINE p == s * PerSecond
<1>2. p \in Nat /\ p <= t
  BY <1>1
<1> HIDE DEF p
<1>3. p <= MaxInt
  BY <1>2, WidthAssumption
<1>4. QED
  BY <1>1, <1>3, MillisecondsComeBack DEF p

\* A block that came from what was read is what the API holds, to the second,
\* but for what is not read.
LEMMA ViewSaysWhatWasRead ==
  ASSUME NEW b \in Views, NEW e, IsTime(e), NEW o \in ViewObjects,
         ReadableView(o), b = ReadView(e, o), ~Unread(o.start),
         ~(Unread(o.end) /\ Whole(o.start) = getDashboardTime(b).start)
  PROVE  WholeSeconds(o) = getDashboardTime(b)
<1>1. o = [start |-> o.start, end |-> o.end]
  BY ViewObjectsAre
<1>2. WholeSeconds(o) = [start |-> Whole(o.start), end |-> Whole(o.end)]
  <2>1. DOMAIN o = {"start", "end"}
    BY <1>1
  <2>2. QED
    BY <2>1 DEF WholeSeconds
<1>3. CASE o.end = Now
  <2>1. o.start \in Ranges
    BY <1>3, ViewObjectsAre
  <2>2. b = [e EXCEPT !.range = o.start]
    BY <1>3 DEF ReadView
  <2>3. b.range = o.start
    BY <2>2 DEF IsTime
  <2>4. o.start # Nothing /\ o.start \notin Int /\ Now \notin Int
    BY <2>1, TimesAssumption
  <2>5. Whole(o.start) = o.start /\ Whole(o.end) = Now
    BY <1>3, <2>4 DEF Whole, IsMilliseconds
  <2>6. QED
    BY <1>2, <2>3, <2>4, <2>5, DashboardTimes
<1>4. CASE o.end # Now
  <2>1. /\ o.start \in Int /\ o.start <= MaxInt
        /\ o.end # Nothing => o.end \in Int /\ o.end <= MaxInt
    BY <1>4 DEF ReadableView, Unread, IsMilliseconds
  <2>2. /\ b.start = Quotient(o.start, PerSecond)
        /\ o.end # Nothing => b.end = Quotient(o.end, PerSecond)
    <3>1. o.start # Nothing
      BY DEF Unread
    <3>2. b = [e EXCEPT !.start = Quotient(o.start, PerSecond),
                        !.end = IF o.end = Nothing THEN @
                                ELSE Quotient(o.end, PerSecond)]
      BY <1>4, <3>1 DEF ReadView
    <3>3. QED
      BY <3>2 DEF IsTime
  <2>3. b.start \in Nat /\ b.end \in Nat
    BY ViewsAre
  <2>4. b.start # 0 /\ InMilliseconds(b.start) = Whole(o.start)
    BY <2>1, <2>2, <2>3, SecondsSayWhatWasRead DEF Unread
  <2>5. b.range = Nothing
    BY <2>4, ViewsAre
  <2>6. getDashboardTime(b) =
           [start |-> InMilliseconds(b.start),
            end |-> IF b.end = 0 THEN Nothing ELSE InMilliseconds(b.end)]
    BY <2>4, <2>5, DashboardTimes
  <2>7. ~Unread(o.end)
    BY <2>4, <2>6
  <2>8. b.end # 0 /\ InMilliseconds(b.end) = Whole(o.end)
    BY <2>1, <2>2, <2>3, <2>7, SecondsSayWhatWasRead DEF Unread
  <2>9. QED
    BY <1>2, <2>4, <2>6, <2>8
<1>5. QED
  BY <1>3, <1>4

LEMMA TimesRead ==
  ASSUME NEW e, IsTime(e), NEW o
  PROVE  IsTime(ReadView(e, o)) /\ IsTime(ReadPeriod(e, o))
BY DEF ReadView, ReadPeriod, IsTime

\* What the API may hold as the time of a detector.
PeriodObjects == OtherTimes \union {getVisualizationTime(b) : b \in Periods}

LEMMA PeriodsAre ==
  ASSUME NEW b \in Periods
  PROVE  /\ b = [range |-> b.range, start |-> b.start, end |-> b.end]
         /\ b.range \in Nat
<1>1. \A s \in GivenSeconds \union {0, DefaultRange} : s \in Nat
  BY TimesAssumption
<1>2. CASE b \in [range : GivenSeconds \union {0, DefaultRange},
                 start : {0}, end : {0}]
  BY <1>1, <1>2
<1>3. CASE b \in [range : {DefaultRange}, start : GivenSeconds \union {0},
                 end : GivenSeconds \union {0}]
  BY <1>1, <1>3
<1>4. QED
  BY <1>2, <1>3 DEF Periods

LEMMA PeriodObjectsAre ==
  ASSUME NEW o \in PeriodObjects
  PROVE  o.range # Nothing => o.range \in Int /\ o = [NoTime EXCEPT !.range = o.range]
<1>1. CASE o \in OtherTimes
  BY <1>1, TimesAssumption DEF OtherTimes, NoTime
<1>2. ASSUME NEW b \in Periods, o = getVisualizationTime(b)
      PROVE  o.range # Nothing =>
                 o.range \in Int /\ o = [NoTime EXCEPT !.range = o.range]
  <2> DEFINE p == b.range * PerSecond
  <2>1. p \in Int
    BY PeriodsAre, SecondsComeBack
  <2>2. o = NoTime \/ o = [NoTime EXCEPT !.range = p]
    BY <1>2 DEF getVisualizationTime
  <2> HIDE DEF p
  <2>3. QED
    BY <2>1, <2>2 DEF NoTime
<1>3. QED
  BY <1>1, <1>2 DEF PeriodObjects

\* A detector's time as the API holds it, read over its block, is the block.
LEMMA PeriodComesBack ==
  ASSUME NEW b \in Periods
  PROVE  ReadPeriod(b, getVisualizationTime(b)) = b
<1> DEFINE p == b.range * PerSecond
<1>1. b = [range |-> b.range, start |-> b.start, end |-> b.end]
      /\ b.range \in Nat
  BY PeriodsAre
<1>2. p \in Nat /\ Quotient(p, PerSecond) = b.range
  BY <1>1, SecondsComeBack
<1>3. CASE b.range = 0
  BY <1>3 DEF getVisualizationTime, ReadPeriod
<1>4. CASE b.range # 0
  <2>1. getVisualizationTime(b) = [NoTime EXCEPT !.range = p]
    BY <1>4 DEF getVisualizationTime
  <2> HIDE DEF p
  <2>2. p # Nothing /\ [NoTime EXCEPT !.range = p].range = p
        /\ [NoTime EXCEPT !.range = p] # NoTime
    BY <1>2, TimesAssumption DEF NoTime
  <2>3. ReadPeriod(b, [NoTime EXCEPT !.range = p])
           = [b EXCEPT !.range = b.range]
    BY <1>2, <2>2 DEF ReadPeriod
  <2>4. [b EXCEPT !.range = b.range] = b
    BY <1>1
  <2>5. QED
    BY <2>1, <2>3, <2>4
<1>5. QED
  BY <1>3, <1>4

\* A block that came from what was read is what the API holds, to the second,
\* unless a start was read.
LEMMA PeriodSaysWhatWasRead ==
  ASSUME NEW b \in Periods, NEW e, IsTime(e), NEW o \in PeriodObjects,
         b = ReadPeriod(e, o), o # NoTime,
         o.range # Nothing => ~InFirstSecond(o.range),
         ~(/\ o.range = Nothing
           /\ b.start = OrZero(o.start) /\ b.end = OrZero(o.end))
  PROVE  WholeSeconds(o) = getVisualizationTime(b)
<1> DEFINE q == Quotient(o.range, PerSecond)
<1>1. o.range # Nothing
  <2>1. SUFFICES ASSUME o.range = Nothing PROVE FALSE
    OBVIOUS
  <2>2. b = [e EXCEPT !.start = OrZero(o.start), !.end = OrZero(o.end)]
    BY <2>1 DEF ReadPeriod
  <2>3. QED
    BY <2>1, <2>2 DEF IsTime
<1>2. o.range \in Int /\ o = [NoTime EXCEPT !.range = o.range]
  BY <1>1, PeriodObjectsAre
<1>3. b = [e EXCEPT !.range = q]
  BY <1>1 DEF ReadPeriod
<1>4. b.range = q
  BY <1>3 DEF IsTime
<1>5. q # 0 /\ Whole(o.range) = q * PerSecond
  BY <1>1, <1>2, Truncated
<1> HIDE DEF q
<1>6. getVisualizationTime(b) = [NoTime EXCEPT !.range = q * PerSecond]
  BY <1>4, <1>5 DEF getVisualizationTime
<1>7. /\ DOMAIN o = {"range", "start", "end"}
      /\ o.start = Nothing /\ o.end = Nothing
  BY <1>2 DEF NoTime
<1>8. Whole(Nothing) = Nothing
  BY TimesAssumption DEF Whole, IsMilliseconds
<1>9. WholeSeconds(o) = [range |-> Whole(o.range), start |-> Nothing,
                         end |-> Nothing]
  BY <1>7, <1>8 DEF WholeSeconds
<1>10. QED
  BY <1>5, <1>6, <1>9 DEF NoTime

----------------------------------------------------------------------------
(* What ranges written as text mean.                                       *)

Positive == Nat \ {0}

\* Any digits and units, and any number of them.
AnyChars == [digit : BOOLEAN, value : Nat, unit : DOMAIN InSeconds]
AnyScan == [total : Int, partial : Int, failed : BOOLEAN]
Unscanned == [total |-> 0, partial |-> 0, failed |-> FALSE]

\* What is scanned of the first signs; what a digit before the last signs
\* counts; and what these mean.
Scans(h, units, max, s) ==
    /\ h[0] = Unscanned
    /\ \A i \in 1..Len(s) : h[i] = Scan(units, max, h[i - 1], s[i])
    /\ \A i \in 0..Len(s) : h[i] \in AnyScan
Sign(s, k) == s[Len(s) + 1 - k]
Weighs(w, s, second) ==
    /\ w[0] = 1
    /\ \A k \in 1..Len(s) :
           w[k] = IF Sign(s, k).digit THEN 10 * w[k - 1]
                  ELSE InSeconds[Sign(s, k).unit] * second
    /\ \A k \in 0..Len(s) : w[k] \in Positive
Means(v, w, s) ==
    /\ v[0] = 0
    /\ \A k \in 1..Len(s) :
           v[k] = IF Sign(s, k).digit THEN v[k - 1] + Sign(s, k).value * w[k - 1]
                  ELSE v[k - 1]
    /\ \A k \in 0..Len(s) : v[k] \in Nat

\* The units of a parser, when a second counts as many as it is given.
Counted(units, second) ==
    \A u \in DOMAIN units : /\ u \in DOMAIN InSeconds
                            /\ units[u] = InSeconds[u] * second

LEMMA UnitsAre ==
  /\ \A u \in DOMAIN InSeconds : InSeconds[u] \in Positive
  /\ Counted(Millistamps, PerSecond)
  /\ Counted(FrameworkUnits, NanosPerSecond)
<1>1. \A u \in DOMAIN InSeconds : InSeconds[u] \in Positive
  BY DEF InSeconds, Positive
<1>2. Counted(Millistamps, PerSecond) /\ Counted(FrameworkUnits, NanosPerSecond)
  BY DEF Counted, Millistamps, FrameworkUnits
<1>3. QED
  BY <1>1, <1>2

LEMMA UnitsCount ==
  ASSUME NEW second \in Positive, NEW u \in DOMAIN InSeconds
  PROVE  InSeconds[u] * second \in Positive
<1> DEFINE n == InSeconds[u]
<1>1. n \in Positive
  BY UnitsAre
<1> HIDE DEF n
<1>2. n * second \in Positive
  BY <1>1 DEF Positive
<1>3. QED
  BY <1>2 DEF n

LEMMA WrappedAreInts ==
  ASSUME NEW max \in Nat, NEW n \in Int
  PROVE  Wrapped(n, max) \in Int
<1> DEFINE x == n + max + 1
           D == 2 * max + 2
<1>1. x \in Int /\ D \in Nat /\ D > 0
  OBVIOUS
<1>2. x % D \in Int
  <2> HIDE DEF x, D
  <2>1. QED
    BY <1>1
<1>3. QED
  BY <1>2 DEF Wrapped

LEMMA ScanOfUnit ==
  ASSUME NEW at \in AnyScan, NEW r \in Int,
         NEW next, next = [at EXCEPT !.total = r, !.partial = 0]
  PROVE  next.total = r /\ next.partial = 0 /\ next \in AnyScan
<1> DEFINE b == [at EXCEPT !.total = r]
<1>1. b \in AnyScan /\ b.total = r
  BY DEF AnyScan
<1>2. next = [b EXCEPT !.partial = 0]
  OBVIOUS
<1> HIDE DEF b
<1>3. QED
  BY <1>1, <1>2 DEF AnyScan

\* What a sign that is not refused does, whatever the width of the integers.
CountsSign(next, at, char, max, second) ==
    /\ char.digit =>
           /\ next.total = at.total
           /\ next.partial = Wrapped(10 * at.partial + char.value, max)
    /\ ~char.digit =>
           /\ next.total = Wrapped(at.total + at.partial
                               * (InSeconds[char.unit] * second), max)
           /\ next.partial = 0

LEMMA ScanOne ==
  ASSUME NEW units, NEW second \in Positive, Counted(units, second),
         NEW max \in Nat, NEW at \in AnyScan, NEW char \in AnyChars,
         NEW next, next = Scan(units, max, at, char)
  PROVE  /\ next \in AnyScan
         /\ ~next.failed => ~at.failed /\ CountsSign(next, at, char, max, second)
<1>1. CASE at.failed
  BY <1>1 DEF Scan
<1>2. CASE ~at.failed /\ char.digit
  <2> DEFINE p == Wrapped(10 * at.partial + char.value, max)
  <2>1. 10 * at.partial + char.value \in Int
    BY DEF AnyScan, AnyChars
  <2>2. p \in Int
    BY <2>1, WrappedAreInts
  <2>3. next = [at EXCEPT !.partial = p]
    BY <1>2 DEF Scan
  <2> HIDE DEF p
  <2>4. next.total = at.total /\ next.partial = p /\ next \in AnyScan
    BY <2>2, <2>3 DEF AnyScan
  <2>5. QED
    BY <1>2, <2>4 DEF p, CountsSign
<1>3. CASE ~at.failed /\ ~char.digit /\ char.unit \in DOMAIN units
           /\ at.partial # 0
  <2> DEFINE u == InSeconds[char.unit] * second
             r == Wrapped(at.total + at.partial * u, max)
  <2>1. u = units[char.unit] /\ u \in Nat
    BY <1>3, UnitsCount DEF Counted, AnyChars, Positive
  <2>2. at.total \in Int /\ at.partial \in Int
    BY DEF AnyScan
  <2>3. next = [at EXCEPT !.total = r, !.partial = 0]
    BY <1>3, <2>1 DEF Scan
  <2> HIDE DEF u
  <2>4. at.total + at.partial * u \in Int
    BY <2>1, <2>2
  <2>5. r \in Int
    BY <2>4, WrappedAreInts
  <2> HIDE DEF r
  <2>6. next.total = r /\ next.partial = 0 /\ next \in AnyScan
    BY <2>3, <2>5, ScanOfUnit
  <2>7. QED
    BY <1>3, <2>6 DEF r, u, CountsSign
<1>4. CASE ~at.failed /\ ~char.digit
           /\ ~(char.unit \in DOMAIN units /\ at.partial # 0)
  BY <1>4 DEF Scan, AnyScan
<1>5. QED
  BY <1>1, <1>2, <1>3, <1>4

LEMMA CharsAre ==
  ASSUME NEW char \in AnyChars
  PROVE  char.value \in Nat /\ char.unit \in DOMAIN InSeconds
BY DEF AnyChars

\* What a digit or a unit adds is counted by what it weighs.
AddsDigit(t, p, d, w, v, sum, max) ==
    /\ t \in Nat /\ p \in Nat /\ d \in Nat /\ w \in Positive /\ v \in Nat
    /\ sum = t + p * (10 * w) + (v + d * w)
    /\ sum \in Nat /\ sum <= max /\ max \in Nat
AddsUnit(t, p, u, w, v, sum, max) ==
    /\ t \in Nat /\ p \in Nat /\ u \in Nat /\ w \in Nat /\ v \in Nat
    /\ sum = t + p * u + v
    /\ sum \in Nat /\ sum <= max /\ max \in Nat

LEMMA DigitScanned ==
  ASSUME NEW t, NEW p, NEW d, NEW w, NEW v, NEW sum, NEW max,
         AddsDigit(t, p, d, w, v, sum, max)
  PROVE  /\ Wrapped(10 * p + d, max) \in Nat
         /\ t + Wrapped(10 * p + d, max) * w + v = sum
<1> DEFINE q == 10 * p + d
<1>a. /\ t \in Nat /\ p \in Nat /\ d \in Nat /\ w \in Nat \ {0} /\ v \in Nat
      /\ sum = t + p * (10 * w) + (v + d * w)
      /\ sum \in Nat /\ sum <= max /\ max \in Nat
  BY DEF AddsDigit, Positive
<1>1. q \in Nat
  BY <1>a
<1>2. t + q * w + v = sum
  <2>1. t + (10 * p + d) * w + v = t + p * (10 * w) + (v + d * w)
    BY <1>a
  <2>2. QED
    BY <1>a, <2>1
<1> HIDE DEF q
<1>4. PICK k \in Nat : w = k + 1
  <2>1. w - 1 \in Nat /\ w = (w - 1) + 1
    BY <1>a
  <2>2. QED
    BY <2>1
<1>5. q * w = q * k + q
  BY <1>1, <1>4
<1>6. q * k \in Nat
  BY <1>1, <1>4
<1>7. t + (q * k + q) + v = sum
  BY <1>2, <1>5
<1>8. q <= max
  <2> DEFINE z == q * k
  <2>1. z \in Nat /\ t + (z + q) + v = sum
    BY <1>6, <1>7
  <2> HIDE DEF z
  <2>2. QED
    BY <1>a, <1>1, <2>1
<1>9. Wrapped(q, max) = q
  BY <1>a, <1>1, <1>8, FitsIn
<1>10. Wrapped(q, max) \in Nat /\ t + Wrapped(q, max) * w + v = sum
  BY <1>1, <1>2, <1>9
<1>11. QED
  BY <1>10 DEF q

LEMMA UnitScanned ==
  ASSUME NEW t, NEW p, NEW u, NEW w, NEW v, NEW sum, NEW max,
         AddsUnit(t, p, u, w, v, sum, max)
  PROVE  /\ Wrapped(t + p * u, max) \in Nat
         /\ Wrapped(t + p * u, max) + 0 * w + v = sum
<1> DEFINE r == t + p * u
<1>a. /\ t \in Nat /\ p \in Nat /\ u \in Nat /\ w \in Nat /\ v \in Nat
      /\ sum = t + p * u + v
      /\ sum \in Nat /\ sum <= max /\ max \in Nat
  BY DEF AddsUnit
<1>1. r \in Nat /\ r + v = sum
  BY <1>a
<1> HIDE DEF r
<1>2. r <= max
  BY <1>a, <1>1
<1>3. Wrapped(r, max) = r
  BY <1>a, <1>1, <1>2, FitsIn
<1>4. 0 * w = 0
  BY <1>a
<1>5. Wrapped(r, max) \in Nat /\ Wrapped(r, max) + 0 * w + v = sum
  BY <1>1, <1>3, <1>4
<1>6. QED
  BY <1>5 DEF r

\* One sign: either half of the sum may change, the sum does not, and if the
\* sum is not too large neither half wraps.
LEMMA ScanCounts ==
  ASSUME NEW second, NEW max, NEW at, NEW char, NEW next,
         CountsSign(next, at, char, max, second), NEW w, NEW v, NEW sum,
         char.digit =>
             AddsDigit(at.total, at.partial, char.value, w, v, sum, max),
         ~char.digit =>
             AddsUnit(at.total, at.partial, InSeconds[char.unit] * second, w, v,
                      sum, max)
  PROVE  /\ next.total \in Nat /\ next.partial \in Nat
         /\ next.total + next.partial * w + v = sum
<1> DEFINE t == at.total
           p == at.partial
           d == char.value
           u == InSeconds[char.unit] * second
<1>1. /\ char.digit => AddsDigit(t, p, d, w, v, sum, max)
      /\ ~char.digit => AddsUnit(t, p, u, w, v, sum, max)
  OBVIOUS
<1>2. /\ char.digit => next.total = t /\ next.partial = Wrapped(10 * p + d, max)
      /\ ~char.digit => next.total = Wrapped(t + p * u, max) /\ next.partial = 0
  BY Zenon DEF CountsSign
<1> HIDE DEF t, p, d, u
<1>3. CASE char.digit
  <2>1. AddsDigit(t, p, d, w, v, sum, max)
    BY <1>1, <1>3
  <2>2. /\ Wrapped(10 * p + d, max) \in Nat
        /\ t + Wrapped(10 * p + d, max) * w + v = sum
    BY <2>1, DigitScanned
  <2>3. t \in Nat
    BY <2>1 DEF AddsDigit
  <2>4. QED
    BY <1>2, <1>3, <2>2, <2>3
<1>4. CASE ~char.digit
  <2>1. AddsUnit(t, p, u, w, v, sum, max)
    BY <1>1, <1>4
  <2>2. /\ Wrapped(t + p * u, max) \in Nat
        /\ Wrapped(t + p * u, max) + 0 * w + v = sum
    BY <2>1, UnitScanned
  <2>3. QED
    BY <1>2, <1>4, <2>2
<1>5. QED
  BY <1>3, <1>4

ScannedBy(h, units, max, s) ==
    Scans(h, units, max, s) /\ Scanned(units, max, s) = h[Len(s)]

LEMMA ScanSteps ==
  ASSUME NEW units, NEW second \in Positive, Counted(units, second),
         NEW max \in Nat, NEW s \in Seq(AnyChars)
  PROVE  \E h : ScannedBy(h, units, max, s)
<1> DEFINE n == Len(s)
           A == AnyScan
           start == [total |-> 0, partial |-> 0, failed |-> FALSE]
           Step == [p \in A \X (1..n) |-> Scan(units, max, p[1], s[p[2]])]
           Equation(g) == g = [S \in SUBSET (1..n) |->
                                 IF S = {} THEN start
                                 ELSE Scan(units, max, g[S \ {Max(S)}], s[Max(S)])]
           it == CHOOSE g : Equation(g)
           T == {i \in 0..n : it[1..i] \in A}
           h == [i \in 0..n |-> it[1..i]]
<1>1. n \in Nat /\ DOMAIN s = 1..n /\ \A i \in 1..n : s[i] \in AnyChars
  OBVIOUS
<1>2. Scanned(units, max, s) = it[1..n]
  BY <1>1, Zenon DEF Scanned, FoldLeft, MapThenFoldSet
<1>3. \A a \in A, i \in 1..n : Scan(units, max, a, s[i]) \in A
  <2>1. SUFFICES ASSUME NEW a \in A, NEW i \in 1..n
                 PROVE  Scan(units, max, a, s[i]) \in A
    OBVIOUS
  <2>2. s[i] \in AnyChars
    BY <1>1
  <2>3. QED
    BY <2>2, ScanOne
<1>a. start \in A
  BY DEF AnyScan
<1> HIDE DEF A, start
<1>4. \E g : Equation(g)
  <2>1. Step \in [A \X (1..n) -> A]
    BY <1>3
  <2>2. \E g \in [SUBSET (1..n) -> A] : Solves(g, start, n, Step)
    <3> HIDE DEF Step, n
    <3>1. QED
      BY <1>1, <1>a, <2>1, RecursionOnIndices
  <2>3. PICK g \in [SUBSET (1..n) -> A] : Solves(g, start, n, Step)
    BY <2>2
  <2>4. \A S \in SUBSET (1..n) : S # {} =>
           Step[<<g[S \ {Max(S)}], Max(S)>>]
             = Scan(units, max, g[S \ {Max(S)}], s[Max(S)])
    <3>1. \A S \in SUBSET (1..n) : S # {} =>
             <<g[S \ {Max(S)}], Max(S)>> \in A \X (1..n)
      <4>1. \A S \in SUBSET (1..n) : S # {} => Max(S) \in 1..n
        BY <1>1, LargestIndex
      <4>2. \A S \in SUBSET (1..n) : S \ {Max(S)} \in SUBSET (1..n)
        OBVIOUS
      <4> HIDE DEF n
      <4>3. QED
        BY <4>1, <4>2
    <3>2. QED
      BY <3>1
  <2> HIDE DEF Step, n
  <2>5. Equation(g)
    BY <2>3, <2>4 DEF Solves
  <2>6. QED
    BY <2>5
<1>5. Equation(it)
  <2> HIDE DEF Equation
  <2>1. QED
    BY <1>4
<1> HIDE DEF it, n
<1>6. h[0] = start
  <2>1. it[{}] = start /\ 1..0 = {} /\ 0 \in 0..n
    BY <1>1, <1>5
  <2>2. QED
    BY <2>1
<1>7. ASSUME NEW i \in 1..n PROVE h[i] = Scan(units, max, h[i - 1], s[i])
  <2>1. Max(1..i) = i /\ (1..i) \ {i} = 1..(i - 1)
    BY <1>1, LastIndex
  <2>2. 1..i \in SUBSET (1..n) /\ 1..i # {} /\ i \in 0..n /\ i - 1 \in 0..n
    BY <1>1, PrefixOfIndices
  <2>3. it[1..i] = Scan(units, max, it[1..(i - 1)], s[i])
    BY <1>5, <2>1, <2>2
  <2>4. QED
    BY <2>2, <2>3
<1>8. Scanned(units, max, s) = h[n]
  BY <1>1, <1>2
<1> HIDE DEF h
<1>9. \A i \in 0..n : h[i] \in A
  <2> DEFINE U == {i \in 0..n : h[i] \in A}
  <2>1. 0 \in U
    BY <1>1, <1>6, <1>a
  <2>2. \A i \in 1..n : i - 1 \in U => i \in U
    BY <1>1, <1>3, <1>7, PrefixOfIndices
  <2>3. 0..n \subseteq U
    <3> HIDE DEF U
    <3>1. QED
      BY <1>1, <2>1, <2>2, PrefixInduction
  <2>4. QED
    BY <2>3
<1>10. ScannedBy(h, units, max, s)
  BY <1>6, <1>7, <1>8, <1>9 DEF ScannedBy, Scans, Unscanned, start, n, A
<1>11. QED
  BY <1>10

MeantBy(w, v, t, second) ==
    /\ Weighs(w, t.chars, second) /\ Means(v, w, t.chars)
    /\ Meaning(t, second) = v[Len(t.chars)]

LEMMA MeaningSteps ==
  ASSUME NEW t, t.chars \in Seq(AnyChars), NEW second \in Positive
  PROVE  \E w, v : MeantBy(w, v, t, second)
<1> DEFINE s == t.chars
           n == Len(s)
           Weight == [p \in Positive \X (1..n) |->
                         IF Sign(s, p[2]).digit THEN 10 * p[1]
                         ELSE InSeconds[Sign(s, p[2]).unit] * second]
           Weighed(f) == f = [k \in 0..n |->
                                IF k = 0 THEN 1
                                ELSE IF s[n + 1 - k].digit THEN 10 * f[k - 1]
                                ELSE InSeconds[s[n + 1 - k].unit] * second]
           w == CHOOSE f : Weighed(f)
           Counts(x, k) == IF Sign(s, k).digit THEN 10 * x
                           ELSE InSeconds[Sign(s, k).unit] * second
           Adds(x, k) == IF Sign(s, k).digit THEN x + Sign(s, k).value * w[k - 1]
                         ELSE x
           Worth == [p \in Nat \X (1..n) |->
                        IF Sign(s, p[2]).digit
                        THEN p[1] + Sign(s, p[2]).value * w[p[2] - 1]
                        ELSE p[1]]
           Meant(f) == f = [k \in 0..n |->
                              IF k = 0 THEN 0
                              ELSE IF s[n + 1 - k].digit
                                   THEN f[k - 1] + s[n + 1 - k].value * w[k - 1]
                              ELSE f[k - 1]]
           v == CHOOSE f : Meant(f)
<1>1. /\ n \in Nat
      /\ \A k \in 0..n : k # 0 => k \in 1..n /\ k - 1 \in 0..n
      /\ \A k \in 1..n : k \in 0..n /\ k # 0 /\ k - 1 \in 0..n
      /\ 0 \in 0..n
  OBVIOUS
<1>2. Meaning(t, second) = v[n]
  BY Zenon DEF Meaning
<1>3. \A k \in 1..n : Sign(s, k) = s[n + 1 - k] /\ Sign(s, k) \in AnyChars
  <2>1. SUFFICES ASSUME NEW k \in 1..n PROVE Sign(s, k) \in AnyChars
    BY DEF Sign
  <2>2. n + 1 - k \in 1..n
    BY <1>1
  <2>3. QED
    BY <2>2 DEF Sign
<1>4. \A k \in 1..n : /\ Sign(s, k).value \in Nat
                      /\ InSeconds[Sign(s, k).unit] * second \in Positive
  BY <1>3, CharsAre, UnitsCount
<1> HIDE DEF s, n
<1>5. \A x \in Positive, k \in 1..n : Weight[<<x, k>>] = Counts(x, k)
  OBVIOUS
<1>6. Weight \in [Positive \X (1..n) -> Positive]
  <2>1. \A p \in Positive \X (1..n) : p[1] \in Positive /\ p[2] \in 1..n
    OBVIOUS
  <2>2. \A p \in Positive \X (1..n) :
           (IF Sign(s, p[2]).digit THEN 10 * p[1]
            ELSE InSeconds[Sign(s, p[2]).unit] * second) \in Positive
    <3>1. \A x \in Positive : 10 * x \in Positive
      BY DEF Positive
    <3>2. QED
      BY <1>4, <2>1, <3>1
  <2>3. QED
    BY <2>2
<1> HIDE DEF Weight
<1>7. \E f : Weighed(f)
  <2>1. 1 \in Positive
    BY DEF Positive
  <2>2. PICK f \in [0..n -> Positive] : Steps(f, 1, n, Weight)
    BY <1>1, <1>6, <2>1, RecursionUpTo
  <2>3. \A k \in 0..n : k # 0 =>
           f[k] = IF s[n + 1 - k].digit THEN 10 * f[k - 1]
                  ELSE InSeconds[s[n + 1 - k].unit] * second
    <3>1. \A k \in 1..n : f[k - 1] \in Positive /\ f[k] = Weight[<<f[k - 1], k>>]
      BY <1>1, <2>2 DEF Steps
    <3>2. \A k \in 1..n : f[k] = Counts(f[k - 1], k)
      <4> HIDE DEF Counts
      <4>1. QED
        BY <1>5, <3>1
    <3>3. QED
      BY <1>1, <1>3, <3>2
  <2>4. f = [k \in 0..n |-> f[k]] /\ f[0] = 1
    BY <2>2 DEF Steps
  <2>5. Weighed(f)
    BY <2>3, <2>4
  <2>6. QED
    BY <2>5
<1>8. Weighed(w)
  <2> HIDE DEF Weighed
  <2>1. QED
    BY <1>7
<1> HIDE DEF w
<1>9. /\ w[0] = 1
      /\ \A k \in 1..n : w[k - 1] \in Positive => w[k] = Weight[<<w[k - 1], k>>]
  <2>1. w[0] = 1 /\ \A k \in 1..n : w[k] = Counts(w[k - 1], k)
    BY <1>1, <1>3, <1>8
  <2> HIDE DEF Counts
  <2>2. QED
    BY <1>5, <2>1
<1>10. Steps(w, 1, n, Weight) /\ \A k \in 0..n : w[k] \in Positive
  <2>1. 1 \in Positive /\ n \in Nat
    BY <1>1 DEF Positive
  <2> HIDE DEF Weighed, Meant, Counts, Adds, Worth
  <2>2. QED
    BY <1>6, <1>9, <2>1, StepsFollowed
<1>11. Weighs(w, s, second)
  BY <1>1, <1>5, <1>10 DEF Weighs, Steps, n
<1>12. \A x \in Nat, k \in 1..n : Worth[<<x, k>>] = Adds(x, k)
  OBVIOUS
<1>13. Worth \in [Nat \X (1..n) -> Nat]
  <2>1. \A p \in Nat \X (1..n) : p[1] \in Nat /\ p[2] \in 1..n
    OBVIOUS
  <2>2. ASSUME NEW x \in Nat, NEW k \in 1..n
        PROVE  x + Sign(s, k).value * w[k - 1] \in Nat
    <3>1. Sign(s, k).value \in Nat /\ w[k - 1] \in Nat
      BY <1>1, <1>4, <1>10 DEF Positive
    <3>2. QED
      BY <3>1
  <2>3. \A p \in Nat \X (1..n) :
           (IF Sign(s, p[2]).digit
            THEN p[1] + Sign(s, p[2]).value * w[p[2] - 1] ELSE p[1]) \in Nat
    BY <2>1, <2>2
  <2>4. QED
    BY <2>3
<1> HIDE DEF Worth
<1>14. \E f : Meant(f)
  <2>1. 0 \in Nat
    OBVIOUS
  <2>2. PICK f \in [0..n -> Nat] : Steps(f, 0, n, Worth)
    BY <1>1, <1>13, <2>1, RecursionUpTo
  <2>3. \A k \in 0..n : k # 0 =>
           f[k] = IF s[n + 1 - k].digit
                  THEN f[k - 1] + s[n + 1 - k].value * w[k - 1]
                  ELSE f[k - 1]
    <3>1. \A k \in 1..n : f[k - 1] \in Nat /\ f[k] = Worth[<<f[k - 1], k>>]
      BY <1>1, <2>2 DEF Steps
    <3>2. \A k \in 1..n : f[k] = Adds(f[k - 1], k)
      <4> HIDE DEF Adds
      <4>1. QED
        BY <1>12, <3>1
    <3>3. QED
      BY <1>1, <1>3, <3>2
  <2>4. f = [k \in 0..n |-> f[k]] /\ f[0] = 0
    BY <2>2 DEF Steps
  <2>5. Meant(f)
    BY <2>3, <2>4
  <2>6. QED
    BY <2>5
<1>15. Meant(v)
  <2> HIDE DEF Meant
  <2>1. QED
    BY <1>14
<1> HIDE DEF v
<1>16. /\ v[0] = 0
       /\ \A k \in 1..n : v[k - 1] \in Nat => v[k] = Worth[<<v[k - 1], k>>]
  BY <1>1, <1>3, <1>12, <1>15
<1>17. Steps(v, 0, n, Worth) /\ \A k \in 0..n : v[k] \in Nat
  <2>1. 0 \in Nat /\ n \in Nat
    BY <1>1
  <2>2. Worth \in [Nat \X (1..n) -> Nat]
    BY <1>13
  <2>3. v[0] = 0 /\ \A k \in 1..n : v[k - 1] \in Nat => v[k] = Worth[<<v[k - 1], k>>]
    BY <1>16
  <2> HIDE DEF Weighed, Meant, Counts, Adds, Worth, n
  <2>4. QED
    BY <2>1, <2>2, <2>3, StepsFollowed
<1>18. Means(v, w, s)
  BY <1>1, <1>12, <1>17 DEF Means, Steps, n
<1>19. MeantBy(w, v, t, second)
  BY <1>2, <1>11, <1>18 DEF MeantBy, s, n
<1>20. QED
  BY <1>19

\* What is scanned, and what the signs still to come make of it, is the same
\* after every sign; so if the whole is not too large no part of it wraps.
LEMMA NothingLost ==
  ASSUME NEW units, NEW second \in Positive, Counted(units, second),
         NEW max \in Nat, NEW s \in Seq(AnyChars),
         NEW h, Scans(h, units, max, s), NEW w, Weighs(w, s, second),
         NEW v, Means(v, w, s), v[Len(s)] <= max, ~h[Len(s)].failed
  PROVE  /\ h[Len(s)].total \in Nat /\ h[Len(s)].partial \in Nat
         /\ h[Len(s)].total + h[Len(s)].partial = v[Len(s)]
<1> DEFINE n == Len(s)
           sum == v[n]
           Stands(i) == /\ h[i].total \in Nat /\ h[i].partial \in Nat
                      /\ h[i].total + h[i].partial * w[n - i] + v[n - i] = sum
           T == {i \in 0..n : ~h[i].failed => Stands(i)}
<1>1. n \in Nat /\ \A i \in 1..n : s[i] \in AnyChars
  OBVIOUS
<1>2. \A i \in 0..n : n - i \in 0..n
  BY <1>1
<1>3. \A i \in 0..n : h[i] \in AnyScan /\ w[i] \in Positive /\ v[i] \in Nat
  BY DEF Scans, Weighs, Means
<1>4. h[0] = Unscanned /\ w[0] = 1 /\ v[0] = 0
  BY DEF Scans, Weighs, Means
<1>5. 0 \in T
  <2>1. v[n] \in Nat /\ w[n] \in Nat /\ n - 0 = n /\ 0 \in 0..n
    BY <1>1, <1>3 DEF Positive
  <2>2. 0 + 0 * w[n] + v[n] = v[n]
    BY <2>1
  <2>3. h[0].total = 0 /\ h[0].partial = 0
    BY <1>4 DEF Unscanned
  <2>4. Stands(0)
    BY <2>1, <2>2, <2>3
  <2>5. QED
    BY <2>1, <2>4
<1>6. ASSUME NEW i \in 1..n, i - 1 \in T PROVE i \in T
  <2> DEFINE k == n - (i - 1)
  <2>1. /\ i \in 0..n /\ i - 1 \in 0..n /\ k \in 1..n /\ k - 1 = n - i
        /\ n - i \in 0..n /\ n + 1 - k = i
    BY <1>1
  <2>2. SUFFICES ASSUME ~h[i].failed PROVE Stands(i)
    BY <2>1
  <2>3. Sign(s, k) = s[i] /\ s[i] \in AnyChars
    BY <1>1, <2>1 DEF Sign
  <2> HIDE DEF k
  <2>4. h[i] = Scan(units, max, h[i - 1], s[i])
    BY DEF Scans
  <2>5. /\ w[k] = IF s[i].digit THEN 10 * w[n - i]
                  ELSE InSeconds[s[i].unit] * second
        /\ v[k] = IF s[i].digit THEN v[n - i] + s[i].value * w[n - i]
                  ELSE v[n - i]
    BY <2>1, <2>3 DEF Weighs, Means
  <2>6. /\ h[i - 1] \in AnyScan
        /\ w[n - i] \in Positive /\ v[n - i] \in Nat /\ sum \in Nat
    BY <1>1, <1>3, <2>1
  <2>7. ~h[i - 1].failed /\ CountsSign(h[i], h[i - 1], s[i], max, second)
    BY <2>2, <2>3, <2>4, <2>6, ScanOne
  <2>8. /\ h[i - 1].total \in Nat /\ h[i - 1].partial \in Nat
        /\ h[i - 1].total + h[i - 1].partial * w[k] + v[k] = sum
    BY <1>6, <2>7 DEF k
  <2> DEFINE at == h[i - 1]
             next == h[i]
             char == s[i]
             W == w[n - i]
             V == v[n - i]
             u == InSeconds[char.unit] * second
  <2>9. /\ char.digit => AddsDigit(at.total, at.partial, char.value, W, V, sum, max)
        /\ ~char.digit => AddsUnit(at.total, at.partial, u, W, V, sum, max)
    <3> DEFINE a == at.total
               b == at.partial
               d == char.value
               x == w[k]
               y == v[k]
    <3>1. a \in Nat /\ b \in Nat /\ a + b * x + y = sum
      BY <2>8
    <3>2. d \in Nat /\ u \in Nat
      BY <2>3, CharsAre, UnitsCount DEF Positive
    <3>3. W \in Positive /\ V \in Nat /\ sum \in Nat /\ sum <= max /\ max \in Nat
      BY <2>6
    <3>4. x = (IF char.digit THEN 10 * W ELSE u)
          /\ y = (IF char.digit THEN V + d * W ELSE V)
      BY <2>5
    <3> HIDE DEF at, char, W, V, u, sum, a, b, d, x, y
    <3>5. char.digit => AddsDigit(a, b, d, W, V, sum, max)
      BY <3>1, <3>2, <3>3, <3>4 DEF AddsDigit
    <3>6. ~char.digit => AddsUnit(a, b, u, W, V, sum, max)
      BY <3>1, <3>2, <3>3, <3>4 DEF AddsUnit, Positive
    <3>7. QED
      BY <3>5, <3>6 DEF a, b, d
  <2>10. CountsSign(next, at, char, max, second)
    BY <2>7
  <2> HIDE DEF at, next, char, W, V, sum
  <2>11. /\ next.total \in Nat /\ next.partial \in Nat
         /\ next.total + next.partial * W + V = sum
    BY <2>9, <2>10, ScanCounts
  <2>12. QED
    BY <2>11 DEF next, W, V, sum
<1>7. n \in T
  <2> HIDE DEF T
  <2>1. 0..n \subseteq T
    BY <1>1, <1>5, <1>6, PrefixInduction
  <2>2. QED
    BY <1>1, <2>1
<1>8. Stands(n)
  BY <1>7
<1>9. n - n = 0 /\ h[n].partial * 1 = h[n].partial
  BY <1>1, <1>8
<1>10. h[n].total + h[n].partial * 1 + 0 = sum
  BY <1>4, <1>8, <1>9
<1>11. QED
  BY <1>8, <1>9, <1>10

(* Both parsers of ranges, on texts of any length: if the integers of the  *)
(* parser hold what a text means, it refuses the text or reads it as that, *)
(* the framework's parser as that much back in time if there is a minus.   *)
(* So where both take a text with its minus they mean the same time.       *)
THEOREM RangesMeanTheSame ==
  ASSUME NEW t, t.chars \in Seq(AnyChars)
  PROVE  /\ Meaning(t, PerSecond) \in Nat
         /\ Meaning(t, PerSecond) <= MaxInt =>
                FromTimeRangeToMilliseconds(t)
                    \in {Failure, Gives(Meaning(t, PerSecond))}
         /\ Meaning(t, NanosPerSecond) <= MaxDuration =>
                ParseDuration(t)
                    \in {Failure, Gives(IF t.minus THEN -Meaning(t, NanosPerSecond)
                                        ELSE Meaning(t, NanosPerSecond))}
<1> DEFINE s == t.chars
<1>a. /\ PerSecond \in Positive /\ NanosPerSecond \in Positive
      /\ MaxInt \in Nat /\ MaxDuration \in Nat
  BY PerSecondAssumption, WidthAssumption DEF Positive
<1>1. ASSUME NEW units, NEW second \in Positive, Counted(units, second),
             NEW max \in Nat
      PROVE  /\ Meaning(t, second) \in Nat
             /\ Meaning(t, second) <= max /\ ~Scanned(units, max, s).failed =>
                    /\ Scanned(units, max, s).total \in Nat
                    /\ Scanned(units, max, s).partial \in Nat
                    /\ Scanned(units, max, s).total
                           + Scanned(units, max, s).partial = Meaning(t, second)
  <2>1. PICK w, v : MeantBy(w, v, t, second)
    BY MeaningSteps
  <2>2. /\ Weighs(w, s, second) /\ Means(v, w, s)
        /\ Meaning(t, second) = v[Len(s)]
    BY <2>1 DEF MeantBy
  <2>3. Len(s) \in 0..Len(s)
    OBVIOUS
  <2>4. Meaning(t, second) \in Nat
    BY <2>2, <2>3 DEF Means
  <2>5. PICK h : ScannedBy(h, units, max, s)
    BY <1>1, ScanSteps
  <2>6. Scans(h, units, max, s) /\ Scanned(units, max, s) = h[Len(s)]
    BY <2>5 DEF ScannedBy
  <2>7. Meaning(t, second) <= max /\ ~h[Len(s)].failed =>
            /\ h[Len(s)].total \in Nat /\ h[Len(s)].partial \in Nat
            /\ h[Len(s)].total + h[Len(s)].partial = v[Len(s)]
    BY <1>1, <2>2, <2>6, NothingLost
  <2>8. QED
    BY <2>2, <2>4, <2>6, <2>7
<1>2. Meaning(t, PerSecond) \in Nat /\ Meaning(t, NanosPerSecond) \in Nat
  BY <1>a, <1>1, UnitsAre
<1>3. ASSUME Meaning(t, PerSecond) <= MaxInt
      PROVE  FromTimeRangeToMilliseconds(t)
                 \in {Failure, Gives(Meaning(t, PerSecond))}
  <2> DEFINE end == Scanned(Millistamps, MaxInt, s)
  <2>1. CASE end.failed
    BY <2>1 DEF FromTimeRangeToMilliseconds
  <2>2. CASE ~end.failed
    <3>1. end.total + end.partial = Meaning(t, PerSecond)
      BY <1>a, <1>1, <1>3, <2>2, UnitsAre
    <3>2. QED
      BY <3>1 DEF FromTimeRangeToMilliseconds
  <2>3. QED
    BY <2>1, <2>2
<1>4. ASSUME Meaning(t, NanosPerSecond) <= MaxDuration
      PROVE  ParseDuration(t)
                 \in {Failure, Gives(IF t.minus THEN -Meaning(t, NanosPerSecond)
                                     ELSE Meaning(t, NanosPerSecond))}
  <2> DEFINE end == Scanned(FrameworkUnits, MaxDuration, s)
             m == Meaning(t, NanosPerSecond)
  <2>1. CASE end.failed \/ end.partial # 0
    BY <2>1 DEF ParseDuration
  <2>2. CASE ~end.failed /\ end.partial = 0
    <3>1. end.total + end.partial = m /\ end.total \in Nat
      BY <1>a, <1>1, <1>4, <2>2, UnitsAre
    <3>2. end.total = m
      BY <2>2, <3>1
    <3>3. -m \in Int /\ -MaxDuration <= -m /\ -m <= MaxDuration
      BY <1>a, <1>2, <1>4
    <3>4. Wrapped(-m, MaxDuration) = -m
      <4> DEFINE x == -m
      <4>1. x \in Int /\ -MaxDuration <= x /\ x <= MaxDuration
        BY <3>3
      <4> HIDE DEF x
      <4>2. Wrapped(x, MaxDuration) = x
        BY <1>a, <4>1, FitsIn
      <4>3. QED
        BY <4>2 DEF x
    <3>5. QED
      BY <2>2, <3>2, <3>4 DEF ParseDuration
  <2>3. QED
    BY <2>1, <2>2
<1>5. QED
  BY <1>2, <1>3, <1>4

LEMMA RangeTextsAre ==
  ASSUME NEW t \in RangeTexts
  PROVE  t.chars \in Seq(AnyChars)
<1>2. DOMAIN InSeconds = {"s", "m", "h", "d", "w"}
  BY DEF InSeconds
<1>3. /\ Digit(0) \in AnyChars /\ Digit(2) \in AnyChars
      /\ Unit("s") \in AnyChars /\ Unit("m") \in AnyChars
      /\ Unit("h") \in AnyChars
  BY <1>2 DEF AnyChars, Digit, Unit
<1>4. Chars \subseteq AnyChars
  BY <1>3 DEF Chars
<1>5. t.chars \in Seq(Chars)
  <2>1. t.chars \in BoundedSeq(Chars, 4)
    BY DEF RangeTexts
  <2>2. PICK m \in 0..4 : t.chars \in [1..m -> Chars]
    BY <2>1 DEF BoundedSeq, SeqOf
  <2>3. m \in Nat
    OBVIOUS
  <2>4. QED
    BY <2>2, <2>3
<1>6. QED
  BY <1>4, <1>5

IsLayout(e) == e = [chart |-> e.chart, columns |-> e.columns, grids |-> e.grids]

LEMMA NothingLaidOut ==
  /\ ToSet(getDashboardColumns(<<>>)) = {}
  /\ ToSet(getDashboardGrids(<<>>)) = {}
<1>1. ToSet(getDashboardColumns(<<>>)) = {}
  <2>1. [i \in DOMAIN <<>> |->
            [j \in DOMAIN <<>>[i].chart_ids |->
                Place(<<>>[i].chart_ids[j], <<>>[i], (j - 1) * <<>>[i].height,
                      <<>>[i].column)]] = <<>>
    OBVIOUS
  <2>2. getDashboardColumns(<<>>) = <<>>
    BY <2>1 DEF getDashboardColumns, FlattenSeq
  <2>3. QED
    BY <2>2 DEF ToSet
<1>2. ToSet(getDashboardGrids(<<>>)) = {}
  <2> DEFINE start == [row |-> 0, column |-> 0, charts |-> <<>>]
  <2>1. start \in Between({})
    <3>1. <<>> \in Seq(Places({})) /\ ToSet(<<>>) = {}
      BY DEF ToSet
    <3>2. 0 \in 0..DashboardColumns
      BY DashboardColumnsAssumption
    <3>3. QED
      BY <3>1, <3>2 DEF Between, WellPlaced
  <2>2. <<>> \in Seq(AnyGrids({}))
    OBVIOUS
  <2>3. FoldLeft(NextGrid, start, <<>>) \in Between({})
    BY <2>1, <2>2, GridsFilled
  <2>4. Places({}) = {}
    BY DEF Places
  <2>5. getDashboardGrids(<<>>) \in Seq(Places({}))
    BY <2>3 DEF Between, getDashboardGrids
  <2>6. \A s \in Seq(Places({})) : ToSet(s) \subseteq Places({})
    BY DEF ToSet
  <2>7. QED
    BY <2>4, <2>5, <2>6
<1>3. QED
  BY <1>1, <1>2

LEMMA LayoutsAre ==
  ASSUME NEW b \in Layouts
  PROVE  /\ IsLayout(b)
         /\ ~KeepsOwnLayout(b) => LaidOut[b] = b.chart
<1>1. IsLayout(b)
  BY DEF Layouts, NoLayout, IsLayout
<1>2. ASSUME ~KeepsOwnLayout(b) PROVE LaidOut[b] = b.chart
  <2>1. b.grids = <<>> /\ b.columns = <<>>
    BY <1>2 DEF KeepsOwnLayout
  <2>2. LaidOut[b] = DashboardCharts(b)
    BY DEF LaidOut
  <2>3. QED
    BY <2>1, <2>2, NothingLaidOut DEF DashboardCharts
<1>3. QED
  BY <1>1, <1>2

LEMMA LayoutComesBack ==
  ASSUME NEW b \in Layouts
  PROVE  ReadLayout(b, LaidOut[b]) = b
<1>1. CASE KeepsOwnLayout(b)
  BY <1>1 DEF ReadLayout
<1>2. CASE ~KeepsOwnLayout(b)
  <2>1. ReadLayout(b, LaidOut[b]) = [b EXCEPT !.chart = b.chart]
    BY <1>2, LayoutsAre DEF ReadLayout
  <2>2. [b EXCEPT !.chart = b.chart] = b
    BY LayoutsAre DEF IsLayout
  <2>3. QED
    BY <2>1, <2>2
<1>3. QED
  BY <1>1, <1>2

LEMMA LayoutSaysWhatWasRead ==
  ASSUME NEW b \in Layouts, NEW e, IsLayout(e), NEW o, b = ReadLayout(e, o),
         ~KeepsOwnLayout(b)
  PROVE  o = LaidOut[b]
<1>1. ~KeepsOwnLayout(e)
  BY DEF ReadLayout
<1>2. b = [e EXCEPT !.chart = o]
  BY <1>1 DEF ReadLayout
<1>3. b.chart = o
  BY <1>2 DEF IsLayout
<1>4. QED
  BY <1>3, LayoutsAre

LEMMA LayoutsRead ==
  ASSUME NEW e, IsLayout(e), NEW o
  PROVE  IsLayout(ReadLayout(e, o))
BY DEF IsLayout, ReadLayout
----------------------------------------------------------------------------
(* The conversions.                                                        *)

\* The block is always one of its aspect.
BlockFits == aspect \in Aspects /\ block \in Blocks(aspect)

LEMMA RevisionsFit ==
  ASSUME aspect \in Aspects, NEW b \in Revisions
  PROVE  b \in Blocks(aspect)
<1>1. CASE aspect = "notification"
  <2>1. [type |-> "PagerDuty", parts |-> <<<<"a">>>>] \in Texts
    <3>1. <<<<"a">>>> \in [1..1 -> Parts] /\ 1 \in 0..2
      BY DEF Parts
    <3>2. <<<<"a">>>> \in UNION {[1..n -> Parts] : n \in 0..2}
      BY <3>1
    <3>3. QED
      BY <3>2 DEF Texts
  <2>2. b \in Texts
    BY <1>1, <2>1 DEF Revisions
  <2>3. QED
    BY <1>1, <2>2 DEF Blocks
<1>2. CASE aspect = "layout"
  BY <1>2 DEF Revisions, Blocks
<1>3. CASE aspect = "rules"
  BY <1>3 DEF Revisions, Blocks
<1>4. CASE aspect \in {"view", "period"}
  BY <1>4 DEF Revisions, Blocks
<1>5. QED
  BY <1>1, <1>2, <1>3, <1>4 DEF Aspects

LEMMA BlockStaysFit ==
  ASSUME BlockFits, [Next]_vars
  PROVE  BlockFits'
<1>1. aspect' = aspect
  BY DEF Next, vars, EditBlock, MakeUnknown, OthersEdit, Import, Upgrade,
     Refresh, Apply, ApplyRefused, ApplyFails, Applied
<1>2. block' = block \/ \E b \in Revisions : block' = b
  BY DEF Next, vars, EditBlock, MakeUnknown, OthersEdit, Import, Upgrade,
     Refresh, Apply, ApplyRefused, ApplyFails, Applied
<1>3. block' \in Blocks(aspect)
  BY <1>2, RevisionsFit DEF BlockFits
<1>4. QED
  BY <1>1, <1>3 DEF BlockFits

----------------------------------------------------------------------------
(* What the provider has read and what the API holds.                      *)

EntryFits(e) ==
    /\ aspect = "layout" => IsLayout(e)
    /\ aspect \in {"view", "period"} => IsTime(e)

ObjectFits(o) ==
    /\ aspect = "notification" => o \in OtherNotifications \/ SaidBy(o, Texts)
    /\ aspect = "view" => o \in ViewObjects
    /\ aspect = "period" => o \in PeriodObjects
    /\ aspect = "rules" => o \in AnyReply

\* The entry is what the object was read as, over what was there.
ReadFrom(o) ==
    /\ Readable(o)
    /\ \E e : EntryFits(e) /\ entry = ReadInto(e, o)

ConversionsInvariant ==
    /\ BlockFits
    /\ ObjectFits(object) \/ (object = None /\ entry = None)
    /\ entry # None => EntryFits(entry)
    /\ text # None => aspect = "period" /\ drifted /\ entry # None
    /\ entry # None /\ ~drifted => ReadFrom(object)

LEMMA BlocksFit ==
  ASSUME BlockFits
  PROVE  EntryFits(block) /\ block # None
<1>1. aspect = "layout" => IsLayout(block)
  BY LayoutsAre DEF BlockFits, Blocks
<1>2. aspect = "view" => IsTime(block)
  BY ViewsAre DEF BlockFits, Blocks, IsTime
<1>3. aspect = "period" => IsTime(block)
  BY PeriodsAre DEF BlockFits, Blocks, IsTime
<1>4. block # None
  BY NoneAssumption DEF BlockFits
<1>5. QED
  BY <1>1, <1>2, <1>3, <1>4 DEF EntryFits

LEMMA BlanksFit ==
  ASSUME aspect \in Aspects
  PROVE  EntryFits(Blank(aspect))
<1>2. CASE aspect = "layout"
  BY <1>2 DEF EntryFits, Blank, IsLayout, NoLayout
<1>3. CASE aspect = "view"
  BY <1>3 DEF EntryFits, Blank, IsTime
<1>4. CASE aspect = "period"
  BY <1>4 DEF EntryFits, Blank, IsTime
<1>5. CASE aspect \in {"notification", "rules"}
  BY <1>5 DEF EntryFits
<1>6. QED
  BY <1>2, <1>3, <1>4, <1>5 DEF Aspects

LEMMA FreshFit ==
  ASSUME aspect \in Aspects, NEW o \in Fresh(aspect)
  PROVE  ObjectFits(o)
<1>1. CASE aspect = "layout"
  BY <1>1 DEF ObjectFits
<1>2. CASE aspect = "view"
  BY <1>2 DEF ObjectFits, Fresh, ViewObjects
<1>3. CASE aspect = "period"
  BY <1>3 DEF ObjectFits, Fresh, PeriodObjects
<1>4. CASE aspect = "rules"
  BY <1>4, OthersAreReplies DEF ObjectFits, Fresh
<1>5. CASE aspect = "notification"
  BY <1>5 DEF ObjectFits, Fresh
<1>6. QED
  BY <1>1, <1>2, <1>3, <1>4, <1>5 DEF Aspects

LEMMA PayloadsFit ==
  ASSUME BlockFits, Convertible(block)
  PROVE  ObjectFits(Payload(block)) /\ Readable(Payload(block))
<1>1. CASE aspect = "layout"
  BY <1>1 DEF ObjectFits, Readable
<1>2. CASE aspect = "view"
  <2>1. block \in Views
    BY <1>2 DEF BlockFits, Blocks
  <2>2. Payload(block) = getDashboardTime(block)
    BY <1>2 DEF Payload
  <2>3. ReadableView(getDashboardTime(block))
    BY <2>1, ViewsReadable
  <2>4. QED
    BY <1>2, <2>1, <2>2, <2>3 DEF ObjectFits, Readable, ViewObjects
<1>3. CASE aspect = "period"
  <2>1. block \in Periods /\ Payload(block) = getVisualizationTime(block)
    BY <1>3 DEF BlockFits, Blocks, Payload
  <2>2. QED
    BY <1>3, <2>1 DEF ObjectFits, Readable, PeriodObjects
<1>4. CASE aspect = "rules"
  <2>1. block \in Slos /\ Payload(block) = getApiTargets(block)
    BY <1>4 DEF BlockFits, Blocks, Payload
  <2>2. QED
    BY <1>4, <2>1, SlosAreSlos, SentAreReplies DEF ObjectFits, Readable
<1>5. CASE aspect = "notification"
  <2>1. block \in Texts /\ Payload(block) = NewNotificationFromString(block)
        /\ Valid(block)
    BY <1>5 DEF BlockFits, Blocks, Payload, Convertible
  <2>2. Writable(NewNotificationFromString(block))
    BY <2>1, TextsAreTexts, TextIsReadAsItWas
  <2>3. QED
    BY <1>5, <2>1, <2>2 DEF ObjectFits, Readable, SaidBy
<1>6. QED
  BY <1>1, <1>2, <1>3, <1>4, <1>5 DEF Aspects, BlockFits

LEMMA ReadingFits ==
  ASSUME NEW e, EntryFits(e), NEW o, ObjectFits(o), aspect \in Aspects
  PROVE  EntryFits(ReadInto(e, o))
<1>1. CASE aspect = "layout"
  <2>1. IsLayout(ReadLayout(e, o))
    BY <1>1, LayoutsRead DEF EntryFits
  <2>2. QED
    BY <1>1, <2>1 DEF EntryFits, ReadInto
<1>2. CASE aspect = "view"
  <2>1. IsTime(ReadView(e, o))
    BY <1>2, TimesRead DEF EntryFits
  <2>2. QED
    BY <1>2, <2>1 DEF EntryFits, ReadInto
<1>3. CASE aspect = "period"
  <2>1. IsTime(ReadPeriod(e, o))
    BY <1>3, TimesRead DEF EntryFits
  <2>2. QED
    BY <1>3, <2>1 DEF EntryFits, ReadInto
<1>4. CASE aspect \in {"notification", "rules"}
  BY <1>4 DEF EntryFits
<1>5. QED
  BY <1>1, <1>2, <1>3, <1>4 DEF Aspects

LEMMA OthersFit ==
  ASSUME aspect \in Aspects, ObjectFits(object), NEW o \in OthersMake
  PROVE  ObjectFits(o)
<1>1. CASE aspect = "rules"
  <2>1. object \in AnyReply
    BY <1>1 DEF ObjectFits
  <2>2. o \in AnyReply
    BY <1>1, <2>1, OthersAreReplies DEF OthersMake
  <2>3. QED
    BY <1>1, <2>2 DEF ObjectFits
<1>2. CASE aspect # "rules"
  BY <1>2, FreshFit DEF OthersMake
<1>3. QED
  BY <1>1, <1>2

LEMMA ConversionsInit ==
  ASSUME Init
  PROVE  ConversionsInvariant
<1>1. BlockFits
  BY DEF Init, BlockFits
<1>2. CASE entry = None /\ object = None /\ text = None
  BY <1>1, <1>2 DEF ConversionsInvariant
<1>3. CASE /\ aspect = "period" /\ entry = Blank(aspect)
           /\ object = getVisualizationTime(block)
  <2>1. block \in Periods
    BY <1>1, <1>3 DEF BlockFits, Blocks
  <2>2. ObjectFits(object)
    BY <1>3, <2>1 DEF ObjectFits, PeriodObjects
  <2>3. EntryFits(entry)
    BY <1>3, BlanksFit DEF Aspects
  <2>4. entry # None
    <3>1. [range |-> 0, start |-> 0, end |-> 0] \in Periods
      BY DEF Periods
    <3>2. None \notin Periods
      BY NoneAssumption DEF Aspects, Blocks
    <3>3. QED
      BY <1>3, <3>1, <3>2 DEF Blank
  <2>5. drifted
    BY <2>4 DEF Init
  <2>6. QED
    BY <1>1, <1>3, <2>2, <2>3, <2>4, <2>5 DEF ConversionsInvariant
<1>4. QED
  BY <1>2, <1>3 DEF Init

LEMMA EditBlockKeeps ==
  ASSUME ConversionsInvariant, BlockFits', NEW b, EditBlock(b)
  PROVE  ConversionsInvariant'
BY DEF ConversionsInvariant, EditBlock, ReadFrom, EntryFits, ObjectFits,
   Readable, ReadInto

LEMMA MakeUnknownKeeps ==
  ASSUME ConversionsInvariant, BlockFits', MakeUnknown
  PROVE  ConversionsInvariant'
BY DEF ConversionsInvariant, MakeUnknown, ReadFrom, EntryFits, ObjectFits,
   Readable, ReadInto

LEMMA OthersEditKeeps ==
  ASSUME ConversionsInvariant, BlockFits', NEW o \in OthersMake, OthersEdit(o)
  PROVE  ConversionsInvariant'
<1>1. ObjectFits(o)
  BY OthersFit DEF ConversionsInvariant, OthersEdit, BlockFits
<1>2. /\ aspect' = aspect /\ entry' = entry /\ text' = text /\ text = None
      /\ object' = o /\ drifted' = TRUE
  BY DEF OthersEdit
<1>3. ObjectFits(object)'
  BY <1>1, <1>2 DEF ObjectFits
<1>4. entry' # None => EntryFits(entry)'
  BY <1>2 DEF ConversionsInvariant, EntryFits
<1>5. QED
  BY <1>2, <1>3, <1>4 DEF ConversionsInvariant

\* Whatever is read over an entry is what the object was read as.
LEMMA ReadingKeeps ==
  ASSUME ConversionsInvariant, BlockFits', aspect' = aspect, text' = None,
         NEW e, EntryFits(e), NEW o, ObjectFits(o), Readable(o),
         object' = o, entry' = ReadInto(e, o)
  PROVE  ConversionsInvariant'
<1>1. EntryFits(ReadInto(e, o))
  BY ReadingFits DEF ConversionsInvariant, BlockFits
<1>2. EntryFits(entry)'
  BY <1>1 DEF EntryFits
<1>3. ObjectFits(object)'
  BY DEF ObjectFits
<1>4. ReadFrom(object)'
  <2>1. Readable(object)'
    BY DEF Readable
  <2>2. entry' = ReadInto(e, object)'
    BY DEF ReadInto
  <2>3. EntryFits(e)'
    BY DEF EntryFits
  <2>4. QED
    BY <2>1, <2>2, <2>3 DEF ReadFrom
<1>5. QED
  BY <1>2, <1>3, <1>4 DEF ConversionsInvariant

LEMMA ImportKeeps ==
  ASSUME ConversionsInvariant, BlockFits', NEW o \in Fresh(aspect), Import(o)
  PROVE  ConversionsInvariant'
<1>1. ObjectFits(o) /\ EntryFits(Blank(aspect))
  BY FreshFit, BlanksFit DEF ConversionsInvariant, BlockFits
<1>2. text = None
  BY DEF ConversionsInvariant, Import
<1>3. /\ aspect' = aspect /\ text' = None /\ Readable(o) /\ object' = o
      /\ entry' = ReadInto(Blank(aspect), o)
  BY <1>2 DEF Import
<1>4. QED
  BY <1>1, <1>3, ReadingKeeps

LEMMA UpgradeKeeps ==
  ASSUME ConversionsInvariant, BlockFits', Upgrade
  PROVE  ConversionsInvariant'
<1> DEFINE r == Quotient(FromTimeRangeToMilliseconds(text).value, PerSecond)
<1>1. /\ aspect' = aspect /\ text' = None /\ object' = object
      /\ drifted' = drifted /\ entry' = [entry EXCEPT !.range = r]
      /\ text # None
  BY DEF Upgrade
<1>2. IsTime(entry) /\ drifted /\ entry # None /\ aspect = "period"
  BY <1>1 DEF ConversionsInvariant, EntryFits
<1> HIDE DEF r
<1>3. IsTime(entry)'
  BY <1>1, <1>2 DEF IsTime
<1>4. EntryFits(entry)'
  BY <1>1, <1>2, <1>3 DEF EntryFits
<1>5. ObjectFits(object)'
  BY <1>1, <1>2 DEF ConversionsInvariant, ObjectFits
<1>6. QED
  BY <1>1, <1>2, <1>4, <1>5 DEF ConversionsInvariant

LEMMA RefreshKeeps ==
  ASSUME ConversionsInvariant, BlockFits', Refresh
  PROVE  ConversionsInvariant'
<1>1. EntryFits(entry) /\ ObjectFits(object)
  BY DEF ConversionsInvariant, Refresh
<1>2. /\ aspect' = aspect /\ text' = None /\ Readable(object)
      /\ object' = object /\ entry' = ReadInto(entry, object)
  BY DEF Refresh
<1>3. QED
  BY <1>1, <1>2, ReadingKeeps

LEMMA ApplyKeeps ==
  ASSUME ConversionsInvariant, BlockFits', Apply
  PROVE  ConversionsInvariant'
<1>1. EntryFits(block)
  BY BlocksFit DEF ConversionsInvariant
<1>2. ObjectFits(Payload(block)) /\ Readable(Payload(block))
  BY PayloadsFit DEF ConversionsInvariant, Apply
<1>3. /\ aspect' = aspect /\ text' = None /\ object' = Payload(block)
      /\ entry' = ReadInto(block, Payload(block))
  BY DEF Apply, Applied, Planned
<1>4. QED
  BY <1>1, <1>2, <1>3, ReadingKeeps

LEMMA ApplyRefusedKeeps ==
  ASSUME ConversionsInvariant, BlockFits', ApplyRefused
  PROVE  ConversionsInvariant'
<1>1. EntryFits(block)
  BY BlocksFit DEF ConversionsInvariant
<1>2. /\ aspect' = aspect /\ text' = None /\ object' = object
      /\ drifted' = TRUE
      /\ entry' = IF entry = None THEN None ELSE block
  BY DEF ApplyRefused, Applied, Planned
<1>3. entry' # None => EntryFits(entry)'
  BY <1>1, <1>2 DEF EntryFits
<1>4. ObjectFits(object)' \/ (object' = None /\ entry' = None)
  BY <1>2 DEF ConversionsInvariant, ObjectFits
<1>5. QED
  BY <1>2, <1>3, <1>4 DEF ConversionsInvariant

LEMMA ApplyFailsKeeps ==
  ASSUME ConversionsInvariant, BlockFits', NEW o \in {object, Payload(block)},
         ApplyFails(o)
  PROVE  ConversionsInvariant'
<1>1. EntryFits(block)
  BY BlocksFit DEF ConversionsInvariant
<1>2. ObjectFits(Payload(block))
  BY PayloadsFit DEF ConversionsInvariant, ApplyFails
<1>3. /\ aspect' = aspect /\ text' = None /\ drifted' = TRUE
      /\ \/ entry = None /\ entry' = None /\ object' = object
         \/ entry # None /\ entry' = block /\ object' = o
  BY DEF ApplyFails, Applied, Planned
<1>4. entry' # None => EntryFits(entry)'
  BY <1>1, <1>3 DEF EntryFits
<1>5. ObjectFits(object)' \/ (object' = None /\ entry' = None)
  <2>1. CASE entry = None
    BY <1>3, <2>1 DEF ConversionsInvariant, ObjectFits
  <2>2. CASE entry # None
    <3>1. ObjectFits(o)
      BY <1>2, <2>2 DEF ConversionsInvariant
    <3>2. object' = o
      BY <1>3, <2>2
    <3>3. QED
      BY <1>3, <3>1, <3>2 DEF ObjectFits
  <2>3. QED
    BY <2>1, <2>2
<1>6. QED
  BY <1>3, <1>4, <1>5 DEF ConversionsInvariant

LEMMA ConversionsStep ==
  ASSUME ConversionsInvariant, [Next]_vars
  PROVE  ConversionsInvariant'
<1>1. BlockFits'
  BY BlockStaysFit DEF ConversionsInvariant
<1>2. ASSUME NEW b \in Revisions, EditBlock(b)
      PROVE  ConversionsInvariant'
  BY <1>1, <1>2, EditBlockKeeps
<1>3. CASE MakeUnknown
  BY <1>1, <1>3, MakeUnknownKeeps
<1>4. ASSUME NEW o \in OthersMake, OthersEdit(o)
      PROVE  ConversionsInvariant'
  BY <1>1, <1>4, OthersEditKeeps
<1>5. ASSUME NEW o \in Fresh(aspect), Import(o)
      PROVE  ConversionsInvariant'
  BY <1>1, <1>5, ImportKeeps
<1>6. CASE Upgrade
  BY <1>1, <1>6, UpgradeKeeps
<1>7. CASE Refresh
  BY <1>1, <1>7, RefreshKeeps
<1>8. CASE Apply
  BY <1>1, <1>8, ApplyKeeps
<1>9. CASE ApplyRefused
  BY <1>1, <1>9, ApplyRefusedKeeps
<1>10. ASSUME NEW o \in {object, Payload(block)}, ApplyFails(o)
       PROVE  ConversionsInvariant'
  BY <1>1, <1>10, ApplyFailsKeeps
<1>11. CASE UNCHANGED vars
  BY <1>11, <1>1 DEF vars, ConversionsInvariant, ReadFrom, EntryFits,
     ObjectFits, Readable, ReadInto
<1>12. QED
  BY <1>2, <1>3, <1>4, <1>5, <1>6, <1>7, <1>8, <1>9, <1>10, <1>11 DEF Next

----------------------------------------------------------------------------
(* What the invariant gives.                                               *)

\* A notification that can be written is what some text says, if it can be
\* said, or if its text, without a comma of its own, is one of a block.
LEMMA WhatIsHeldIsSaid ==
  ASSUME NEW n, n \in OtherNotifications \/ SaidBy(n, Texts), Writable(n),
         \/ NoCommas(n) /\ Valid(NewNotificationStringFromAPI(n))
         \/ Sayable(n)
  PROVE  SaidBy(n, AnyText)
<1>1. CASE SaidBy(n, Texts)
  BY <1>1, TextsAreTexts DEF SaidBy
<1>2. CASE n \in OtherNotifications
  BY <1>2, OthersAreShaped, TextsSay
<1>3. QED
  BY <1>1, <1>2

\* The notification that the text of a said one says.
LEMMA SaidIsReadAsItWas ==
  ASSUME NEW n, SaidBy(n, AnyText)
  PROVE  Equivalent(NewNotificationFromString(NewNotificationStringFromAPI(n)), n)
<1>1. PICK t \in AnyText : Valid(t) /\ n = NewNotificationFromString(t)
  BY DEF SaidBy
<1>2. QED
  BY <1>1, TextIsReadAsItWas

\* An e-mail with the address and the recipients of one that a text says is
\* what a text says too.
LEMMA SameMailIsSaid ==
  ASSUME NEW n, n \in OtherNotifications \/ SaidBy(n, Texts), Writable(n),
         NEW m, NEW x, NEW y, NEW z, IsEmail(m, x, y, z),
         n.type = "Email", Equivalent(n, m)
  PROVE  SaidBy(n, AnyText)
<1>1. CASE SaidBy(n, Texts)
  BY <1>1, TextsAreTexts DEF SaidBy
<1>2. CASE n \in OtherNotifications
  <2>1. IsMail(n)
    BY <1>2, OthersAreShaped DEF Shaped, Plain
  <2>2. PICK address, cc, bcc : Mail(n, address, cc, bcc)
    BY <2>1 DEF IsMail
  <2>3. /\ n.fields[1] = <<address>> /\ m.fields[1] = <<x>> /\ IsAddress(x)
        /\ n.fields[2][1] = cc /\ m.fields[2][1] = y
        /\ n.fields[3][1] = bcc /\ m.fields[3][1] = z
        /\ m.type = "Email"
    BY <2>2 DEF Mail, IsEmail
  <2>4. /\ <<address>> = <<x>>
        /\ SameRecipients(cc, y) /\ SameRecipients(bcc, z)
    BY <2>3 DEF Equivalent
  <2>5. IsAddress(address)
    <3>1. <<address>>[1] = address /\ <<x>>[1] = x
      OBVIOUS
    <3>2. QED
      BY <2>3, <2>4, <3>1
  <2>6. AreWords(cc) /\ AreWords(bcc)
    BY <2>2, <2>4, SameRecipientsAreWords DEF Mail, IsEmail, AreWords
  <2>7. QED
    BY <2>2, <2>5, <2>6, MailSaid
<1>3. QED
  BY <1>1, <1>2

LEMMA InvariantSaysQuietIsTrue ==
  ASSUME ConversionsInvariant
  PROVE  QuietMeansTrue
<1>1. SUFFICES ASSUME entry = block, text = None, ~drifted, Convertible(block)
               PROVE  ServesInSeconds \/ Unseen
  BY DEF QuietMeansTrue
<1>2. entry # None /\ BlockFits
  BY <1>1, BlocksFit DEF ConversionsInvariant
<1>3. ReadFrom(object) /\ ObjectFits(object)
  BY <1>1, <1>2 DEF ConversionsInvariant
<1>4. PICK e : EntryFits(e) /\ block = ReadInto(e, object)
  BY <1>1, <1>3 DEF ReadFrom
<1>5. Readable(object)
  BY <1>3 DEF ReadFrom
<1>6. CASE aspect = "notification"
  <2>1. block = NewNotificationStringFromAPI(object) /\ Valid(block)
    BY <1>1, <1>4, <1>6 DEF ReadInto, Convertible
  <2>2. Writable(object)
        /\ (object \in OtherNotifications \/ SaidBy(object, Texts))
    BY <1>3, <1>5, <1>6 DEF ObjectFits, Readable
  <2>3. CASE ~NoCommas(object)
    BY <1>6, <2>3 DEF Unseen
  <2>4. CASE NoCommas(object)
    <3>1. SaidBy(object, AnyText)
      BY <2>1, <2>2, <2>4, WhatIsHeldIsSaid
    <3>2. Equivalent(object, NewNotificationFromString(block))
      BY <2>1, <3>1, SaidIsReadAsItWas, EquivalentBothWays
    <3>3. QED
      BY <1>6, <3>2 DEF ServesInSeconds, Serves, Payload
  <2>5. QED
    BY <2>3, <2>4
<1>7. CASE aspect = "layout"
  <2>1. block \in Layouts /\ IsLayout(e) /\ block = ReadLayout(e, object)
    BY <1>2, <1>4, <1>7 DEF BlockFits, Blocks, EntryFits, ReadInto
  <2>2. CASE KeepsOwnLayout(block)
    BY <1>7, <2>2 DEF Unseen
  <2>3. CASE ~KeepsOwnLayout(block)
    <3>1. object = LaidOut[block]
      BY <2>1, <2>3, LayoutSaysWhatWasRead
    <3>2. QED
      BY <1>7, <3>1 DEF ServesInSeconds, Serves, Payload
  <2>4. QED
    BY <2>2, <2>3
<1>8. CASE aspect = "view"
  <2>1. /\ block \in Views /\ IsTime(e) /\ block = ReadView(e, object)
        /\ object \in ViewObjects /\ ReadableView(object)
    BY <1>2, <1>3, <1>4, <1>5, <1>8
       DEF BlockFits, Blocks, EntryFits, ReadInto, ObjectFits, Readable
  <2>2. Payload(block) = getDashboardTime(block)
    BY <1>8 DEF Payload
  <2>3. CASE \/ Unread(object.start)
             \/ Unread(object.end) /\ Whole(object.start) = Payload(block).start
    BY <1>8, <2>3 DEF Unseen
  <2>4. CASE ~\/ Unread(object.start)
              \/ Unread(object.end) /\ Whole(object.start) = Payload(block).start
    <3>1. /\ ~Unread(object.start)
          /\ ~(/\ Unread(object.end)
               /\ Whole(object.start) = getDashboardTime(block).start)
      BY <2>2, <2>4
    <3>2. WholeSeconds(object) = getDashboardTime(block)
      BY <2>1, <3>1, ViewSaysWhatWasRead
    <3>3. QED
      BY <1>8, <2>2, <3>2 DEF ServesInSeconds
  <2>5. QED
    BY <2>3, <2>4
<1>9. CASE aspect = "period"
  <2>1. /\ block \in Periods /\ IsTime(e) /\ block = ReadPeriod(e, object)
        /\ object \in PeriodObjects
    BY <1>2, <1>3, <1>4, <1>9 DEF BlockFits, Blocks, EntryFits, ReadInto, ObjectFits
  <2>2. Payload(block) = getVisualizationTime(block)
    BY <1>9 DEF Payload
  <2>3. SUFFICES ASSUME ~Unseen PROVE ServesInSeconds
    OBVIOUS
  <2>4. /\ object # NoTime
        /\ object.range # Nothing =>
               ~InFirstSecond(object.range) /\ ~Panics(block)
        /\ ~(/\ object.range = Nothing
             /\ block.start = OrZero(object.start)
             /\ block.end = OrZero(object.end))
    BY <1>9, <2>3 DEF Unseen
  <2>5. WholeSeconds(object) = getVisualizationTime(block)
    BY <2>1, <2>4, PeriodSaysWhatWasRead
  <2>6. object.range # Nothing
    <3>1. SUFFICES ASSUME object.range = Nothing PROVE FALSE
      OBVIOUS
    <3>2. block = [e EXCEPT !.start = OrZero(object.start),
                            !.end = OrZero(object.end)]
      BY <2>1, <2>4, <3>1 DEF ReadPeriod
    <3>3. QED
      BY <2>1, <2>4, <3>1, <3>2 DEF IsTime
  <2>7. QED
    BY <1>9, <2>2, <2>4, <2>5, <2>6 DEF ServesInSeconds
<1>10. CASE aspect = "rules"
  <2>1. block = getTfTargets(object) /\ object \in AnyReply
    BY <1>3, <1>4, <1>10 DEF ReadInto, ObjectFits
  <2>2. object \in AnySlo /\ TargetFields(object.target) = object.target
    BY <2>1 DEF AnyReply
  <2>3. SameRules(object, getApiTargets(block))
    BY <2>1, <2>2, SloReadSaysTheSame
  <2>4. QED
    BY <1>10, <2>3 DEF ServesInSeconds, Serves, Payload
<1>11. QED
  BY <1>2, <1>6, <1>7, <1>8, <1>9, <1>10 DEF BlockFits, Aspects

LEMMA InvariantSaysTextsMean ==
  ASSUME ConversionsInvariant
  PROVE  TextMeansNotification
<1>1. SUFFICES ASSUME aspect = "notification", entry # None, ~drifted,
                      NoCommas(object), PlainChannel(object), OneWay(object),
                      Understood(object), NamedTemplate(object)
               PROVE  Equivalent(NewNotificationFromString(entry), object)
  BY DEF TextMeansNotification
<1>2. ReadFrom(object) /\ ObjectFits(object)
  BY <1>1 DEF ConversionsInvariant
<1>3. PICK e : entry = ReadInto(e, object)
  BY <1>2 DEF ReadFrom
<1>4. entry = NewNotificationStringFromAPI(object)
  BY <1>1, <1>3 DEF ReadInto
<1>5. Writable(object)
      /\ (object \in OtherNotifications \/ SaidBy(object, Texts))
  BY <1>1, <1>2 DEF ReadFrom, Readable, ObjectFits
<1>6. SaidBy(object, AnyText)
  BY <1>1, <1>5, WhatIsHeldIsSaid DEF Sayable
<1>7. QED
  BY <1>4, <1>6, SaidIsReadAsItWas

\* A notification equivalent to a canonical text's is written as that text.
LEMMA EquivalentComesBack ==
  ASSUME NEW t \in Texts, Canonical(t), NEW n, Writable(n),
         n \in OtherNotifications \/ SaidBy(n, Texts),
         Equivalent(n, NewNotificationFromString(t))
  PROVE  NewNotificationStringFromAPI(n) = t
<1> DEFINE m == NewNotificationFromString(t)
<1>1. t \in AnyText
  BY TextsAreTexts
<1>2. Valid(t)
  <2>1. SUFFICES ASSUME ~Valid(t) PROVE FALSE
    OBVIOUS
  <2>2. m = Invalid
    BY <2>1 DEF NewNotificationFromString
  <2>3. n = Invalid
    BY <2>2 DEF Equivalent, Invalid
  <2>4. QED
    BY <2>3 DEF Writable, Invalid, Types, SinglePart
<1>3. NewNotificationStringFromAPI(m) = t
  BY <1>1, <1>2, CanonicalComesBack
<1>4. m.type = t.type
  BY <1>2 DEF NewNotificationFromString
<1>5. CASE ~(n.type = "Email" /\ m.type = "Email")
  <2>1. n = m
    BY <1>5 DEF Equivalent
  <2>2. QED
    BY <1>3, <2>1
<1>6. CASE n.type = "Email" /\ m.type = "Email"
  <2>0. IsEmail(m, t.parts[1], NamedAt(t, 2), NamedAt(t, 3))
    BY <1>1, <1>2, <1>4, <1>6, EmailText
  <2>1. SaidBy(n, AnyText)
    BY <1>6, <2>0, SameMailIsSaid
  <2>2. PICK u \in AnyText : Valid(u) /\ n = NewNotificationFromString(u)
    BY <2>1 DEF SaidBy
  <2>3. u.type = "Email" /\ t.type = "Email"
    BY <1>4, <1>6, <2>2 DEF NewNotificationFromString
  <2>4. IsEmail(n, u.parts[1], NamedAt(u, 2), NamedAt(u, 3))
    BY <2>2, <2>3, EmailText
  <2>5. IsEmail(m, t.parts[1], NamedAt(t, 2), NamedAt(t, 3))
    BY <1>1, <1>2, <2>3, EmailText
  <2>6. Equivalent(n, m)
    OBVIOUS
  <2> HIDE DEF m
  <2>7. NewNotificationStringFromAPI(n) = NewNotificationStringFromAPI(m)
    BY <2>4, <2>5, <2>6, EmailsAlike
  <2>8. QED
    BY <1>3, <2>7
<1>7. QED
  BY <1>5, <1>6

LEMMA ServedComesBack ==
  ASSUME BlockFits, ObjectFits(object), Readable(object), Serves, ~Unsettled
  PROVE  ReadInto(block, object) = block
<1>1. CASE aspect = "notification"
  <2>1. /\ block \in Texts /\ Canonical(block) /\ Writable(object)
        /\ object \in OtherNotifications \/ SaidBy(object, Texts)
        /\ Equivalent(object, NewNotificationFromString(block))
    BY <1>1 DEF BlockFits, Blocks, ObjectFits, Readable, Serves, Payload,
       Unsettled
  <2>2. NewNotificationStringFromAPI(object) = block
    BY <2>1, EquivalentComesBack
  <2>3. QED
    BY <1>1, <2>2 DEF ReadInto
<1>2. CASE aspect = "layout"
  BY <1>2, LayoutComesBack DEF BlockFits, Blocks, Serves, Payload, ReadInto
<1>3. CASE aspect = "view"
  BY <1>3, ViewComesBack DEF BlockFits, Blocks, Serves, Payload, ReadInto,
     Unsettled
<1>4. CASE aspect = "period"
  BY <1>4, PeriodComesBack DEF BlockFits, Blocks, Serves, Payload, ReadInto
<1>5. CASE aspect = "rules"
  <2>1. /\ block \in AnySlo /\ Settles(block) /\ object \in AnySlo
        /\ SameRules(object, getApiTargets(block))
    BY <1>5, SlosAreSlos DEF BlockFits, Blocks, ObjectFits, AnyReply, Serves,
       Payload, Unsettled
  <2>2. getTfTargets(object) = block
    BY <2>1, SettledSloComesBack
  <2>3. QED
    BY <1>5, <2>2 DEF ReadInto
<1>6. QED
  BY <1>1, <1>2, <1>3, <1>4, <1>5 DEF BlockFits, Aspects

LEMMA ServedBlockStays ==
  ASSUME ConversionsInvariant, [Next]_vars, entry = block, text = None, Serves,
         ~Unsettled, block' = block
  PROVE  entry' = entry
<1>1. BlockFits /\ entry # None
  BY BlocksFit DEF ConversionsInvariant
<1>2. CASE Refresh
  <2>1. entry' = ReadInto(block, object) /\ Readable(object)
    BY <1>2 DEF Refresh
  <2>2. ObjectFits(object)
    BY <1>1 DEF ConversionsInvariant
  <2>3. QED
    BY <1>1, <2>1, <2>2, ServedComesBack
<1>3. CASE ~Refresh
  BY <1>1, <1>3 DEF Next, vars, EditBlock, MakeUnknown, OthersEdit, Import,
     Upgrade, Apply, ApplyRefused, ApplyFails, Planned
<1>4. QED
  BY <1>2, <1>3

(* An empty plan after a refresh means that the API holds what the block   *)
(* says, a time to the second, with whatever milliseconds others may leave *)
(* there, every width of an int and every width of a dashboard: what the   *)
(* entry holds was read from the object, and the read of each conversion   *)
(* loses nothing but what Unseen names.                                    *)
THEOREM QuietIsTrue == Spec => []QuietMeansTrue
<1>1. Init => ConversionsInvariant
  BY ConversionsInit
<1>2. ConversionsInvariant /\ [Next]_vars => ConversionsInvariant'
  BY ConversionsStep
<1>3. ConversionsInvariant => QuietMeansTrue
  BY InvariantSaysQuietIsTrue
<1>4. QED
  BY <1>1, <1>2, <1>3, PTL DEF Spec

(* The text a notification is written as means the notification, if the    *)
(* five things no block can say are not in it, however often it was        *)
(* applied, refreshed, imported or changed: its fields are then the parts  *)
(* of a text the parser takes, and the parser undoes the writer up to the  *)
(* order in which the writer sorted.                                       *)
THEOREM TextsMeanNotifications == Spec => []TextMeansNotification
<1>1. Init => ConversionsInvariant
  BY ConversionsInit
<1>2. ConversionsInvariant /\ [Next]_vars => ConversionsInvariant'
  BY ConversionsStep
<1>3. ConversionsInvariant => TextMeansNotification
  BY InvariantSaysTextsMean
<1>4. QED
  BY <1>1, <1>2, <1>3, PTL DEF Spec

(* A refresh of an object that serves a block that settles leaves the      *)
(* entry equal to the block: sorting recipients and alert rules undoes     *)
(* whatever order the API returns, and times and layouts come back.        *)
THEOREM ServedBlocksStayQuiet == Spec => ServedStaysQuiet
<1>1. Init => ConversionsInvariant
  BY ConversionsInit
<1>2. ConversionsInvariant /\ [Next]_vars => ConversionsInvariant'
  BY ConversionsStep
<1>3. ConversionsInvariant /\ [Next]_vars
         => [entry = block /\ text = None /\ Serves /\ ~Unsettled
                 /\ block' = block => entry' = entry]_vars
  BY ServedBlockStays
<1>4. QED
  BY <1>1, <1>2, <1>3, PTL DEF Spec, ServedStaysQuiet

(* The types of the conversions, for every number of disturbances.         *)
LEMMA ConversionsTypesInit ==
  ASSUME Init
  PROVE  TypeOK
<1>1. budget \in 0..MaxDisturbances
  BY ConversionsAssumption DEF Init
<1>2. known \in BOOLEAN
  <2>1. CASE aspect \in {"notification", "rules"}
    BY <2>1 DEF Init
  <2>2. CASE aspect \notin {"notification", "rules"}
    BY <2>2 DEF Init
  <2>3. QED
    BY <2>1, <2>2
<1>3. drifted \in BOOLEAN
  BY Zenon DEF Init
<1>4. aspect \in Aspects /\ block \in Blocks(aspect) /\ lost \in BOOLEAN
      /\ (text # None => aspect = "period" /\ text \in RangeTexts)
  BY DEF Init
<1>5. QED
  BY <1>1, <1>2, <1>3, <1>4 DEF TypeOK

LEMMA ConversionsTypes ==
  ASSUME TypeOK, [Next]_vars
  PROVE  TypeOK'
<1>1. BlockFits'
  BY BlockStaysFit DEF TypeOK, BlockFits
<1>2. /\ aspect' = aspect
      /\ text' = text \/ text' = None
      /\ known' = known \/ known' \in BOOLEAN
      /\ drifted' = drifted \/ drifted' \in BOOLEAN
  BY DEF Next, vars, EditBlock, MakeUnknown, OthersEdit, Import, Upgrade,
     Refresh, Apply, ApplyRefused, ApplyFails, Applied
<1>3. budget' = budget \/ (budget > 0 /\ budget' = budget - 1)
  BY DEF Next, vars, EditBlock, MakeUnknown, OthersEdit, Import, Upgrade,
     Refresh, Apply, ApplyRefused, ApplyFails, Applied, Disturb
<1>4. budget' \in 0..MaxDisturbances
  BY <1>3, ConversionsAssumption DEF TypeOK
<1>5. lost' \in BOOLEAN
  <2>1. \/ lost' = lost
        \/ \E o \in {object, Payload(block)} : lost' = (lost \/ o # object)
    BY DEF Next, vars, EditBlock, MakeUnknown, OthersEdit, Import, Upgrade,
       Refresh, Apply, ApplyRefused, ApplyFails
  <2>2. QED
    BY <2>1, Zenon DEF TypeOK
<1>6. QED
  BY <1>1, <1>2, <1>4, <1>5 DEF TypeOK, BlockFits

(* The block is always one of its aspect, and only a detector's entry      *)
(* waits for its migration.                                                *)
THEOREM ConversionsTypeCorrect == Spec => []TypeOK
<1>1. Init => TypeOK
  BY ConversionsTypesInit
<1>2. TypeOK /\ [Next]_vars => TypeOK'
  BY ConversionsTypes
<1>3. QED
  BY <1>1, <1>2, PTL DEF Spec

MigrationInvariant == ConversionsInvariant /\ TypeOK

(* What a migrated entry stores is the seconds its text meant, rounded     *)
(* down, if their milliseconds are an int, of whatever width; and the      *)
(* framework's parser takes no such text for another time: both scan from  *)
(* the left what Meaning weighs from the right, and the framework counts   *)
(* the minus, which a text that is migrated always has.                    *)
THEOREM MigratedRangesMean == Spec => MigrationKeepsMeaning
<1> DEFINE seconds == Meaning(text, PerSecond) \div PerSecond
           Meant == /\ Meaning(text, PerSecond) <= MaxInt => entry'.range = seconds
                    /\ ~ParseDuration(text).failed
                           /\ Meaning(text, NanosPerSecond) <= MaxDuration =>
                           ParseDuration(text).value
                               = -Meaning(text, NanosPerSecond)
<1>1. Init => MigrationInvariant
  BY ConversionsInit, ConversionsTypesInit DEF MigrationInvariant
<1>2. MigrationInvariant /\ [Next]_vars => MigrationInvariant'
  BY ConversionsStep, ConversionsTypes DEF MigrationInvariant
<1>3. ASSUME MigrationInvariant, [Next]_vars, text # None, text' = None
      PROVE  Meant
  <2>1. Upgrade
    BY <1>3 DEF Next, vars, EditBlock, MakeUnknown, OthersEdit, Import,
       Refresh, Apply, ApplyRefused, ApplyFails, Applied, Planned
  <2>2. text.chars \in Seq(AnyChars)
    BY <1>3, RangeTextsAre DEF MigrationInvariant, TypeOK
  <2>3. IsTime(entry)
    BY <1>3 DEF MigrationInvariant, ConversionsInvariant, EntryFits
  <2>4. text.minus /\ ~FromTimeRangeToMilliseconds(text).failed
    BY <2>1 DEF Upgrade, FromTimeRangeToMilliseconds, Failure
  <2>5. ASSUME Meaning(text, PerSecond) <= MaxInt
        PROVE  entry'.range = seconds
    <3> DEFINE n == Meaning(text, PerSecond)
               r == n \div PerSecond
    <3>1. FromTimeRangeToMilliseconds(text).value = n /\ n \in Nat
      BY <2>2, <2>4, <2>5, RangesMeanTheSame DEF Failure, Gives
    <3> HIDE DEF n
    <3>2. Quotient(n, PerSecond) = r
      BY <3>1 DEF Quotient
    <3>3. entry' = [entry EXCEPT !.range = r]
      BY <2>1, <3>1, <3>2 DEF Upgrade
    <3> HIDE DEF r
    <3>4. entry'.range = r
      BY <2>3, <3>3 DEF IsTime
    <3>5. QED
      BY <3>4 DEF r, n
  <2>6. ASSUME ~ParseDuration(text).failed,
               Meaning(text, NanosPerSecond) <= MaxDuration
        PROVE  ParseDuration(text).value = -Meaning(text, NanosPerSecond)
    <3> DEFINE n == -Meaning(text, NanosPerSecond)
    <3>1. ParseDuration(text) \in {Failure, Gives(n)}
      BY <2>2, <2>4, <2>6, RangesMeanTheSame
    <3> HIDE DEF n
    <3>2. ParseDuration(text).value = n
      BY <2>6, <3>1 DEF Failure, Gives
    <3>3. QED
      BY <3>2 DEF n
  <2>7. QED
    BY <2>5, <2>6
<1>4. MigrationInvariant /\ [Next]_vars => [text # None /\ text' = None => Meant]_vars
  <2> HIDE DEF Meant
  <2>1. QED
    BY <1>3
<1>5. QED
  BY <1>1, <1>2, <1>4, PTL DEF Spec, MigrationKeepsMeaning

LEMMA LayoutsHaveGrids ==
  ASSUME NEW layout \in Layouts, layout.grids # <<>>
  PROVE  /\ layout.grids \in Seq(AnyGrids(Nat))
         /\ LaidOut[layout] = ToSet(getDashboardGrids(layout.grids))
<1>1. PICK n \in 1..2 : \E grids \in [1..n -> Grids] :
              layout = [NoLayout EXCEPT !.grids = grids]
  BY DEF Layouts, NoLayout
<1>2. PICK grids \in [1..n -> Grids] :
              layout = [NoLayout EXCEPT !.grids = grids]
  BY <1>1
<1>3. /\ layout.grids = grids
      /\ layout.columns = <<>>
      /\ layout.chart = {}
  BY <1>2 DEF NoLayout
<1>4. Grids \subseteq AnyGrids(Nat)
  <2>1. \A k \in 0..3 : Ids(k) \in Seq(Nat)
    <3>1. SUFFICES ASSUME NEW k \in 0..3 PROVE Ids(k) \in Seq(Nat)
      OBVIOUS
    <3>2. k \in Nat /\ Ids(k) \in [1..k -> Nat]
      BY DEF Ids
    <3>3. QED
      BY <3>2
  <2>2. 1..2 \subseteq Nat \ {0}
    OBVIOUS
  <2>3. QED
    BY <2>1, <2>2 DEF Grids, AnyGrids
<1>5. grids \in Seq(AnyGrids(Nat))
  <2>1. n \in Nat /\ grids \in [1..n -> AnyGrids(Nat)]
    BY <1>2, <1>4
  <2>2. QED
    BY <2>1
<1>6. QED
  BY <1>3, <1>5, NothingLaidOut DEF LaidOut, DashboardCharts

(* Charts laid out in grids fit, on dashboards of every width: the grids   *)
(* are laid out below each other and every chart to the right of or below  *)
(* the ones before it.                                                     *)
THEOREM GridsAlwaysFit == Spec => []GridsFit
<1>1. Init => BlockFits
  BY DEF Init, BlockFits
<1>2. BlockFits /\ [Next]_vars => BlockFits'
  BY BlockStaysFit
<1>3. BlockFits => GridsFit
  <2>1. SUFFICES ASSUME BlockFits, aspect = "layout", block.grids # <<>>
                 PROVE  WellPlaced(LaidOut[block])
    BY DEF GridsFit
  <2>2. block \in Layouts
    BY <2>1 DEF BlockFits, Blocks
  <2>3. QED
    BY <2>1, <2>2, LayoutsHaveGrids, GridsNeverOverlap
<1>4. QED
  BY <1>1, <1>2, <1>3, PTL DEF Spec
=============================================================================
