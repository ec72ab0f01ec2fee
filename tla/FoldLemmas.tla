----------------------------- MODULE FoldLemmas -----------------------------
(***************************************************************************)
(* Facts about finite sets, natural numbers and sums that the proofs about *)
(* the registries need.  Two of them replace induction: a collection of    *)
(* finite sets has a smallest one, and a set of natural numbers has a      *)
(* least one, so a smallest counterexample can be picked and refuted.      *)
(***************************************************************************)
EXTENDS Functions, Sequences, FiniteSetTheorems, TLAPS

\* Among some subsets of a finite set there is one that includes no other.
LEMMA Smallest ==
    ASSUME NEW S, IsFiniteSet(S), NEW C, C \subseteq SUBSET S, C # {}
    PROVE  \E m \in C : \A s \in C : s \subseteq m => s = m
<1>1. C \subseteq FiniteSubsetsOf(S)
  BY FS_FiniteSubsetsOfFinite
<1>2. PICK m \in C : \A s \in C : ~(<<s, m>> \in StrictSubsetOrdering(S))
  <2>1. IsWellFoundedOn(StrictSubsetOrdering(S), FiniteSubsetsOf(S))
    BY FS_StrictSubsetOrderingWellFounded
  <2>2. QED BY <1>1, <2>1, WFMin
<1>3. QED
  BY <1>2 DEF StrictSubsetOrdering

\* Some natural numbers have a least one.
LEMMA LeastNat ==
    ASSUME NEW C, C \subseteq Nat, C # {}
    PROVE  \E m \in C : \A n \in C : m <= n
<1>1. PICK top \in C : TRUE
  OBVIOUS
<1> DEFINE below == {m \in C : m <= top}
           P == {1..n : n \in below}
           S == 1..top
<1>2. PICK p \in P : \A q \in P : q \subseteq p => q = p
  <2>1. P \subseteq SUBSET S /\ P # {}
    BY <1>1
  <2>2. IsFiniteSet(S)
    BY <1>1, FS_Interval
  <2> HIDE DEF P, S
  <2>3. QED BY <2>1, <2>2, Smallest
<1>3. PICK m \in below : p = 1..m
  BY <1>2
<1>4. ASSUME NEW n \in C, n < m PROVE FALSE
  <2>1. n \in below /\ n \in Nat /\ m \in Nat
    BY <1>1, <1>3, <1>4
  <2>2. 1..n \in P /\ 1..n \subseteq 1..m
    BY <2>1, <1>4
  <2>3. 1..n = 1..m
    BY <2>2, <1>2, <1>3
  <2>4. m \in 1..m /\ m \notin 1..n
    BY <2>1, <1>4
  <2>5. QED BY <2>3, <2>4
<1>5. QED BY <1>3, <1>4

-----------------------------------------------------------------------------
\* What a sum over a set adds first, and one step of SumFunctionOnSet.
First(s) == CHOOSE x \in s : TRUE
SumBody(f, g, s) == IF s = {} THEN 0 ELSE f[First(s)] + g[s \ {First(s)}]

\* g is the recursive function behind the sums of f over the subsets of S.
SumsUp(g, f, S) == g = [s \in SUBSET S |-> SumBody(f, g, s)]

LEMMA SumIs ==
    ASSUME NEW f, NEW S
    PROVE  SumFunctionOnSet(f, S) = (CHOOSE g : SumsUp(g, f, S))[S]
BY DEF SumFunctionOnSet, FoldFunctionOnSet, MapThenFoldSet, SumsUp, SumBody, First

\* The sums over the subsets of a part of S are among those of S.
LEMMA SumsOfPart ==
    ASSUME NEW f, NEW S, NEW T \in SUBSET S, NEW g, SumsUp(g, f, S)
    PROVE  SumsUp([s \in SUBSET T |-> g[s]], f, T)
<1> DEFINE h == [s \in SUBSET T |-> g[s]]
<1>1. ASSUME NEW s \in SUBSET T PROVE h[s] = SumBody(f, h, s)
  <2>1. s \in SUBSET S /\ s \ {First(s)} \in SUBSET T
    OBVIOUS
  <2>2. g[s] = SumBody(f, g, s)
    BY <2>1 DEF SumsUp
  <2>3. QED BY <2>1, <2>2 DEF SumBody
<1>2. QED BY <1>1 DEF SumsUp

\* There is one such function at most.
LEMMA SumsUnique ==
    ASSUME NEW f, NEW S, IsFiniteSet(S), NEW g, SumsUp(g, f, S), NEW h, SumsUp(h, f, S)
    PROVE  g = h
<1> DEFINE C == {s \in SUBSET S : g[s] # h[s]}
<1>1. CASE C # {}
  <2>1. PICK m \in C : \A s \in C : s \subseteq m => s = m
    <3>1. C \subseteq SUBSET S
      OBVIOUS
    <3> HIDE DEF C
    <3>2. QED BY <1>1, <3>1, Smallest
  <2>2. m \in SUBSET S /\ g[m] = SumBody(f, g, m) /\ h[m] = SumBody(f, h, m)
    BY <2>1 DEF SumsUp
  <2>3. m # {}
    BY <2>1, <2>2 DEF SumBody
  <2>4. First(m) \in m
    BY <2>3 DEF First
  <2>5. g[m \ {First(m)}] = h[m \ {First(m)}]
    BY <2>1, <2>2, <2>4
  <2>6. QED BY <2>1, <2>2, <2>5 DEF SumBody
<1>2. CASE C = {}
  <2>1. DOMAIN g = SUBSET S /\ DOMAIN h = SUBSET S /\ g = [s \in DOMAIN g |-> g[s]]
        /\ h = [s \in DOMAIN h |-> h[s]]
    BY DEF SumsUp
  <2>2. QED BY <1>2, <2>1
<1>3. QED BY <1>1, <1>2

\* There is one.
LEMMA SumsExist ==
    ASSUME NEW f, NEW S, IsFiniteSet(S)
    PROVE  \E g : SumsUp(g, f, S)
<1> DEFINE C == {T \in SUBSET S : ~\E g : SumsUp(g, f, T)}
<1>1. ASSUME C # {} PROVE FALSE
  <2>1. PICK T \in C : \A s \in C : s \subseteq T => s = T
    <3>1. C \subseteq SUBSET S
      OBVIOUS
    <3> HIDE DEF C
    <3>2. QED BY <1>1, <3>1, Smallest
  <2> DEFINE v(U) == (CHOOSE g : SumsUp(g, f, U))[U]
             G == [s \in SUBSET T |-> IF s = {} THEN 0 ELSE f[First(s)] + v(s \ {First(s)})]
  <2>2. ASSUME NEW U \in SUBSET T, U # T
        PROVE  SumsUp(CHOOSE g : SumsUp(g, f, U), f, U)
    <3>1. U \notin C /\ U \in SUBSET S
      BY <2>1, <2>2
    <3>2. \E g : SumsUp(g, f, U)
      BY <3>1
    <3>3. QED BY <3>2
  <2>3. ASSUME NEW U \in SUBSET T, U # T
        PROVE  G[U] = v(U)
    <3> DEFINE gU == CHOOSE g : SumsUp(g, f, U)
               W == U \ {First(U)}
    <3>1. SumsUp(gU, f, U)
      BY <2>2, <2>3
    <3>2. gU[U] = SumBody(f, gU, U)
      BY <3>1 DEF SumsUp
    <3>3. CASE U = {}
      BY <3>2, <3>3 DEF SumBody
    <3>4. CASE U # {}
      <4>1. First(U) \in U
        BY <3>4 DEF First
      <4>2. W \in SUBSET U /\ W \in SUBSET T /\ W # T
        BY <2>3, <4>1
      <4>3. SumsUp([s \in SUBSET W |-> gU[s]], f, W)
        <5> HIDE DEF gU, W
        <5>1. QED BY <3>1, <4>2, SumsOfPart
      <4>4. SumsUp(CHOOSE g : SumsUp(g, f, W), f, W)
        BY <2>2, <4>2
      <4>5. IsFiniteSet(W)
        BY <2>1, <4>2, FS_Subset
      <4>6. [s \in SUBSET W |-> gU[s]] = CHOOSE g : SumsUp(g, f, W)
        <5> DEFINE a == [s \in SUBSET W |-> gU[s]]
                   b == CHOOSE g : SumsUp(g, f, W)
        <5>1. SumsUp(a, f, W) /\ SumsUp(b, f, W)
          BY <4>3, <4>4
        <5> HIDE DEF a, b, W
        <5>2. a = b
          BY <5>1, <4>5, SumsUnique
        <5>3. QED BY <5>2 DEF a, b
      <4>7. v(W) = gU[W]
        <5>1. [s \in SUBSET W |-> gU[s]][W] = gU[W]
          OBVIOUS
        <5>2. QED BY <4>6, <5>1
      <4>8. QED BY <3>2, <3>4, <4>7 DEF SumBody
    <3>5. QED BY <3>3, <3>4
  <2>4. ASSUME NEW s \in SUBSET T PROVE G[s] = SumBody(f, G, s)
    <3>1. CASE s = {}
      BY <3>1 DEF SumBody
    <3>2. CASE s # {}
      <4>1. First(s) \in s
        BY <3>2 DEF First
      <4>2. s \ {First(s)} \in SUBSET T /\ s \ {First(s)} # T
        BY <4>1
      <4>3. G[s \ {First(s)}] = v(s \ {First(s)})
        BY <2>3, <4>2
      <4>4. QED BY <3>2, <4>3 DEF SumBody
    <3>3. QED BY <3>1, <3>2
  <2>5. SumsUp(G, f, T)
    BY <2>4 DEF SumsUp
  <2>6. QED BY <2>1, <2>5
<1>2. S \notin C
  BY <1>1
<1>3. QED BY <1>2

\* The sums over the subsets of S, as one function that adds any element first.
LEMMA AnyFirst ==
    ASSUME NEW f, NEW S, IsFiniteSet(S), \A x \in S : f[x] \in Nat,
           NEW g, SumsUp(g, f, S)
    PROVE  \A s \in SUBSET S : /\ g[s] \in Nat
                               /\ \A x \in s : g[s] = f[x] + g[s \ {x}]
<1> DEFINE Good(s) == /\ g[s] \in Nat
                      /\ \A x \in s : g[s] = f[x] + g[s \ {x}]
           C == {s \in SUBSET S : ~Good(s)}
<1>1. ASSUME C # {} PROVE FALSE
  <2>1. PICK m \in C : \A s \in C : s \subseteq m => s = m
    <3>1. C \subseteq SUBSET S
      OBVIOUS
    <3> HIDE DEF C
    <3>2. QED BY <1>1, <3>1, Smallest
  <2>2. m \in SUBSET S /\ g[m] = SumBody(f, g, m)
    BY <2>1 DEF SumsUp
  <2>3. m # {}
    <3>1. m = {} => g[m] = 0 /\ Good(m)
      BY <2>2 DEF SumBody
    <3>2. QED BY <2>1, <3>1
  <2>4. First(m) \in m /\ First(m) \in S
    BY <2>2, <2>3 DEF First
  <2> DEFINE c == First(m)
  <2>5. g[m] = f[c] + g[m \ {c}]
    BY <2>2, <2>3 DEF SumBody
  <2>6. ASSUME NEW x \in m PROVE Good(m \ {x})
    <3>1. m \ {x} \in SUBSET S /\ m \ {x} \subseteq m /\ m \ {x} # m
      BY <2>2
    <3> HIDE DEF Good
    <3>2. QED BY <3>1, <2>1
  <2>7. f[c] \in Nat /\ g[m \ {c}] \in Nat
    BY <2>4, <2>6
  <2>8. ASSUME NEW x \in m PROVE g[m] = f[x] + g[m \ {x}]
    <3>1. CASE x = c
      BY <2>5, <3>1
    <3>2. CASE x # c
      <4>1. x \in m \ {c} /\ c \in m \ {x} /\ (m \ {c}) \ {x} = (m \ {x}) \ {c}
        BY <2>4, <3>2
      <4>2. g[m \ {c}] = f[x] + g[(m \ {c}) \ {x}] /\ g[m \ {x}] = f[c] + g[(m \ {x}) \ {c}]
        BY <2>4, <2>6, <4>1
      <4>3. f[x] \in Nat /\ g[(m \ {c}) \ {x}] \in Nat
        <5>1. x \in S /\ (m \ {c}) \ {x} \in SUBSET S /\ (m \ {c}) \ {x} # m
          BY <2>2, <4>1
        <5>2. Good((m \ {c}) \ {x})
          <6> HIDE DEF Good
          <6>1. QED BY <5>1, <2>1
        <5>3. QED BY <5>1, <5>2
      <4> HIDE DEF c
      <4>4. QED BY <2>5, <2>7, <4>1, <4>2, <4>3
    <3>3. QED BY <3>1, <3>2
  <2>9. Good(m)
    <3>1. f[c] + g[m \ {c}] \in Nat
      <4> HIDE DEF c
      <4>1. QED BY <2>7
    <3>2. g[m] \in Nat
      BY <2>5, <3>1
    <3>3. QED BY <2>8, <3>2
  <2>10. QED BY <2>1, <2>9
<1>2. \A s \in SUBSET S : Good(s)
  BY <1>1
<1>3. QED BY <1>2

\* A sum over a part of S is what the recursive function for S says of it.
LEMMA SumOfPart ==
    ASSUME NEW f, NEW S, IsFiniteSet(S), NEW g, SumsUp(g, f, S), NEW T \in SUBSET S
    PROVE  SumFunctionOnSet(f, T) = g[T]
<1> DEFINE a == [s \in SUBSET T |-> g[s]]
           b == CHOOSE h : SumsUp(h, f, T)
<1>1. IsFiniteSet(T)
  BY FS_Subset
<1>2. SumsUp(a, f, T)
  BY SumsOfPart
<1>3. SumsUp(b, f, T)
  <2>1. \E h : SumsUp(h, f, T)
    BY <1>1, SumsExist
  <2>2. QED BY <2>1
<1>4. a[T] = g[T]
  OBVIOUS
<1>5. SumFunctionOnSet(f, T) = b[T]
  BY SumIs
<1> HIDE DEF a, b
<1>6. a = b
  BY <1>1, <1>2, <1>3, SumsUnique
<1>7. QED BY <1>4, <1>5, <1>6

-----------------------------------------------------------------------------
\* A sum over nothing.
LEMMA SumOfNothing == ASSUME NEW f PROVE SumFunctionOnSet(f, {}) = 0
<1>1. IsFiniteSet({})
  BY FS_EmptySet
<1>2. PICK g : SumsUp(g, f, {})
  BY <1>1, SumsExist
<1>3. SumFunctionOnSet(f, {}) = g[{}]
  BY <1>1, <1>2, SumOfPart
<1>4. QED BY <1>2, <1>3 DEF SumsUp, SumBody

\* A sum is a natural number, and any element can be taken out of it.
LEMMA SumOfMore ==
    ASSUME NEW f, NEW S, IsFiniteSet(S), \A x \in S : f[x] \in Nat
    PROVE  /\ SumFunctionOnSet(f, S) \in Nat
           /\ \A x \in S : SumFunctionOnSet(f, S) = f[x] + SumFunctionOnSet(f, S \ {x})
<1>1. PICK g : SumsUp(g, f, S)
  BY SumsExist
<1>2. \A T \in SUBSET S : SumFunctionOnSet(f, T) = g[T]
  BY <1>1, SumOfPart
<1>3. g[S] \in Nat /\ \A x \in S : g[S] = f[x] + g[S \ {x}]
  <2>1. \A s \in SUBSET S : g[s] \in Nat /\ \A x \in s : g[s] = f[x] + g[s \ {x}]
    BY <1>1, AnyFirst
  <2>2. S \in SUBSET S
    OBVIOUS
  <2>3. QED BY <2>1, <2>2
<1>4. S \in SUBSET S /\ \A x \in S : S \ {x} \in SUBSET S
  OBVIOUS
<1>5. QED BY <1>2, <1>3, <1>4

\* The sum of a pointwise sum is the sum of the sums.
LEMMA SumOfSums ==
    ASSUME NEW S, IsFiniteSet(S), NEW f, NEW g, NEW h,
           \A x \in S : f[x] \in Nat /\ g[x] \in Nat /\ h[x] = f[x] + g[x]
    PROVE  SumFunctionOnSet(h, S) = SumFunctionOnSet(f, S) + SumFunctionOnSet(g, S)
<1> DEFINE F(T) == SumFunctionOnSet(f, T)
           G(T) == SumFunctionOnSet(g, T)
           H(T) == SumFunctionOnSet(h, T)
           C == {T \in SUBSET S : H(T) # F(T) + G(T)}
<1>1. ASSUME C # {} PROVE FALSE
  <2>1. PICK m \in C : \A s \in C : s \subseteq m => s = m
    <3>1. C \subseteq SUBSET S
      OBVIOUS
    <3> HIDE DEF C
    <3>2. QED BY <1>1, <3>1, Smallest
  <2>2. m \in SUBSET S /\ IsFiniteSet(m)
    BY <2>1, FS_Subset
  <2>3. m # {}
    <3>1. m = {} => H(m) = F(m) + G(m)
      BY SumOfNothing
    <3>2. QED BY <2>1, <3>1
  <2>4. PICK x \in m : TRUE
    BY <2>3
  <2> DEFINE r == m \ {x}
  <2>5. r \in SUBSET S /\ r \subseteq m /\ r # m /\ x \in S /\ IsFiniteSet(r)
    BY <2>2, <2>4, FS_Subset
  <2>6. H(r) = F(r) + G(r)
    BY <2>1, <2>5
  <2>7. \A y \in m : f[y] \in Nat /\ g[y] \in Nat /\ h[y] \in Nat
    BY <2>2
  <2>8. F(m) = f[x] + F(r) /\ G(m) = g[x] + G(r) /\ H(m) = h[x] + H(r)
    BY <2>2, <2>4, <2>7, SumOfMore
  <2>9. F(r) \in Nat /\ G(r) \in Nat
    BY <2>5, <2>7, SumOfMore
  <2>10. h[x] = f[x] + g[x] /\ f[x] \in Nat /\ g[x] \in Nat
    BY <2>5
  <2> HIDE DEF F, G, H, r
  <2>11. H(m) = F(m) + G(m)
    BY <2>6, <2>8, <2>9, <2>10
  <2>12. QED BY <2>1, <2>11
<1>2. S \notin C
  BY <1>1
<1>3. QED BY <1>2

\* A sum of zeros.
LEMMA SumOfZeros ==
    ASSUME NEW S, IsFiniteSet(S), NEW f, \A x \in S : f[x] = 0
    PROVE  SumFunctionOnSet(f, S) = 0
<1> DEFINE v == SumFunctionOnSet(f, S)
<1>1. \A x \in S : f[x] \in Nat /\ f[x] = f[x] + f[x]
  OBVIOUS
<1>2. v \in Nat
  BY <1>1, SumOfMore
<1>3. v = v + v
  BY <1>1, SumOfSums
<1> HIDE DEF v
<1>4. v = 0
  BY <1>2, <1>3
<1>5. QED BY <1>4 DEF v

\* A sum depends on what is summed up only.
LEMMA SumOfSame ==
    ASSUME NEW S, IsFiniteSet(S), NEW f, NEW g,
           \A x \in S : f[x] \in Nat /\ g[x] = f[x]
    PROVE  SumFunctionOnSet(g, S) = SumFunctionOnSet(f, S)
<1> DEFINE z == [x \in S |-> 0]
<1>1. \A x \in S : f[x] \in Nat /\ z[x] \in Nat /\ g[x] = f[x] + z[x]
  OBVIOUS
<1>2. SumFunctionOnSet(z, S) = 0
  BY SumOfZeros
<1>3. SumFunctionOnSet(f, S) \in Nat
  BY SumOfMore
<1> HIDE DEF z
<1>4. SumFunctionOnSet(g, S) = SumFunctionOnSet(f, S) + SumFunctionOnSet(z, S)
  BY <1>1, SumOfSums
<1>5. QED BY <1>2, <1>3, <1>4

\* A sum of larger numbers is not smaller.
LEMMA SumOfLarger ==
    ASSUME NEW S, IsFiniteSet(S), NEW f, NEW g,
           \A x \in S : f[x] \in Nat /\ g[x] \in Nat /\ f[x] <= g[x]
    PROVE  SumFunctionOnSet(f, S) <= SumFunctionOnSet(g, S)
<1> DEFINE d == [x \in S |-> g[x] - f[x]]
<1>1. \A x \in S : f[x] \in Nat /\ d[x] \in Nat /\ g[x] = f[x] + d[x]
  OBVIOUS
<1> HIDE DEF d
<1>2. SumFunctionOnSet(f, S) \in Nat /\ SumFunctionOnSet(d, S) \in Nat
  BY <1>1, SumOfMore
<1>3. SumFunctionOnSet(g, S) = SumFunctionOnSet(f, S) + SumFunctionOnSet(d, S)
  BY <1>1, SumOfSums
<1>4. QED BY <1>2, <1>3

\* A sum changes by as much as the one number that changes.
LEMMA SumUpdated ==
    ASSUME NEW S, IsFiniteSet(S), NEW f, NEW g, NEW x \in S,
           \A y \in S : f[y] \in Nat /\ g[y] \in Nat,
           \A y \in S \ {x} : g[y] = f[y]
    PROVE  SumFunctionOnSet(g, S) + f[x] = SumFunctionOnSet(f, S) + g[x]
<1> DEFINE r == S \ {x}
<1>1. IsFiniteSet(r) /\ \A y \in r : f[y] \in Nat /\ g[y] = f[y]
  BY FS_Subset
<1>2. /\ SumFunctionOnSet(f, S) = f[x] + SumFunctionOnSet(f, r)
      /\ SumFunctionOnSet(g, S) = g[x] + SumFunctionOnSet(g, r)
  BY SumOfMore
<1> HIDE DEF r
<1>3. SumFunctionOnSet(g, r) = SumFunctionOnSet(f, r) /\ SumFunctionOnSet(f, r) \in Nat
  BY <1>1, SumOfSame, SumOfMore
<1>4. QED BY <1>2, <1>3

\* The sum over a sequence and one more element.
LEMMA SumOfAppended ==
    ASSUME NEW n \in Nat, NEW f, NEW g,
           \A i \in 1..n : f[i] \in Nat /\ g[i] = f[i],
           g[n + 1] \in Nat
    PROVE  SumFunctionOnSet(g, 1..(n + 1)) = SumFunctionOnSet(f, 1..n) + g[n + 1]
<1> DEFINE S == 1..n
           T == 1..(n + 1)
<1>1. IsFiniteSet(S) /\ IsFiniteSet(T)
  BY FS_Interval
<1>2. \A i \in T : g[i] \in Nat
  OBVIOUS
<1>3. T \ {n + 1} = S /\ n + 1 \in T
  OBVIOUS
<1>4. \A i \in S : f[i] \in Nat /\ g[i] = f[i]
  OBVIOUS
<1> HIDE DEF S, T
<1>5. SumFunctionOnSet(g, T) = g[n + 1] + SumFunctionOnSet(g, S)
  BY <1>1, <1>2, <1>3, SumOfMore
<1>6. SumFunctionOnSet(g, S) = SumFunctionOnSet(f, S) /\ SumFunctionOnSet(f, S) \in Nat
  BY <1>1, <1>4, SumOfSame, SumOfMore
<1>7. QED BY <1>5, <1>6 DEF S, T

\* The sum over one sequence after another.
LEMMA SumOfJoined ==
    ASSUME NEW m \in Nat, NEW n \in Nat, NEW f, NEW g, NEW h,
           \A i \in 1..m : f[i] \in Nat /\ h[i] = f[i],
           \A i \in 1..n : g[i] \in Nat /\ h[m + i] = g[i]
    PROVE  SumFunctionOnSet(h, 1..(m + n))
             = SumFunctionOnSet(f, 1..m) + SumFunctionOnSet(g, 1..n)
<1> DEFINE Joined(k) == SumFunctionOnSet(h, 1..(m + k))
                          = SumFunctionOnSet(f, 1..m) + SumFunctionOnSet(g, 1..k)
           C == {k \in 0..n : ~Joined(k)}
<1>1. ASSUME C # {} PROVE FALSE
  <2>1. PICK k \in C : \A j \in C : k <= j
    <3>1. C \subseteq Nat
      OBVIOUS
    <3> HIDE DEF C
    <3>2. QED BY <1>1, <3>1, LeastNat
  <2>2. \A i \in 1..(m + n) : h[i] \in Nat
    <3>1. ASSUME NEW i \in 1..(m + n) PROVE h[i] \in Nat
      <4>1. CASE i \in 1..m
        BY <4>1
      <4>2. CASE i \notin 1..m
        <5>1. i - m \in 1..n /\ i = m + (i - m)
          BY <4>2
        <5>2. QED BY <5>1
      <4>3. QED BY <4>1, <4>2
    <3>2. QED BY <3>1
  <2>3. CASE k = 0
    <3>1. IsFiniteSet(1..m)
      BY FS_Interval
    <3>2. SumFunctionOnSet(h, 1..m) = SumFunctionOnSet(f, 1..m)
          /\ SumFunctionOnSet(f, 1..m) \in Nat
      BY <3>1, SumOfSame, SumOfMore
    <3>3. 1..0 = {} /\ m + 0 = m
      OBVIOUS
    <3>4. SumFunctionOnSet(g, 1..0) = 0
      BY <3>3, SumOfNothing
    <3>5. QED BY <2>1, <2>3, <3>2, <3>3, <3>4
  <2>4. CASE k # 0
    <3> DEFINE j == k - 1
    <3>1. j \in Nat /\ k = j + 1 /\ j \in 0..n /\ j + 1 \in 1..n /\ m + j \in Nat
          /\ (m + j) + 1 = m + k /\ (m + j) + 1 \in 1..(m + n)
      BY <2>4
    <3>2. Joined(j)
      <4>1. j \notin C
        BY <2>1, <3>1
      <4> HIDE DEF Joined, j
      <4>2. QED BY <4>1, <3>1
    <3>3. \A i \in 1..(m + j) : h[i] \in Nat /\ h[i] = h[i]
      BY <2>2, <3>1
    <3>4. \A i \in 1..j : g[i] \in Nat /\ g[i] = g[i]
      BY <3>1
    <3>5. h[(m + j) + 1] = g[j + 1] /\ h[(m + j) + 1] \in Nat /\ g[j + 1] \in Nat
      <4>1. m + (j + 1) = (m + j) + 1
        BY <3>1
      <4>2. h[m + (j + 1)] = g[j + 1]
        BY <3>1
      <4>3. QED BY <2>2, <3>1, <4>1, <4>2
    <3>6. IsFiniteSet(1..m) /\ IsFiniteSet(1..j)
      BY <3>1, FS_Interval
    <3>7. SumFunctionOnSet(f, 1..m) \in Nat /\ SumFunctionOnSet(g, 1..j) \in Nat
      BY <3>4, <3>6, SumOfMore
    <3> HIDE DEF j
    <3>8. SumFunctionOnSet(h, 1..((m + j) + 1))
            = SumFunctionOnSet(h, 1..(m + j)) + h[(m + j) + 1]
      BY <3>1, <3>3, <3>5, SumOfAppended
    <3>9. SumFunctionOnSet(g, 1..(j + 1)) = SumFunctionOnSet(g, 1..j) + g[j + 1]
      BY <3>1, <3>4, <3>5, SumOfAppended
    <3>10. Joined(k)
      BY <3>1, <3>2, <3>5, <3>7, <3>8, <3>9
    <3>11. QED BY <2>1, <3>10
  <2>5. QED BY <2>3, <2>4
<1>2. n \notin C
  BY <1>1
<1>3. QED BY <1>2
=============================================================================
