------------------------- MODULE NodeRegistryProofs -------------------------
(***************************************************************************)
(* Proofs about the node registry, for every set of keys, networks and     *)
(* positions, every cap of the rolling list and every bound: the inductive *)
(* invariant, that no change of a row and no advert is forgotten, that the *)
(* rolling lists hold the newest adverts and the counts every one, that no *)
(* crash makes an advert count twice, and that the registry implements its *)
(* two abstract specifications.                                            *)
(***************************************************************************)
EXTENDS NodeRegistry, FoldLemmas, SequenceTheorems

\* An advert's row is a row whatever the previous row was, and a later version
\* of it (nodes.go, Observe).
LEMMA UpsertIsRow ==
    ASSUME NEW row \in Row \cup {NoNode}, NEW a \in Advert
    PROVE  /\ Upsert(row, a) \in Row
           /\ row # NoNode => Advanced(row, Upsert(row, a))
BY DEF Upsert, Row, Advert, Flag, Advanced

\* The flag scan's verdict is a flag (flags.go, locationFlags).
LEMMA FlagsAreFlags ==
    ASSUME NEW row \in Row
    PROVE  locationFlags(row) \in Flag
BY DEF locationFlags, Flag

\* The advert Observe builds is an advert, with a fresh identity (nodes.go, Observe).
LEMMA AdvertTyped ==
    ASSUME NEW k \in PubKey, NEW n \in NetworkID, NEW p \in Position \cup {NoPos},
           heard \in 0..MaxHeard, heard < MaxHeard
    PROVE  [id |-> heard + 1, pk |-> k, net |-> n, pos |-> p] \in Advert
BY BoundsAssumption DEF Advert

-----------------------------------------------------------------------------
(***************************************************************************)
(* A node's adverts in a sequence of adverts.                              *)
(***************************************************************************)

\* t holds, for each number of adverts, those of node k among the first of s.
TakenOf(t, s, k, n) ==
    t = [i \in 0..n |-> IF i = 0 THEN <<>>
                        ELSE IF s[i].pk = k THEN Append(t[i - 1], s[i])
                        ELSE t[i - 1]]

LEMMA OfNodeIs ==
    ASSUME NEW s, NEW k
    PROVE  OfNode(s, k) = (CHOOSE t : TakenOf(t, s, k, Len(s)))[Len(s)]
BY DEF OfNode, TakenOf

\* There is one such function at most, also on a part of its domain.
LEMMA TakenUnique ==
    ASSUME NEW k, NEW n \in Nat, NEW m \in 0..n,
           NEW s, NEW t, TakenOf(t, s, k, n),
           NEW w, NEW u, TakenOf(u, w, k, m),
           \A i \in 1..m : s[i] = w[i]
    PROVE  \A i \in 0..m : t[i] = u[i]
<1> DEFINE C == {i \in 0..m : t[i] # u[i]}
<1>1. ASSUME C # {} PROVE FALSE
  <2>1. PICK i \in C : \A j \in C : i <= j
    <3>1. C \subseteq Nat
      OBVIOUS
    <3> HIDE DEF C
    <3>2. QED BY <1>1, <3>1, LeastNat
  <2>2. i \in 0..m /\ i \in 0..n /\ i \in Nat /\ t[i] # u[i]
    BY <2>1
  <2>3. /\ t[i] = IF i = 0 THEN <<>> ELSE IF s[i].pk = k THEN Append(t[i - 1], s[i]) ELSE t[i - 1]
        /\ u[i] = IF i = 0 THEN <<>> ELSE IF w[i].pk = k THEN Append(u[i - 1], w[i]) ELSE u[i - 1]
    BY <2>2 DEF TakenOf
  <2>4. i # 0
    BY <2>2, <2>3
  <2>5. i - 1 \in 0..m /\ i - 1 < i /\ s[i] = w[i]
    BY <2>2, <2>4
  <2>6. t[i - 1] = u[i - 1]
    BY <2>1, <2>2, <2>5
  <2>7. QED BY <2>2, <2>3, <2>5, <2>6
<1>2. QED BY <1>1

\* A longer one from a shorter one.
LEMMA TakenLonger ==
    ASSUME NEW k, NEW n \in Nat, NEW s, NEW t, TakenOf(t, s, k, n)
    PROVE  TakenOf([i \in 0..(n + 1) |->
                      IF i <= n THEN t[i]
                      ELSE IF s[i].pk = k THEN Append(t[n], s[i]) ELSE t[n]], s, k, n + 1)
<1> DEFINE u == [i \in 0..(n + 1) |->
                   IF i <= n THEN t[i]
                   ELSE IF s[i].pk = k THEN Append(t[n], s[i]) ELSE t[n]]
<1>1. ASSUME NEW i \in 0..(n + 1)
      PROVE  u[i] = IF i = 0 THEN <<>>
                    ELSE IF s[i].pk = k THEN Append(u[i - 1], s[i])
                    ELSE u[i - 1]
  <2>1. CASE i <= n
    <3>1. i \in 0..n /\ u[i] = t[i]
      BY <2>1
    <3>2. t[i] = IF i = 0 THEN <<>> ELSE IF s[i].pk = k THEN Append(t[i - 1], s[i]) ELSE t[i - 1]
      BY <3>1 DEF TakenOf
    <3>3. i # 0 => u[i - 1] = t[i - 1]
      BY <2>1
    <3>4. QED BY <3>1, <3>2, <3>3
  <2>2. CASE ~(i <= n)
    <3>1. i = n + 1 /\ u[n] = t[n]
      BY <2>2
    <3>2. QED BY <3>1
  <2>3. QED BY <2>1, <2>2
<1> HIDE DEF u
<1>2. u = [i \in 0..(n + 1) |-> u[i]]
  BY DEF u
<1>3. TakenOf(u, s, k, n + 1)
  BY <1>1, <1>2 DEF TakenOf
<1>4. QED BY <1>3 DEF u

\* There is one.
LEMMA TakenExists ==
    ASSUME NEW k, NEW n \in Nat, NEW s
    PROVE  \E t : TakenOf(t, s, k, n)
<1> DEFINE C == {i \in Nat : ~\E t : TakenOf(t, s, k, i)}
<1>1. ASSUME C # {} PROVE FALSE
  <2>1. PICK i \in C : \A j \in C : i <= j
    <3>1. C \subseteq Nat
      OBVIOUS
    <3> HIDE DEF C
    <3>2. QED BY <1>1, <3>1, LeastNat
  <2>2. i # 0
    <3>1. TakenOf([j \in 0..0 |-> <<>>], s, k, 0)
      BY DEF TakenOf
    <3>2. QED BY <2>1, <3>1
  <2>3. i - 1 \in Nat /\ i - 1 \notin C
    BY <2>1, <2>2
  <2>4. PICK t : TakenOf(t, s, k, i - 1)
    BY <2>3
  <2>5. \E u : TakenOf(u, s, k, (i - 1) + 1)
    BY <2>3, <2>4, TakenLonger
  <2>6. QED BY <2>1, <2>5
<1>2. QED BY <1>1

\* OfNode is the last of them.
LEMMA OfNodeTaken ==
    ASSUME NEW k, NEW S, NEW s \in Seq(S), NEW t, TakenOf(t, s, k, Len(s))
    PROVE  OfNode(s, k) = t[Len(s)]
<1> DEFINE u == CHOOSE v : TakenOf(v, s, k, Len(s))
<1>1. Len(s) \in Nat /\ Len(s) \in 0..Len(s)
  BY LenProperties
<1>2. TakenOf(u, s, k, Len(s))
  OBVIOUS
<1>3. OfNode(s, k) = u[Len(s)]
  BY OfNodeIs
<1> HIDE DEF u
<1>4. \A i \in 0..Len(s) : t[i] = u[i]
  BY <1>1, <1>2, TakenUnique
<1>5. QED BY <1>1, <1>3, <1>4

\* Nothing is of a node in no adverts.
LEMMA OfNodeNone == ASSUME NEW k PROVE OfNode(<<>>, k) = <<>>
<1>1. <<>> \in Seq({}) /\ Len(<<>>) = 0
  BY EmptySeq
<1>2. PICK t : TakenOf(t, <<>>, k, 0)
  BY TakenExists
<1>3. t[0] = <<>>
  BY <1>2 DEF TakenOf
<1>4. QED BY <1>1, <1>2, <1>3, OfNodeTaken

\* An advert that is added is added to its node's adverts only.
LEMMA OfNodeAppended ==
    ASSUME NEW k, NEW S, NEW s \in Seq(S), NEW a \in S
    PROVE  OfNode(Append(s, a), k) = IF a.pk = k THEN Append(OfNode(s, k), a) ELSE OfNode(s, k)
<1> DEFINE w == Append(s, a)
           n == Len(s)
<1>1. /\ w \in Seq(S) /\ Len(w) = n + 1 /\ n \in Nat
      /\ \A i \in 1..n : w[i] = s[i]
      /\ w[n + 1] = a
  BY AppendProperties, LenProperties
<1> HIDE DEF w, n
<1>2. PICK t : TakenOf(t, w, k, n + 1)
  <2>1. n + 1 \in Nat
    BY <1>1
  <2>2. QED BY <2>1, TakenExists
<1>3. PICK u : TakenOf(u, s, k, n)
  BY <1>1, TakenExists
<1>4. \A i \in 0..n : t[i] = u[i]
  <2>1. n + 1 \in Nat /\ n \in 0..(n + 1)
    BY <1>1
  <2> DEFINE l == n + 1
  <2> HIDE DEF l
  <2>2. TakenOf(t, w, k, l) /\ l \in Nat /\ n \in 0..l
    BY <1>2, <2>1 DEF l
  <2>3. QED BY <1>1, <1>3, <2>2, TakenUnique
<1>5. t[n + 1] = IF a.pk = k THEN Append(t[n], a) ELSE t[n]
  <2>1. n + 1 \in 0..(n + 1) /\ n + 1 # 0 /\ (n + 1) - 1 = n
    BY <1>1
  <2>2. t[n + 1] = IF w[n + 1].pk = k THEN Append(t[(n + 1) - 1], w[n + 1]) ELSE t[(n + 1) - 1]
    BY <1>2, <2>1 DEF TakenOf
  <2>3. QED BY <1>1, <2>1, <2>2
<1>6. OfNode(w, k) = t[n + 1]
  BY <1>1, <1>2, OfNodeTaken
<1>7. OfNode(s, k) = u[n]
  BY <1>1, <1>3, OfNodeTaken DEF n
<1>8. t[n] = u[n]
  BY <1>1, <1>4
<1>9. QED BY <1>5, <1>6, <1>7, <1>8 DEF w

\* Adverts of other nodes add nothing.
LEMMA OfNodeOthers ==
    ASSUME NEW k, NEW S, NEW s \in Seq(S), NEW r \in Seq(S), \A i \in 1..Len(r) : r[i].pk # k
    PROVE  OfNode(s \o r, k) = OfNode(s, k)
<1> DEFINE w == s \o r
           n == Len(s)
           m == Len(w)
<1>1. /\ w \in Seq(S) /\ n \in Nat /\ m \in Nat /\ n <= m
      /\ \A i \in 1..n : w[i] = s[i]
      /\ \A i \in (n + 1)..m : w[i].pk # k
  <2>1. /\ w \in Seq(S) /\ n \in Nat /\ Len(r) \in Nat /\ m = n + Len(r)
        /\ \A i \in 1..(n + Len(r)) : w[i] = IF i <= n THEN s[i] ELSE r[i - n]
    BY ConcatProperties, LenProperties
  <2> HIDE DEF w, n, m
  <2>2. ASSUME NEW i \in (n + 1)..m PROVE w[i].pk # k
    <3>1. i \in 1..(n + Len(r)) /\ ~(i <= n) /\ i - n \in 1..Len(r)
      BY <2>1
    <3>2. QED BY <2>1, <3>1
  <2>3. QED BY <2>1, <2>2
<1> HIDE DEF w, m
<1>2. PICK t : TakenOf(t, w, k, m)
  BY <1>1, TakenExists
<1>3. PICK u : TakenOf(u, s, k, n)
  BY <1>1, TakenExists
<1>4. t[n] = u[n]
  <2> HIDE DEF n
  <2>1. n \in 0..m /\ n \in 0..n
    BY <1>1
  <2>a. TakenOf(u, s, k, n)
    BY <1>3
  <2>b. m \in Nat /\ \A i \in 1..n : w[i] = s[i]
    BY <1>1
  <2>2. \A i \in 0..n : t[i] = u[i]
    BY <1>2, <2>a, <2>b, <2>1, TakenUnique
  <2>3. QED BY <2>1, <2>2
<1>5. t[m] = t[n]
  <2> HIDE DEF n
  <2> DEFINE C == {i \in n..m : t[i] # t[n]}
  <2>1. ASSUME C # {} PROVE FALSE
    <3>1. PICK i \in C : \A j \in C : i <= j
      <4>1. C \subseteq Nat
        BY <1>1
      <4> HIDE DEF C
      <4>2. QED BY <2>1, <4>1, LeastNat
    <3>2. i \in 0..m /\ i \in Nat /\ i # n /\ n < i
      BY <1>1, <3>1
    <3>3. i # 0 /\ i \in (n + 1)..m /\ i - 1 \in n..m /\ i - 1 < i
      BY <1>1, <3>2
    <3>4. t[i] = IF i = 0 THEN <<>> ELSE IF w[i].pk = k THEN Append(t[i - 1], w[i]) ELSE t[i - 1]
      BY <1>2, <3>2 DEF TakenOf
    <3>5. t[i] = t[i - 1]
      BY <1>1, <3>3, <3>4
    <3>6. t[i - 1] = t[n]
      BY <3>1, <3>2, <3>3
    <3>7. QED BY <3>1, <3>5, <3>6
  <2>2. m \in n..m
    BY <1>1
  <2>3. QED BY <2>1, <2>2
<1>6. OfNode(w, k) = t[m]
  BY <1>1, <1>2, OfNodeTaken DEF m
<1>7. OfNode(s, k) = u[n]
  BY <1>3, OfNodeTaken
<1>8. QED BY <1>4, <1>5, <1>6, <1>7 DEF w

\* A longer prefix of a sequence is a shorter one with its next element.
LEMMA PrefixGrows ==
    ASSUME NEW S, NEW w \in Seq(S), NEW i \in Nat, i < Len(w)
    PROVE  /\ SubSeq(w, 1, i) \in Seq(S) /\ w[i + 1] \in S
           /\ SubSeq(w, 1, i + 1) = Append(SubSeq(w, 1, i), w[i + 1])
<1> DEFINE p == SubSeq(w, 1, i)
           q == SubSeq(w, 1, i + 1)
<1>1. Len(w) \in Nat /\ \A j \in 1..Len(w) : w[j] \in S
  BY LenProperties, ElementOfSeq
<1>2. /\ p \in Seq(S) /\ Len(p) = i
      /\ \A j \in 1..i : p[j] = w[j]
  <2>1. /\ p \in Seq(S)
        /\ Len(p) = IF 1 <= i THEN i - 1 + 1 ELSE 0
        /\ \A j \in 1..i - 1 + 1 : p[j] = w[1 + j - 1]
    BY <1>1, SubSeqProperties
  <2>2. QED BY <2>1
<1>3. /\ q \in Seq(S) /\ Len(q) = i + 1
      /\ \A j \in 1..(i + 1) : q[j] = w[j]
  <2>1. /\ q \in Seq(S)
        /\ Len(q) = IF 1 <= i + 1 THEN (i + 1) - 1 + 1 ELSE 0
        /\ \A j \in 1..(i + 1) - 1 + 1 : q[j] = w[1 + j - 1]
    BY <1>1, SubSeqProperties
  <2>2. QED BY <2>1
<1>4. w[i + 1] \in S
  BY <1>1
<1> HIDE DEF p, q
<1>5. /\ Append(p, w[i + 1]) \in Seq(S) /\ Len(Append(p, w[i + 1])) = i + 1
      /\ \A j \in 1..i : Append(p, w[i + 1])[j] = p[j]
      /\ Append(p, w[i + 1])[i + 1] = w[i + 1]
  BY <1>2, <1>4, AppendProperties
<1>6. \A j \in 1..(i + 1) : q[j] = Append(p, w[i + 1])[j]
  <2> SUFFICES ASSUME NEW j \in 1..(i + 1) PROVE q[j] = Append(p, w[i + 1])[j]
    OBVIOUS
  <2>1. j \in 1..i \/ j = i + 1
    OBVIOUS
  <2>2. QED BY <1>2, <1>3, <1>5, <2>1
<1>7. q = Append(p, w[i + 1])
  BY <1>3, <1>5, <1>6, SeqEqual
<1>8. QED BY <1>2, <1>4, <1>7 DEF p, q

\* A node's adverts are adverts.
LEMMA OfNodeTyped ==
    ASSUME NEW k, NEW S, NEW s \in Seq(S)
    PROVE  OfNode(s, k) \in Seq(S)
<1> DEFINE n == Len(s)
<1>1. n \in Nat /\ \A i \in 1..n : s[i] \in S
  BY LenProperties, ElementOfSeq
<1>2. PICK t : TakenOf(t, s, k, n)
  BY <1>1, TakenExists
<1>3. OfNode(s, k) = t[n]
  BY <1>2, OfNodeTaken
<1> HIDE DEF n
<1> DEFINE C == {i \in 0..n : t[i] \notin Seq(S)}
<1>4. ASSUME C # {} PROVE FALSE
  <2>1. PICK i \in C : \A j \in C : i <= j
    <3>1. C \subseteq Nat
      BY <1>1
    <3> HIDE DEF C
    <3>2. QED BY <1>4, <3>1, LeastNat
  <2>2. i \in 0..n /\ i \in Nat /\ t[i] \notin Seq(S)
    BY <1>1, <2>1
  <2>3. t[i] = IF i = 0 THEN <<>> ELSE IF s[i].pk = k THEN Append(t[i - 1], s[i]) ELSE t[i - 1]
    BY <1>2, <2>2 DEF TakenOf
  <2>4. i # 0
    BY <2>2, <2>3, EmptySeq
  <2>5. i - 1 \in 0..n /\ i - 1 < i /\ s[i] \in S
    BY <1>1, <2>2, <2>4
  <2>6. t[i - 1] \in Seq(S)
    BY <2>1, <2>2, <2>5
  <2>7. Append(t[i - 1], s[i]) \in Seq(S)
    BY <2>5, <2>6, AppendProperties
  <2>8. QED BY <2>2, <2>3, <2>4, <2>6, <2>7
<1>5. n \in 0..n
  BY <1>1
<1>6. QED BY <1>3, <1>4, <1>5

\* A node has at most as many adverts more as there are more of all nodes.
LEMMA OfNodeGrows ==
    ASSUME NEW k, NEW S, NEW s \in Seq(S), NEW r \in Seq(S)
    PROVE  Len(OfNode(s \o r, k)) <= Len(OfNode(s, k)) + Len(r)
<1> DEFINE w == s \o r
           n == Len(s)
           m == Len(w)
           l(i) == Len(OfNode(SubSeq(w, 1, i), k))
<1>1. w \in Seq(S) /\ n \in Nat /\ m = n + Len(r) /\ Len(r) \in Nat
  BY ConcatProperties, LenProperties
<1>2. SubSeq(w, 1, n) = s /\ SubSeq(w, 1, m) = w
  <2>1. SubSeq(w, 1, m) = w
    BY <1>1, SubSeqFull
  <2>2. /\ SubSeq(w, 1, n) \in Seq(S) /\ Len(SubSeq(w, 1, n)) = n
        /\ \A i \in 1..n : SubSeq(w, 1, n)[i] = w[i]
    <3>1. \A i \in 1..n : w[i] \in S
      BY <1>1, LenProperties, ElementOfSeq
    <3> HIDE DEF w, n
    <3>2. /\ SubSeq(w, 1, n) \in Seq(S)
          /\ Len(SubSeq(w, 1, n)) = IF 1 <= n THEN n - 1 + 1 ELSE 0
          /\ \A i \in 1..n - 1 + 1 : SubSeq(w, 1, n)[i] = w[1 + i - 1]
      BY <1>1, <3>1, SubSeqProperties
    <3>3. QED BY <1>1, <3>2
  <2>3. \A i \in 1..n : w[i] = s[i]
    BY <1>1, ConcatProperties
  <2> HIDE DEF w
  <2>4. SubSeq(w, 1, n) = s
    BY <2>2, <2>3, SeqEqual
  <2>5. QED BY <2>1, <2>4
<1> HIDE DEF w, n, m
<1>3. ASSUME NEW i \in Nat, i < m
      PROVE  l(i) \in Nat /\ l(i + 1) <= l(i) + 1
  <2>1. /\ SubSeq(w, 1, i) \in Seq(S) /\ w[i + 1] \in S
        /\ SubSeq(w, 1, i + 1) = Append(SubSeq(w, 1, i), w[i + 1])
    BY <1>1, <1>3, PrefixGrows DEF m
  <2>2. OfNode(SubSeq(w, 1, i), k) \in Seq(S)
    BY <2>1, OfNodeTyped
  <2>3. OfNode(SubSeq(w, 1, i + 1), k)
          \in {Append(OfNode(SubSeq(w, 1, i), k), w[i + 1]), OfNode(SubSeq(w, 1, i), k)}
    BY <2>1, OfNodeAppended
  <2>4. QED BY <2>1, <2>2, <2>3, AppendProperties, LenProperties
<1>4. l(n) \in Nat
  BY <1>2, OfNodeTyped, LenProperties
<1>5. \A i \in n..m : l(i) <= l(n) + (i - n)
  <2> DEFINE C == {i \in n..m : ~(l(i) <= l(n) + (i - n))}
  <2> HIDE DEF l
  <2>1. ASSUME C # {} PROVE FALSE
    <3>1. PICK i \in C : \A j \in C : i <= j
      <4>1. C \subseteq Nat
        BY <1>1
      <4> HIDE DEF C
      <4>2. QED BY <2>1, <4>1, LeastNat
    <3>2. i # n /\ i \in n..m
      BY <1>1, <1>4, <3>1
    <3>3. i - 1 \in n..m /\ i - 1 \in Nat /\ i - 1 < m /\ i - 1 < i /\ (i - 1) + 1 = i
      BY <1>1, <3>2
    <3>4. l(i - 1) <= l(n) + ((i - 1) - n)
      BY <3>1, <3>3
    <3>5. l(i - 1) \in Nat /\ l((i - 1) + 1) <= l(i - 1) + 1
      BY <1>3, <3>3
    <3>6. l(i) <= l(i - 1) + 1
      BY <3>3, <3>5
    <3>7. l(i) \in Nat
      <4>1. CASE i < m
        BY <1>1, <1>3, <3>2, <4>1
      <4>2. CASE i = m
        <5>1. OfNode(SubSeq(w, 1, m), k) \in Seq(S)
          BY <1>1, <1>2, OfNodeTyped
        <5>2. QED BY <4>2, <5>1, LenProperties DEF l
      <4>3. QED BY <1>1, <3>2, <4>1, <4>2
    <3>8. QED BY <1>1, <1>4, <3>1, <3>2, <3>4, <3>5, <3>6, <3>7
  <2>2. QED BY <2>1
<1>6. m \in n..m
  BY <1>1
<1>7. l(m) <= l(n) + (m - n)
  BY <1>5, <1>6
<1>8. l(m) = Len(OfNode(w, k)) /\ l(n) = Len(OfNode(s, k))
  BY <1>2
<1> HIDE DEF l
<1>9. Len(OfNode(w, k)) <= Len(OfNode(s, k)) + Len(r)
  BY <1>1, <1>7, <1>8, <1>4
<1>10. QED BY <1>9 DEF w

-----------------------------------------------------------------------------
(***************************************************************************)
(* Rolling lists, newest first.                                            *)
(***************************************************************************)

\* Reversing adverts (db.go, LoadRecentAdverts).
LEMMA NewestFirstIs ==
    ASSUME NEW S, NEW s \in Seq(S)
    PROVE  /\ NewestFirst(s) \in Seq(S)
           /\ Len(NewestFirst(s)) = Len(s)
           /\ \A i \in 1..Len(s) : NewestFirst(s)[i] = s[Len(s) + 1 - i]
<1> DEFINE f == NewestFirst(s)
           n == Len(s)
<1>1. n \in Nat /\ \A i \in 1..n : s[i] \in S
  BY LenProperties, ElementOfSeq
<1>2. f = [i \in 1..n |-> s[n + 1 - i]]
  BY DEF NewestFirst
<1> HIDE DEF f, n
<1>3. \A i \in 1..n : n + 1 - i \in 1..n
  BY <1>1
<1>4. f \in [1..n -> S]
  BY <1>1, <1>2, <1>3
<1>5. f \in Seq(S)
  BY <1>1, <1>4, SeqDef
<1>6. DOMAIN f = 1..n /\ DOMAIN f = 1..Len(f) /\ Len(f) \in Nat
  BY <1>4, <1>5, LenProperties
<1>7. Len(f) = n
  BY <1>1, <1>6
<1>8. QED BY <1>2, <1>5, <1>7 DEF f, n

\* Trimming keeps the first entries, one at least and not more than the cap
\* (nodes.go, Observe).
LEMMA TrimIs ==
    ASSUME NEW S, NEW l \in Seq(S)
    PROVE  /\ Trim(l) \in Seq(S)
           /\ Len(Trim(l)) <= Len(l) /\ Len(Trim(l)) \in Nat /\ Len(Trim(l)) <= MaxAdverts
           /\ \A i \in 1..Len(Trim(l)) : Trim(l)[i] = l[i]
           /\ l # <<>> => Trim(l) # <<>>
<1> DEFINE n == IF Len(l) > MaxAdverts THEN MaxAdverts ELSE Len(l)
           t == Trim(l)
<1>1. /\ Len(l) \in Nat /\ n \in Nat /\ n <= Len(l) /\ \A i \in 1..Len(l) : l[i] \in S
      /\ l # <<>> => n # 0
      /\ n <= MaxAdverts
  BY LenProperties, ElementOfSeq, EmptySeq, MaxAdvertsAssumption
<1>2. t = SubSeq(l, 1, n)
  BY DEF Trim
<1> HIDE DEF n, t
<1>3. \A i \in 1..n : l[i] \in S
  BY <1>1
<1>4. /\ SubSeq(l, 1, n) \in Seq(S)
      /\ Len(SubSeq(l, 1, n)) = IF 1 <= n THEN n - 1 + 1 ELSE 0
      /\ \A i \in 1..n - 1 + 1 : SubSeq(l, 1, n)[i] = l[1 + i - 1]
  BY <1>1, <1>3, SubSeqProperties
<1>5. t \in Seq(S) /\ Len(t) = n /\ \A i \in 1..n : t[i] = l[i]
  BY <1>1, <1>2, <1>4
<1>6. l # <<>> => t # <<>>
  BY <1>1, <1>5, EmptySeq
<1>7. QED BY <1>1, <1>5, <1>6 DEF t

\* The newest of some adverts, entry by entry.
LEMMA NewestIs ==
    ASSUME NEW S, NEW s \in Seq(S), NEW l \in Seq(S)
    PROVE  IsNewestOf(l, s) <=> /\ Len(l) <= Len(s)
                                /\ \A i \in 1..Len(l) : l[i] = s[Len(s) + 1 - i]
<1> DEFINE f == NewestFirst(s)
           n == Len(s)
           p == SubSeq(f, 1, Len(l))
<1>1. /\ f \in Seq(S) /\ Len(f) = n /\ n \in Nat /\ Len(l) \in Nat
      /\ \A i \in 1..n : f[i] = s[n + 1 - i] /\ f[i] \in S
  <2>1. f \in Seq(S) /\ Len(f) = n /\ \A i \in 1..n : f[i] = s[n + 1 - i]
    BY NewestFirstIs
  <2>2. QED BY <2>1, LenProperties, ElementOfSeq
<1> HIDE DEF f, n
<1>2. ASSUME Len(l) <= n
      PROVE  p \in Seq(S) /\ Len(p) = Len(l) /\ \A i \in 1..Len(l) : p[i] = s[n + 1 - i]
  <2>1. \A i \in 1..Len(l) : f[i] \in S
    BY <1>1, <1>2
  <2>2. /\ p \in Seq(S)
        /\ Len(p) = IF 1 <= Len(l) THEN Len(l) - 1 + 1 ELSE 0
        /\ \A i \in 1..Len(l) - 1 + 1 : p[i] = f[1 + i - 1]
    BY <1>1, <2>1, SubSeqProperties
  <2> HIDE DEF p
  <2>3. QED BY <1>1, <1>2, <2>2
<1>3. IsNewestOf(l, s) <=> Len(l) <= n /\ l = p
  BY DEF IsNewestOf, f, n
<1> HIDE DEF p
<1>4. ASSUME Len(l) <= n, \A i \in 1..Len(l) : l[i] = s[n + 1 - i]
      PROVE  l = p
  <2>1. p \in Seq(S) /\ Len(l) = Len(p) /\ \A i \in 1..Len(l) : l[i] = p[i]
    BY <1>2, <1>4
  <2>2. QED BY <2>1, SeqEqual
<1>5. QED BY <1>2, <1>3, <1>4 DEF n

\* No list is the newest of any adverts, the reversed adverts are, ...
LEMMA NewestAll ==
    ASSUME NEW S, NEW s \in Seq(S)
    PROVE  IsNewestOf(<<>>, s) /\ IsNewestOf(NewestFirst(s), s)
<1> DEFINE none == <<>>
<1>1. none \in Seq(S) /\ Len(none) = 0 /\ Len(s) \in Nat
  BY EmptySeq, LenProperties
<1> HIDE DEF none
<1>2. Len(none) <= Len(s) /\ \A i \in 1..Len(none) : none[i] = s[Len(s) + 1 - i]
  BY <1>1
<1>3. IsNewestOf(none, s)
  BY <1>1, <1>2, NewestIs
<1>4. IsNewestOf(NewestFirst(s), s)
  BY <1>1, NewestFirstIs, NewestIs
<1>5. QED BY <1>3, <1>4 DEF none

\* ... a trimmed list is ...
LEMMA NewestTrimmed ==
    ASSUME NEW S, NEW s \in Seq(S), NEW l \in Seq(S), IsNewestOf(l, s)
    PROVE  IsNewestOf(Trim(l), s)
<1>1. Len(l) \in Nat /\ Len(s) \in Nat
  BY LenProperties
<1>2. Len(l) <= Len(s) /\ \A i \in 1..Len(l) : l[i] = s[Len(s) + 1 - i]
  BY NewestIs
<1>3. /\ Trim(l) \in Seq(S) /\ Len(Trim(l)) <= Len(l) /\ Len(Trim(l)) \in Nat
      /\ \A i \in 1..Len(Trim(l)) : Trim(l)[i] = l[i]
  BY TrimIs
<1>4. Len(Trim(l)) <= Len(s) /\ \A i \in 1..Len(Trim(l)) : Trim(l)[i] = s[Len(s) + 1 - i]
  BY <1>1, <1>2, <1>3
<1>5. QED BY <1>3, <1>4, NewestIs

\* ... and a new advert goes to the front (nodes.go, Observe).
LEMMA NewestAdded ==
    ASSUME NEW S, NEW s \in Seq(S), NEW l \in Seq(S), NEW a \in S, IsNewestOf(l, s)
    PROVE  <<a>> \o l \in Seq(S) /\ <<a>> \o l # <<>> /\ IsNewestOf(<<a>> \o l, Append(s, a))
<1> DEFINE m == <<a>> \o l
           w == Append(s, a)
<1>1. Len(l) \in Nat /\ Len(s) \in Nat
  BY LenProperties
<1>2. Len(l) <= Len(s) /\ \A i \in 1..Len(l) : l[i] = s[Len(s) + 1 - i]
  BY NewestIs
<1>3. <<a>> \in Seq(S) /\ Len(<<a>>) = 1 /\ <<a>>[1] = a
  OBVIOUS
<1>4. /\ m \in Seq(S) /\ Len(m) = Len(l) + 1
      /\ \A i \in 1..(Len(l) + 1) : m[i] = IF i <= 1 THEN <<a>>[i] ELSE l[i - 1]
  <2>1. /\ m \in Seq(S) /\ Len(m) = Len(<<a>>) + Len(l)
        /\ \A i \in 1..Len(<<a>>) + Len(l) : m[i] = IF i <= Len(<<a>>) THEN <<a>>[i] ELSE l[i - Len(<<a>>)]
    BY <1>3, ConcatProperties
  <2> HIDE DEF m
  <2>2. QED BY <1>1, <1>3, <2>1
<1>5. /\ w \in Seq(S) /\ Len(w) = Len(s) + 1
      /\ \A i \in 1..Len(s) : w[i] = s[i]
      /\ w[Len(s) + 1] = a
  BY AppendProperties
<1> HIDE DEF m, w
<1>6. ASSUME NEW i \in 1..Len(m)
      PROVE  m[i] = w[Len(w) + 1 - i]
  <2>1. CASE i = 1
    <3>1. m[i] = a /\ Len(w) + 1 - i = Len(s) + 1
      BY <1>1, <1>3, <1>4, <1>5, <2>1
    <3>2. QED BY <1>5, <3>1
  <2>2. CASE i # 1
    <3>1. /\ i \in 1..(Len(l) + 1) /\ ~(i <= 1) /\ i - 1 \in 1..Len(l)
          /\ Len(w) + 1 - i = Len(s) + 1 - (i - 1)
          /\ Len(s) + 1 - (i - 1) \in 1..Len(s)
      BY <1>1, <1>2, <1>4, <1>5, <2>2
    <3>2. m[i] = l[i - 1] /\ l[i - 1] = s[Len(s) + 1 - (i - 1)]
      BY <1>2, <1>4, <3>1
    <3>3. QED BY <1>5, <3>1, <3>2
  <2>3. QED BY <2>1, <2>2
<1>7. Len(m) <= Len(w)
  BY <1>1, <1>2, <1>4, <1>5
<1>8. IsNewestOf(m, w)
  BY <1>4, <1>5, <1>6, <1>7, NewestIs
<1>9. m # <<>>
  BY <1>1, <1>4, EmptySeq
<1>10. QED BY <1>4, <1>8, <1>9 DEF m, w

-----------------------------------------------------------------------------
\* The initial state, before the first start of the process.
LEMMA InitIInv == Init => IInv
<1> SUFFICES ASSUME Init PROVE IInv
  OBVIOUS
<1>1. RowsTypeOK
  <2>1. heard \in 0..MaxHeard /\ crashes \in 0..MaxCrashes
    BY BoundsAssumption DEF Init
  <2>2. QED BY <2>1 DEF Init, RowsTypeOK, NoRows, NoScan
<1>2. HistoryTypeOK
  BY DEF Init, HistoryTypeOK
<1>3. RowsInv /\ VersionsInv
  BY DEF Init, RowsInv, NoLostUpdate, VersionsInv, NoRows
<1>4. HistoryInv
  BY DEF Init, HistoryInv
<1>5. ListsTypeOK
  BY EmptySeq, MaxAdvertsAssumption DEF Init, ListsTypeOK, NoLists
<1>6. Heard = <<>>
  <2>1. <<>> \in Seq(Advert)
    BY EmptySeq
  <2>2. <<>> \o <<>> = <<>>
    BY <2>1, ConcatEmptySeq
  <2>3. QED BY <2>2 DEF Init, Heard, Unpersisted
<1>7. \A k \in PubKey : OfNode(Heard, k) = <<>>
  BY <1>6, OfNodeNone
<1>8. LatestIsNewest /\ BackfillInv
  <2>1. Len(<<>>) = 0 /\ IsNewestOf(<<>>, <<>>)
    BY EmptySeq, NewestAll
  <2>2. QED BY <1>7, <2>1 DEF Init, LatestIsNewest, BackfillInv, NoLists
<1>9. CountIsHistory /\ FirstStartInv /\ BackedInv
  BY <1>6, <1>7, EmptySeq
     DEF Init, CountIsHistory, FirstStartInv, BackedInv, CountsAreBacked, Backed, NoRows
<1>10. QED BY <1>1, <1>2, <1>3, <1>4, <1>5, <1>8, <1>9 DEF IInv

\* Type correctness of the rows, the flush loops and the flag scan.
LEMMA StepRowsType == IInv /\ [Next]_vars => RowsTypeOK'
<1> SUFFICES ASSUME RowsTypeOK, [Next]_vars PROVE RowsTypeOK'
  BY DEF IInv
<1> USE BoundsAssumption DEF RowsTypeOK
<1>1. ASSUME NEW k \in PubKey, NEW n \in NetworkID, NEW p \in Position \cup {NoPos},
             Observe(k, n, p)
      PROVE  RowsTypeOK'
  <2> DEFINE a == [id |-> heard + 1, pk |-> k, net |-> n, pos |-> p]
  <2>1. Upsert(nodes[k], a) \in Row
    BY <1>1, AdvertTyped, UpsertIsRow DEF Observe
  <2>2. nodes' \in [PubKey -> Row \cup {NoNode}]
    BY <1>1, <2>1 DEF Observe
  <2>3. heard' \in 0..MaxHeard
    BY <1>1 DEF Observe
  <2>4. QED BY <1>1, <2>2, <2>3 DEF Observe, nodeLoop, tables
<1>2. CASE NodeLoop
  BY <1>2 DEF NodeLoop, TakeDirty, SaveNodes, SaveNodesFails, Requeue, NoRows,
              memVars, tables, bounds
<1>3. CASE AdvertLoop
  BY <1>3 DEF AdvertLoop, PendingAdverts, AppendAdverts, AppendAdvertsFails, ClearPending,
              memVars, nodeLoop, tables, bounds
<1>4. CASE Backfill
  BY <1>4 DEF Backfill, LoadRecentAdverts, LoadRecentAdvertsFails, AttachRecentAdverts,
              memVars, nodeLoop, tables, bounds
<1>5. CASE ScanFlags
  BY <1>5, FlagsAreFlags DEF ScanFlags, memVars, nodeLoop, tables, bounds
<1>6. CASE ApplyFlags
  <2>1. ASSUME NEW k \in PubKey, scan[k] # Unscanned, nodes[k] # NoNode
        PROVE  [nodes[k] EXCEPT !.flags = scan[k]] \in Row
    BY <2>1 DEF Row
  <2>2. nodes' \in [PubKey -> Row \cup {NoNode}] /\ dirty' \in SUBSET PubKey
    BY <1>6, <2>1 DEF ApplyFlags
  <2>3. scan' \in [PubKey -> Flag \cup {Unscanned}]
    BY <1>6 DEF ApplyFlags, NoScan
  <2>4. UNCHANGED <<up, nodeFlush, nodeBatch, nodesTable, heard, crashes>>
    BY <1>6 DEF ApplyFlags, nodeLoop, tables, bounds
  <2>5. QED BY <2>2, <2>3, <2>4
<1>7. CASE Crash
  <2>1. crashes' \in 0..MaxCrashes
    BY <1>7 DEF Crash
  <2>2. nodes' = NoRows /\ nodeBatch' = NoRows /\ scan' = NoScan
    BY <1>7 DEF Crash
  <2>3. up' = FALSE /\ dirty' = {} /\ nodeFlush' = "idle" /\ UNCHANGED <<nodesTable, heard>>
    BY <1>7 DEF Crash, tables
  <2>4. QED BY <2>1, <2>2, <2>3 DEF NoRows, NoScan
<1>8. CASE Start \/ StartWithoutNodes
  BY <1>8 DEF Start, StartWithoutNodes, memVars, nodeLoop, tables, bounds
<1>9. CASE UNCHANGED vars
  BY <1>9 DEF vars, memVars, nodeLoop, tables, bounds
<1>10. QED
  BY <1>1, <1>2, <1>3, <1>4, <1>5, <1>6, <1>7, <1>8, <1>9 DEF Next, Flagger

\* Type correctness of the buffer, the batch and the history table.
LEMMA StepHistoryType == IInv /\ [Next]_vars => HistoryTypeOK'
<1> SUFFICES ASSUME IInv, [Next]_vars PROVE HistoryTypeOK'
  OBVIOUS
<1> USE DEF HistoryTypeOK
<1>0. HistoryTypeOK /\ heard \in 0..MaxHeard
  BY DEF IInv, RowsTypeOK
<1>1. ASSUME NEW k \in PubKey, NEW n \in NetworkID, NEW p \in Position \cup {NoPos},
             Observe(k, n, p)
      PROVE  HistoryTypeOK'
  <2>1. pending' \in Seq(Advert)
    BY <1>0, <1>1, AdvertTyped, AppendProperties DEF Observe
  <2>2. QED BY <1>0, <1>1, <2>1 DEF Observe, advertLoop, tables
<1>2. CASE NodeLoop
  <2>1. UNCHANGED <<pending, advertLoop, advertsTable>>
    BY <1>2 DEF NodeLoop, TakeDirty, SaveNodes, SaveNodesFails, Requeue, memVars, tables
  <2>2. QED BY <1>0, <2>1 DEF advertLoop
<1>3. CASE PendingAdverts \/ AppendAdvertsFails
  <2>1. advertBatch' \in {pending, <<>>} /\ advertFlush' \in {"idle", "saving"}
    BY <1>3 DEF PendingAdverts, AppendAdvertsFails
  <2>2. UNCHANGED <<pending, advertsTable>>
    BY <1>3 DEF PendingAdverts, AppendAdvertsFails, memVars, tables
  <2>3. QED BY <1>0, <2>1, <2>2, EmptySeq
<1>4. CASE AppendAdverts
  <2>1. advertsTable' \in Seq(Advert)
    BY <1>0, <1>4, ConcatProperties DEF AppendAdverts
  <2>2. QED BY <1>0, <1>4, <2>1 DEF AppendAdverts, memVars
<1>5. CASE ClearPending
  <2>1. SubSeq(pending, Len(advertBatch) + 1, Len(pending)) \in Seq(Advert)
    BY <1>0, LenProperties, SubSeqProperties, ElementOfSeq
  <2>2. pending' \in Seq(Advert)
    BY <1>5, <2>1 DEF ClearPending
  <2>3. QED BY <1>0, <1>5, <2>2 DEF ClearPending, tables
<1>6. CASE Backfill
  BY <1>0, <1>6 DEF Backfill, LoadRecentAdverts, LoadRecentAdvertsFails, AttachRecentAdverts,
                    memVars, advertLoop, tables
<1>7. CASE Flagger
  BY <1>0, <1>7 DEF Flagger, ScanFlags, ApplyFlags, memVars, advertLoop, tables
<1>8. CASE Crash \/ Start \/ StartWithoutNodes
  <2>1. pending' \in {pending, <<>>} /\ advertBatch' \in {advertBatch, <<>>}
    BY <1>8 DEF Crash, Start, StartWithoutNodes, memVars, advertLoop
  <2>2. advertFlush' \in {advertFlush, "idle"} /\ UNCHANGED advertsTable
    BY <1>8 DEF Crash, Start, StartWithoutNodes, advertLoop, tables
  <2>3. QED BY <1>0, <2>1, <2>2, EmptySeq
<1>9. CASE UNCHANGED vars
  BY <1>0, <1>9 DEF vars, memVars, advertLoop, tables
<1>10. QED
  BY <1>1, <1>2, <1>3, <1>4, <1>5, <1>6, <1>7, <1>8, <1>9 DEF Next, AdvertLoop

-----------------------------------------------------------------------------
\* What the actions of the history, the backfill and the scan leave alone.
rowState == <<up, nodes, dirty, nodeFlush, nodeBatch, nodesTable>>

\* Neither the history, the backfill nor a scan touches the overview rows.
LEMMA OtherStepsKeepRows ==
    AdvertLoop \/ Backfill \/ ScanFlags \/ UNCHANGED vars => UNCHANGED rowState
<1> USE DEF rowState, memVars, nodeLoop, tables
<1>1. AdvertLoop => UNCHANGED rowState
  BY DEF AdvertLoop, PendingAdverts, AppendAdverts, AppendAdvertsFails, ClearPending
<1>2. Backfill => UNCHANGED rowState
  BY DEF Backfill, LoadRecentAdverts, LoadRecentAdvertsFails, AttachRecentAdverts
<1>3. ScanFlags => UNCHANGED rowState
  BY DEF ScanFlags
<1>4. UNCHANGED vars => UNCHANGED rowState
  BY DEF vars
<1>5. QED BY <1>1, <1>2, <1>3, <1>4

\* Observe as a change of rows: it upserts one row and marks it dirty.
LEMMA ObserveRows ==
    ASSUME IInv, NEW k \in PubKey, NEW n \in NetworkID, NEW p \in Position \cup {NoPos},
           Observe(k, n, p)
    PROVE  /\ up
           /\ nodes'[k] \in Row
           /\ nodes[k] # NoNode => Advanced(nodes[k], nodes'[k])
           /\ \A j \in PubKey \ {k} : nodes'[j] = nodes[j]
           /\ dirty' = dirty \cup {k}
           /\ UNCHANGED <<up, nodeFlush, nodeBatch, nodesTable>>
<1> DEFINE a == [id |-> heard + 1, pk |-> k, net |-> n, pos |-> p]
<1>1. a \in Advert
  BY AdvertTyped DEF IInv, RowsTypeOK, Observe
<1>2. nodes[k] \in Row \cup {NoNode}
  BY DEF IInv, RowsTypeOK
<1>3. /\ Upsert(nodes[k], a) \in Row
      /\ nodes[k] # NoNode => Advanced(nodes[k], Upsert(nodes[k], a))
  BY <1>1, <1>2, UpsertIsRow
<1>4. nodes' = [nodes EXCEPT ![k] = Upsert(nodes[k], a)]
  BY DEF Observe
<1>5. up /\ dirty' = dirty \cup {k} /\ UNCHANGED <<up, nodeFlush, nodeBatch, nodesTable>>
  BY DEF Observe, nodeLoop, tables
<1>6. nodes'[k] = Upsert(nodes[k], a) /\ \A j \in PubKey \ {k} : nodes'[j] = nodes[j]
  BY <1>4 DEF IInv, RowsTypeOK
<1>7. QED BY <1>3, <1>5, <1>6

\* ApplyFlags as a change of rows: known rows keep their count and networks,
\* and every row that differs afterwards is marked dirty.
LEMMA ApplyFlagsRows ==
    ASSUME IInv, ApplyFlags
    PROVE  \E S \in SUBSET PubKey :
             /\ \A k \in S : /\ nodes[k] # NoNode
                             /\ nodes'[k] # NoNode
                             /\ Advanced(nodes[k], nodes'[k])
             /\ \A k \in PubKey \ S : nodes'[k] = nodes[k]
             /\ dirty' = dirty \cup S
             /\ UNCHANGED <<up, nodeFlush, nodeBatch, nodesTable>>
<1> DEFINE S == {k \in PubKey : /\ scan[k] # Unscanned
                               /\ nodes[k] # NoNode
                               /\ nodes[k].flags # scan[k]}
<1>1. /\ nodes' = [k \in PubKey |->
                     IF k \in S THEN [nodes[k] EXCEPT !.flags = scan[k]] ELSE nodes[k]]
      /\ dirty' = dirty \cup S
      /\ UNCHANGED <<up, nodeFlush, nodeBatch, nodesTable>>
  BY DEF ApplyFlags, nodeLoop, tables
<1>2. ASSUME NEW k \in S
      PROVE  nodes[k] # NoNode /\ nodes'[k] # NoNode /\ Advanced(nodes[k], nodes'[k])
  <2>1. nodes[k] \in Row /\ scan[k] \in Flag
    BY DEF IInv, RowsTypeOK
  <2>2. nodes'[k] = [nodes[k] EXCEPT !.flags = scan[k]]
    BY <1>1
  <2>3. nodes'[k] \in Row /\ Advanced(nodes[k], nodes'[k])
    BY <2>1, <2>2 DEF Row, Advanced
  <2>4. QED BY <2>1, <2>3, NoNodeAssumption
<1>3. \A k \in PubKey \ S : nodes'[k] = nodes[k]
  BY <1>1
<1>4. QED BY <1>1, <1>2, <1>3

-----------------------------------------------------------------------------
\* No step forgets a changed row.
LEMMA StepRowsInv == IInv /\ [Next]_vars => RowsInv'
<1> SUFFICES ASSUME IInv, [Next]_vars PROVE RowsInv'
  OBVIOUS
<1>0. RowsTypeOK /\ RowsInv
  BY DEF IInv
<1> USE NoNodeAssumption DEF RowsTypeOK, RowsInv, NoLostUpdate, NoRows
<1>1. ASSUME NEW k \in PubKey, NEW n \in NetworkID, NEW p \in Position \cup {NoPos},
             Observe(k, n, p)
      PROVE  RowsInv'
  <2>1. /\ up
        /\ dirty' = dirty \cup {k}
        /\ UNCHANGED <<up, nodeFlush, nodeBatch, nodesTable>>
    BY <1>1, ObserveRows
  <2>2. nodes'[k] # NoNode /\ \A j \in PubKey \ {k} : nodes'[j] = nodes[j]
    BY <1>1, ObserveRows
  <2>3. QED BY <1>0, <2>1, <2>2
<1>2. CASE TakeDirty
  BY <1>0, <1>2 DEF TakeDirty, tables
<1>3. CASE SaveNodes
  BY <1>0, <1>3 DEF SaveNodes, memVars
<1>4. CASE SaveNodesFails
  BY <1>0, <1>4 DEF SaveNodesFails, memVars, tables
<1>5. CASE Requeue
  BY <1>0, <1>5 DEF Requeue, tables
<1>6. CASE ApplyFlags
  <2>1. PICK S \in SUBSET PubKey :
             /\ \A k \in S : nodes[k] # NoNode /\ nodes'[k] # NoNode
             /\ \A k \in PubKey \ S : nodes'[k] = nodes[k]
             /\ dirty' = dirty \cup S
             /\ UNCHANGED <<up, nodeFlush, nodeBatch, nodesTable>>
    BY <1>6, ApplyFlagsRows
  <2>2. nodes' = NoRows \/ up
    <3>1. CASE S = {}
      BY <1>0, <1>6, <2>1, <3>1 DEF ApplyFlags
    <3>2. CASE S # {}
      BY <1>0, <2>1, <3>2
    <3>3. QED BY <3>1, <3>2
  <2>3. QED BY <1>0, <2>1, <2>2
<1>7. CASE Crash
  BY <1>0, <1>7 DEF Crash, tables
<1>8. CASE Start \/ StartWithoutNodes
  BY <1>0, <1>8 DEF Start, StartWithoutNodes, memVars, nodeLoop, tables
<1>9. CASE AdvertLoop \/ Backfill \/ ScanFlags \/ UNCHANGED vars
  BY <1>0, <1>9, OtherStepsKeepRows DEF rowState
<1>10. QED
  BY <1>1, <1>2, <1>3, <1>4, <1>5, <1>6, <1>7, <1>8, <1>9 DEF Next, NodeLoop, Flagger

\* When loading cannot fail, no step puts an older version of a row in front
\* of a newer one.
LEMMA StepVersions == IInv /\ [Next]_vars /\ ~LoadMayFail => VersionsInv'
<1> SUFFICES ASSUME IInv, [Next]_vars, ~LoadMayFail PROVE VersionsInv'
  OBVIOUS
<1>0. RowsTypeOK /\ RowsInv /\ VersionsInv
  BY DEF IInv
<1>a. ASSUME NEW r \in Row, NEW s \in Row, NEW t \in Row, Advanced(r, s), Advanced(s, t)
      PROVE  Advanced(r, t)
  BY <1>a DEF Advanced, Row
<1>b. ASSUME NEW r \in Row PROVE Advanced(r, r)
  BY DEF Advanced, Row
<1> USE NoNodeAssumption DEF RowsTypeOK, VersionsInv, NoRows
<1>1. ASSUME NEW k \in PubKey, NEW n \in NetworkID, NEW p \in Position \cup {NoPos},
             Observe(k, n, p)
      PROVE  VersionsInv'
  <2>1. up /\ UNCHANGED <<up, nodeBatch, nodesTable>>
    BY <1>1, ObserveRows
  <2>2. /\ nodes'[k] \in Row
        /\ nodes[k] # NoNode => Advanced(nodes[k], nodes'[k])
        /\ \A j \in PubKey \ {k} : nodes'[j] = nodes[j]
    BY <1>1, ObserveRows
  <2>3. nodesTable[k] # NoNode => Advanced(nodesTable[k], nodes'[k])
    BY <1>0, <1>a, <2>1, <2>2
  <2>4. nodeBatch[k] # NoNode => Advanced(nodeBatch[k], nodes'[k])
    BY <1>0, <1>a, <2>2 DEF RowsInv
  <2>5. QED BY <1>0, <2>1, <2>2, <2>3, <2>4
<1>2. CASE TakeDirty
  BY <1>0, <1>2, <1>b DEF TakeDirty, tables, RowsInv
<1>3. CASE SaveNodes
  BY <1>0, <1>3 DEF SaveNodes, memVars, RowsInv
<1>4. CASE SaveNodesFails
  BY <1>0, <1>4 DEF SaveNodesFails, memVars, tables
<1>5. CASE Requeue
  BY <1>0, <1>5 DEF Requeue, tables
<1>6. CASE ApplyFlags
  <2>1. PICK S \in SUBSET PubKey :
             /\ \A k \in S : /\ nodes[k] # NoNode
                             /\ nodes'[k] # NoNode
                             /\ Advanced(nodes[k], nodes'[k])
             /\ \A k \in PubKey \ S : nodes'[k] = nodes[k]
             /\ UNCHANGED <<up, nodeBatch, nodesTable>>
    BY <1>6, ApplyFlagsRows
  <2>2. \A k \in PubKey : nodes'[k] \in Row \cup {NoNode}
    BY StepRowsType
  <2>3. ASSUME NEW k \in S
        PROVE  /\ nodesTable[k] # NoNode /\ up => Advanced(nodesTable[k], nodes'[k])
               /\ nodeBatch[k] # NoNode => Advanced(nodeBatch[k], nodes'[k])
    BY <1>0, <1>a, <2>1, <2>2
  <2>4. QED BY <1>0, <2>1, <2>3
<1>7. CASE Crash
  BY <1>0, <1>7 DEF Crash, tables
<1>8. CASE Start
  BY <1>0, <1>8, <1>b DEF Start, memVars, nodeLoop, tables, RowsInv
<1>9. CASE StartWithoutNodes
  BY <1>9 DEF StartWithoutNodes
<1>10. CASE AdvertLoop \/ Backfill \/ ScanFlags \/ UNCHANGED vars
  BY <1>0, <1>10, OtherStepsKeepRows DEF rowState
<1>11. QED
  BY <1>1, <1>2, <1>3, <1>4, <1>5, <1>6, <1>7, <1>8, <1>9, <1>10 DEF Next, NodeLoop, Flagger

-----------------------------------------------------------------------------
\* A prefix of a buffer is still its prefix when an advert is appended.
LEMMA PrefixOfAppend ==
    ASSUME NEW S, NEW s \in Seq(S), NEW e \in S, NEW n \in 0..Len(s)
    PROVE  /\ SubSeq(Append(s, e), 1, n) = SubSeq(s, 1, n)
           /\ SubSeq(Append(s, e), n + 1, Len(s) + 1) = Append(SubSeq(s, n + 1, Len(s)), e)
<1> DEFINE t == Append(s, e)
<1>1. /\ t \in Seq(S) /\ Len(t) = Len(s) + 1
      /\ \A i \in 1..Len(s) : t[i] = s[i]
      /\ t[Len(s) + 1] = e
      /\ Len(s) \in Nat
  BY AppendProperties, LenProperties
<1>2. \A i \in 1..Len(s) : s[i] \in S
  BY ElementOfSeq
<1>3. \A i \in 1..Len(t) : t[i] \in S
  BY <1>1, ElementOfSeq
<1>4. SubSeq(t, 1, n) = SubSeq(s, 1, n)
  <2>1. /\ SubSeq(t, 1, n) \in Seq(S)
        /\ Len(SubSeq(t, 1, n)) = IF 1 <= n THEN n - 1 + 1 ELSE 0
        /\ \A i \in 1..n - 1 + 1 : SubSeq(t, 1, n)[i] = t[1 + i - 1]
    BY <1>1, <1>3, SubSeqProperties
  <2>2. /\ SubSeq(s, 1, n) \in Seq(S)
        /\ Len(SubSeq(s, 1, n)) = IF 1 <= n THEN n - 1 + 1 ELSE 0
        /\ \A i \in 1..n - 1 + 1 : SubSeq(s, 1, n)[i] = s[1 + i - 1]
    BY <1>1, <1>2, SubSeqProperties
  <2>3. \A i \in 1..Len(SubSeq(t, 1, n)) : SubSeq(t, 1, n)[i] = SubSeq(s, 1, n)[i]
    BY <1>1, <2>1, <2>2
  <2>4. QED BY <2>1, <2>2, <2>3, SeqEqual
<1>5. SubSeq(t, n + 1, Len(s) + 1) = Append(SubSeq(s, n + 1, Len(s)), e)
  <2> DEFINE u == SubSeq(s, n + 1, Len(s))
             v == SubSeq(t, n + 1, Len(s) + 1)
  <2>1. /\ v \in Seq(S)
        /\ Len(v) = Len(s) + 1 - n
        /\ \A i \in 1..Len(s) + 1 - n : v[i] = t[n + i]
    <3>1. /\ v \in Seq(S)
          /\ Len(v) = IF n + 1 <= Len(s) + 1 THEN (Len(s) + 1) - (n + 1) + 1 ELSE 0
          /\ \A i \in 1..(Len(s) + 1) - (n + 1) + 1 : v[i] = t[(n + 1) + i - 1]
      BY <1>1, <1>3, SubSeqProperties
    <3>2. QED BY <1>1, <3>1
  <2>2. /\ u \in Seq(S)
        /\ Len(u) = Len(s) - n
        /\ \A i \in 1..Len(s) - n : u[i] = s[n + i]
    <3>1. /\ u \in Seq(S)
          /\ Len(u) = IF n + 1 <= Len(s) THEN Len(s) - (n + 1) + 1 ELSE 0
          /\ \A i \in 1..Len(s) - (n + 1) + 1 : u[i] = s[(n + 1) + i - 1]
      BY <1>1, <1>2, SubSeqProperties
    <3>2. QED BY <1>1, <3>1
  <2> HIDE DEF u, v
  <2>3. /\ Append(u, e) \in Seq(S)
        /\ Len(Append(u, e)) = Len(u) + 1
        /\ \A i \in 1..Len(u) : Append(u, e)[i] = u[i]
        /\ Append(u, e)[Len(u) + 1] = e
    BY <2>2, AppendProperties
  <2>4. \A i \in 1..Len(v) : v[i] = Append(u, e)[i]
    <3> SUFFICES ASSUME NEW i \in 1..Len(v) PROVE v[i] = Append(u, e)[i]
      OBVIOUS
    <3>1. CASE i <= Len(u)
      BY <1>1, <2>1, <2>2, <2>3, <3>1
    <3>2. CASE i > Len(u)
      <4>1. i = Len(u) + 1 /\ n + i = Len(s) + 1
        BY <1>1, <2>1, <2>2, <3>2
      <4>2. QED BY <1>1, <2>1, <2>3, <4>1
    <3>3. QED BY <1>1, <2>1, <2>2, <3>1, <3>2
  <2>5. Len(v) = Len(Append(u, e))
    BY <1>1, <2>1, <2>2, <2>3
  <2>6. v = Append(u, e)
    BY <2>1, <2>3, <2>4, <2>5, SeqEqual
  <2>7. QED BY <2>6 DEF u, v
<1>6. QED BY <1>4, <1>5

\* A sequence is a prefix of it followed by the rest.
LEMMA PrefixAndRest ==
    ASSUME NEW S, NEW s \in Seq(S), NEW n \in 0..Len(s)
    PROVE  SubSeq(s, 1, n) \o SubSeq(s, n + 1, Len(s)) = s
<1>1. Len(s) \in Nat
  BY LenProperties
<1>2. SubSeq(s, 1, n) \o SubSeq(s, n + 1, Len(s)) = SubSeq(s, 1, Len(s))
  <2>1. /\ 1 \in 1..Len(s) + 1
        /\ n \in 1 - 1..Len(s)
        /\ Len(s) \in n..Len(s)
    BY <1>1
  <2>2. QED BY <2>1, ConcatAdjacentSubSeq
<1>3. QED BY <1>2, SubSeqFull

\* What the row flush, the backfill and the scan leave alone.
historyState == <<up, pending, advertFlush, advertBatch, advertsTable>>

\* Neither the row flush, the backfill nor the flagger touches the history.
LEMMA OtherStepsKeepHistory ==
    NodeLoop \/ Backfill \/ Flagger \/ UNCHANGED vars => UNCHANGED historyState
<1> USE DEF historyState, memVars, advertLoop, tables
<1>1. NodeLoop => UNCHANGED historyState
  BY DEF NodeLoop, TakeDirty, SaveNodes, SaveNodesFails, Requeue
<1>2. Backfill => UNCHANGED historyState
  BY DEF Backfill, LoadRecentAdverts, LoadRecentAdvertsFails, AttachRecentAdverts
<1>3. Flagger => UNCHANGED historyState
  BY DEF Flagger, ScanFlags, ApplyFlags
<1>4. UNCHANGED vars => UNCHANGED historyState
  BY DEF vars
<1>5. QED BY <1>1, <1>2, <1>3, <1>4

\* The batch of the history flush stays a prefix of the growing buffer.
LEMMA StepHistoryInv == IInv /\ [Next]_vars => HistoryInv'
<1> SUFFICES ASSUME IInv, [Next]_vars PROVE HistoryInv'
  OBVIOUS
<1>0. HistoryTypeOK /\ HistoryInv /\ Len(advertBatch) \in Nat /\ Len(pending) \in Nat
  BY LenProperties DEF IInv, HistoryTypeOK
<1>1. ASSUME NEW k \in PubKey, NEW n \in NetworkID, NEW p \in Position \cup {NoPos},
             Observe(k, n, p)
      PROVE  HistoryInv'
  <2> DEFINE a == [id |-> heard + 1, pk |-> k, net |-> n, pos |-> p]
  <2>1. a \in Advert
    BY <1>1, AdvertTyped DEF Observe, IInv, RowsTypeOK
  <2>2. pending' = Append(pending, a) /\ up' = up /\ UNCHANGED advertLoop /\ up
    BY <1>1 DEF Observe
  <2>3. Len(pending') = Len(pending) + 1
    BY <1>0, <2>1, <2>2, AppendProperties DEF HistoryTypeOK
  <2>4. Len(advertBatch) <= Len(pending) =>
          SubSeq(pending', 1, Len(advertBatch)) = SubSeq(pending, 1, Len(advertBatch))
    BY <1>0, <2>1, <2>2, PrefixOfAppend DEF HistoryTypeOK
  <2>5. QED BY <1>0, <2>2, <2>3, <2>4 DEF HistoryInv, advertLoop
<1>2. CASE PendingAdverts
  <2>1. SubSeq(pending, 1, Len(pending)) = pending
    BY <1>0, SubSeqFull DEF HistoryTypeOK
  <2>2. QED BY <1>0, <1>2, <2>1 DEF PendingAdverts, HistoryInv, memVars
<1>3. CASE AppendAdverts
  BY <1>0, <1>3 DEF AppendAdverts, HistoryInv, memVars
<1>4. CASE AppendAdvertsFails
  BY <1>0, <1>4 DEF AppendAdvertsFails, HistoryInv, memVars
<1>5. CASE ClearPending
  <2>1. up
    BY <1>0, <1>5 DEF ClearPending, HistoryInv
  <2>2. advertBatch' = <<>> /\ advertFlush' = "idle" /\ up' = up
    BY <1>5 DEF ClearPending
  <2>3. QED BY <1>0, <2>1, <2>2 DEF HistoryInv, HistoryTypeOK, IInv, RowsTypeOK
<1>6. CASE NodeLoop \/ Backfill \/ Flagger \/ UNCHANGED vars
  BY <1>0, <1>6, OtherStepsKeepHistory DEF historyState, HistoryInv
<1>7. CASE Crash \/ Start \/ StartWithoutNodes
  BY <1>0, <1>7 DEF Crash, Start, StartWithoutNodes, HistoryInv, memVars, advertLoop
<1>8. QED
  BY <1>1, <1>2, <1>3, <1>4, <1>5, <1>6, <1>7 DEF Next, AdvertLoop

-----------------------------------------------------------------------------
\* What the abstract history sees of a state.
LEMMA HeardTyped ==
    ASSUME IInv
    PROVE  /\ Unpersisted \in Seq(Advert)
           /\ Heard \in Seq(Advert)
           /\ Len(Heard) = Len(advertsTable) + Len(Unpersisted)
           /\ Len(advertsTable) \in Nat /\ Len(Unpersisted) \in Nat
<1>1. HistoryTypeOK
  BY DEF IInv
<1>2. Unpersisted \in Seq(Advert)
  <2>1. SubSeq(pending, Len(advertBatch) + 1, Len(pending)) \in Seq(Advert)
    BY <1>1, LenProperties, SubSeqProperties, ElementOfSeq DEF HistoryTypeOK
  <2>2. QED BY <1>1, <2>1 DEF Unpersisted, HistoryTypeOK
<1>3. QED BY <1>1, <1>2, ConcatProperties, LenProperties DEF Heard, HistoryTypeOK

\* Steps that change neither the table nor the unpersisted adverts are stutters
\* of the abstract history.
LEMMA SameHistory ==
    ASSUME UNCHANGED advertsTable, Unpersisted' = Unpersisted
    PROVE  UNCHANGED History!vars
BY DEF Heard, History!vars

\* An advert heard is the last one (nodes.go, Observe).
LEMMA HeardAppended ==
    ASSUME IInv, NEW k \in PubKey, NEW n \in NetworkID, NEW p \in Position \cup {NoPos},
           Observe(k, n, p)
    PROVE  /\ [id |-> heard + 1, pk |-> k, net |-> n, pos |-> p] \in Advert
           /\ Heard' = Append(Heard, [id |-> heard + 1, pk |-> k, net |-> n, pos |-> p])
<1> DEFINE a == [id |-> heard + 1, pk |-> k, net |-> n, pos |-> p]
<1>0. HistoryTypeOK /\ HistoryInv /\ Len(advertBatch) \in Nat /\ Len(pending) \in Nat
  BY LenProperties DEF IInv, HistoryTypeOK
<1>1. a \in Advert
  BY AdvertTyped DEF Observe, IInv, RowsTypeOK
<1>2. pending' = Append(pending, a) /\ UNCHANGED <<advertFlush, advertBatch, advertsTable>>
  BY DEF Observe, advertLoop, tables
<1> HIDE DEF a
<1>3. Unpersisted' = Append(Unpersisted, a)
  <2>1. CASE advertFlush = "saved"
    <3>1. Len(advertBatch) \in 0..Len(pending)
      BY <1>0, <2>1 DEF HistoryInv
    <3>2. Len(pending') = Len(pending) + 1
      BY <1>0, <1>1, <1>2, AppendProperties DEF HistoryTypeOK
    <3>3. SubSeq(pending', Len(advertBatch) + 1, Len(pending) + 1)
            = Append(SubSeq(pending, Len(advertBatch) + 1, Len(pending)), a)
      BY <1>0, <1>1, <1>2, <3>1, PrefixOfAppend DEF HistoryTypeOK
    <3>4. QED BY <1>2, <2>1, <3>2, <3>3 DEF Unpersisted
  <2>2. CASE advertFlush # "saved"
    BY <1>2, <2>2 DEF Unpersisted
  <2>3. QED BY <2>1, <2>2
<1>4. advertsTable \o Append(Unpersisted, a) = Append(advertsTable \o Unpersisted, a)
  <2>1. /\ advertsTable \in Seq(Advert) /\ Unpersisted \in Seq(Advert) /\ <<a>> \in Seq(Advert)
        /\ advertsTable \o Unpersisted \in Seq(Advert)
    BY <1>0, <1>1, HeardTyped DEF HistoryTypeOK, Heard
  <2>2. Append(Unpersisted, a) = Unpersisted \o <<a>>
    BY <1>1, <2>1, AppendIsConcat
  <2>3. Append(advertsTable \o Unpersisted, a) = (advertsTable \o Unpersisted) \o <<a>>
    BY <1>1, <2>1, AppendIsConcat
  <2>4. QED BY <2>1, <2>2, <2>3, ConcatAssociative
<1>5. Heard' = Append(Heard, a)
  BY <1>2, <1>3, <1>4 DEF Heard
<1>6. QED BY <1>1, <1>5 DEF a

\* So it is appended to the abstract log.
LEMMA ObserveHears ==
    ASSUME IInv, NEW k \in PubKey, NEW n \in NetworkID, NEW p \in Position \cup {NoPos},
           Observe(k, n, p)
    PROVE  History!Hear
BY HeardAppended DEF History!Hear, Observe, tables

\* The commit of AppendAdverts extends the durable prefix of the abstract log.
LEMMA AppendPersists ==
    ASSUME IInv, AppendAdverts
    PROVE  Heard' = Heard /\ History!Persist
<1>0. HistoryTypeOK /\ HistoryInv /\ Len(advertBatch) \in Nat /\ Len(pending) \in Nat
  BY LenProperties DEF IInv, HistoryTypeOK
<1>1. /\ advertFlush = "saving" /\ advertFlush' = "saved"
      /\ advertsTable' = advertsTable \o advertBatch
      /\ UNCHANGED <<pending, advertBatch>>
  BY DEF AppendAdverts, memVars
<1> DEFINE rest == SubSeq(pending, Len(advertBatch) + 1, Len(pending))
<1>2. Unpersisted = pending /\ Unpersisted' = rest
  BY <1>1 DEF Unpersisted
<1>3. rest \in Seq(Advert)
  BY <1>0, LenProperties, SubSeqProperties, ElementOfSeq DEF HistoryTypeOK
<1>4. advertBatch \o rest = pending
  <2>1. Len(advertBatch) \in 0..Len(pending) /\ advertBatch = SubSeq(pending, 1, Len(advertBatch))
    BY <1>0, <1>1 DEF HistoryInv
  <2>2. QED BY <1>0, <2>1, PrefixAndRest DEF HistoryTypeOK
<1> HIDE DEF rest
<1>5. (advertsTable \o advertBatch) \o rest = advertsTable \o pending
  <2>1. advertsTable \in Seq(Advert) /\ advertBatch \in Seq(Advert)
    BY <1>0 DEF HistoryTypeOK
  <2>2. (advertsTable \o advertBatch) \o rest = advertsTable \o (advertBatch \o rest)
    BY <1>3, <2>1, ConcatAssociative
  <2>3. QED BY <1>4, <2>2
<1>6. Heard' = Heard
  BY <1>1, <1>2, <1>5 DEF Heard
<1>7. Len(advertsTable') \in (Len(advertsTable) + 1)..Len(Heard)
  <2>1. Len(advertsTable') = Len(advertsTable) + Len(advertBatch) /\ Len(advertsTable) \in Nat
    BY <1>0, <1>1, ConcatProperties, LenProperties DEF HistoryTypeOK
  <2>2. Len(Heard) = Len(advertsTable) + Len(pending)
    BY <1>2, HeardTyped
  <2>3. Len(advertBatch) >= 1 /\ Len(advertBatch) <= Len(pending)
    BY <1>0, <1>1, EmptySeq DEF HistoryInv, HistoryTypeOK
  <2>4. QED BY <1>0, <2>1, <2>2, <2>3
<1>8. QED BY <1>6, <1>7 DEF History!Persist

\* A crash cuts the abstract log down to its durable prefix.
LEMMA CrashLoses ==
    ASSUME IInv, Crash
    PROVE  Heard' = advertsTable /\ History!Lose
<1>0. advertsTable \in Seq(Advert)
  BY DEF IInv, HistoryTypeOK
<1>1. pending' = <<>> /\ advertFlush' = "idle" /\ UNCHANGED advertsTable
  BY DEF Crash, tables
<1>2. Heard' = advertsTable
  BY <1>0, <1>1, ConcatEmptySeq DEF Heard, Unpersisted
<1>3. SubSeq(Heard, 1, Len(advertsTable)) = advertsTable
  <2>1. CASE advertsTable = <<>>
    BY <2>1, SubSeqEmpty, EmptySeq
  <2>2. CASE advertsTable # <<>>
    <3>1. Len(advertsTable) \in Nat \ {0}
      BY <1>0, <2>2, EmptySeq
    <3>2. /\ 1 \in 1..Len(advertsTable) /\ Len(advertsTable) \in 1..Len(advertsTable)
          /\ Unpersisted \in Seq(Advert)
      BY <3>1, HeardTyped
    <3>3. SubSeq(advertsTable \o Unpersisted, 1, Len(advertsTable))
            = SubSeq(advertsTable, 1, Len(advertsTable))
      BY <1>0, <3>2, SubSeqOfConcat1
    <3>4. QED BY <1>0, <3>3, SubSeqFull DEF Heard
  <2>3. QED BY <2>1, <2>2
<1>4. QED BY <1>1, <1>2, <1>3 DEF History!Lose

\* No other step changes the adverts heard (nodes.go, ClearPending).
LEMMA HistoryKept ==
    ASSUME IInv,
           \/ NodeLoop \/ PendingAdverts \/ AppendAdvertsFails \/ ClearPending \/ Backfill
           \/ Flagger \/ Start \/ StartWithoutNodes \/ UNCHANGED vars
    PROVE  UNCHANGED advertsTable /\ Unpersisted' = Unpersisted /\ Heard' = Heard
<1>0. HistoryTypeOK /\ HistoryInv
  BY DEF IInv
<1>1. UNCHANGED advertsTable /\ Unpersisted' = Unpersisted
  <2>1. CASE PendingAdverts \/ AppendAdvertsFails
    BY <2>1 DEF PendingAdverts, AppendAdvertsFails, Unpersisted, memVars, tables
  <2>2. CASE ClearPending
    <3>1. UNCHANGED advertsTable /\ advertFlush = "saved" /\ advertFlush' = "idle"
      BY <2>2 DEF ClearPending, tables
    <3>2. Len(advertBatch) \in Nat /\ Len(pending) \in Nat /\ Len(advertBatch) <= Len(pending)
      BY <1>0, <3>1, LenProperties DEF HistoryTypeOK, HistoryInv
    <3>3. pending' = SubSeq(pending, Len(advertBatch) + 1, Len(pending))
      BY <2>2, <3>2, SubSeqEmpty DEF ClearPending
    <3>4. QED BY <3>1, <3>3 DEF Unpersisted
  <2>3. CASE NodeLoop \/ Backfill \/ Flagger \/ UNCHANGED vars
    <3>1. UNCHANGED historyState
      BY <2>3, OtherStepsKeepHistory
    <3>2. QED BY <3>1 DEF Unpersisted, historyState
  <2>4. CASE Start \/ StartWithoutNodes
    BY <2>4 DEF Start, StartWithoutNodes, Unpersisted, memVars, advertLoop, tables
  <2>5. QED BY <2>1, <2>2, <2>3, <2>4
<1>2. QED BY <1>1 DEF Heard

-----------------------------------------------------------------------------
\* What the other steps leave of the lists and the backfill.
listState == <<latest, backfill, todo, recent>>

\* Adverts, the backfill and a crash change the lists, and nothing else does.
LEMMA OtherStepsKeepLists ==
    NodeLoop \/ AdvertLoop \/ Flagger \/ StartWithoutNodes \/ UNCHANGED vars => UNCHANGED listState
<1> USE DEF listState, memVars, fillVars
<1>1. NodeLoop => UNCHANGED listState
  BY DEF NodeLoop, TakeDirty, SaveNodes, SaveNodesFails, Requeue
<1>2. AdvertLoop => UNCHANGED listState
  BY DEF AdvertLoop, PendingAdverts, AppendAdverts, AppendAdvertsFails, ClearPending
<1>3. Flagger => UNCHANGED listState
  BY DEF Flagger, ScanFlags, ApplyFlags
<1>4. StartWithoutNodes \/ UNCHANGED vars => UNCHANGED listState
  BY DEF StartWithoutNodes, vars
<1>5. QED BY <1>1, <1>2, <1>3, <1>4

\* What the backfill reads of a node is adverts (db.go, LoadRecentAdverts).
LEMMA ReadTyped ==
    ASSUME IInv, NEW k \in PubKey
    PROVE  /\ Trim(NewestFirst(OfNode(advertsTable, k))) \in Seq(Advert)
           /\ Len(Trim(NewestFirst(OfNode(advertsTable, k)))) <= MaxAdverts
           /\ IsNewestOf(Trim(NewestFirst(OfNode(advertsTable, k))), OfNode(advertsTable, k))
<1>1. OfNode(advertsTable, k) \in Seq(Advert)
  BY OfNodeTyped DEF IInv, HistoryTypeOK
<1>2. /\ NewestFirst(OfNode(advertsTable, k)) \in Seq(Advert)
      /\ IsNewestOf(NewestFirst(OfNode(advertsTable, k)), OfNode(advertsTable, k))
  BY <1>1, NewestFirstIs, NewestAll
<1>3. QED BY <1>1, <1>2, TrimIs, NewestTrimmed

\* Observe as a change of lists: its advert goes to the front of its node's, which
\* is not empty afterwards (nodes.go, Observe).
LEMMA ObserveLists ==
    ASSUME IInv, NEW k \in PubKey, NEW n \in NetworkID, NEW p \in Position \cup {NoPos},
           Observe(k, n, p)
    PROVE  LET a == [id |-> heard + 1, pk |-> k, net |-> n, pos |-> p] IN
           /\ latest' = [latest EXCEPT ![k] = Trim(<<a>> \o latest[k])]
           /\ Trim(<<a>> \o latest[k]) \in Seq(Advert)
           /\ Trim(<<a>> \o latest[k]) # <<>>
           /\ Len(Trim(<<a>> \o latest[k])) <= MaxAdverts
           /\ IsNewestOf(Trim(<<a>> \o latest[k]), OfNode(Heard', k))
           /\ UNCHANGED <<backfill, todo, recent>>
<1> DEFINE a == [id |-> heard + 1, pk |-> k, net |-> n, pos |-> p]
<1>1. /\ latest' = [latest EXCEPT ![k] = Trim(<<a>> \o latest[k])]
      /\ UNCHANGED <<backfill, todo, recent>>
  BY DEF Observe, fillVars
<1>2. a \in Advert /\ a.pk = k /\ Heard' = Append(Heard, a) /\ Heard \in Seq(Advert)
  BY HeardAppended, HeardTyped
<1> HIDE DEF a
<1>3. /\ OfNode(Heard, k) \in Seq(Advert) /\ latest[k] \in Seq(Advert)
      /\ IsNewestOf(latest[k], OfNode(Heard, k))
  BY <1>2, OfNodeTyped DEF IInv, ListsTypeOK, LatestIsNewest
<1>4. OfNode(Heard', k) = Append(OfNode(Heard, k), a)
  BY <1>2, OfNodeAppended
<1>5. /\ <<a>> \o latest[k] \in Seq(Advert) /\ <<a>> \o latest[k] # <<>>
      /\ IsNewestOf(<<a>> \o latest[k], OfNode(Heard', k))
  BY <1>2, <1>3, <1>4, NewestAdded
<1>6. OfNode(Heard', k) \in Seq(Advert)
  BY <1>2, <1>3, <1>4, AppendProperties
<1>7. /\ Trim(<<a>> \o latest[k]) \in Seq(Advert) /\ Trim(<<a>> \o latest[k]) # <<>>
      /\ Len(Trim(<<a>> \o latest[k])) <= MaxAdverts
      /\ IsNewestOf(Trim(<<a>> \o latest[k]), OfNode(Heard', k))
  BY <1>5, <1>6, TrimIs, NewestTrimmed
<1>8. QED BY <1>1, <1>7 DEF a

\* Type correctness of the lists and the backfill.
LEMMA StepListsType == IInv /\ [Next]_vars => ListsTypeOK'
<1> SUFFICES ASSUME IInv, [Next]_vars PROVE ListsTypeOK'
  OBVIOUS
<1>0. ListsTypeOK
  BY DEF IInv
<1>1. ASSUME NEW k \in PubKey, NEW n \in NetworkID, NEW p \in Position \cup {NoPos},
             Observe(k, n, p)
      PROVE  ListsTypeOK'
  BY <1>0, <1>1, ObserveLists DEF ListsTypeOK
<1>2. ASSUME NEW k \in PubKey, LoadRecentAdverts(k)
      PROVE  ListsTypeOK'
  BY <1>0, <1>2, ReadTyped DEF ListsTypeOK, LoadRecentAdverts, memVars
<1>3. CASE LoadRecentAdvertsFails
  BY <1>0, <1>3, EmptySeq, MaxAdvertsAssumption DEF ListsTypeOK, LoadRecentAdvertsFails, memVars, NoLists
<1>4. CASE AttachRecentAdverts
  <2>1. \A k \in PubKey : Trim(recent[k]) \in Seq(Advert) /\ Len(Trim(recent[k])) <= MaxAdverts
    BY <1>0, TrimIs DEF ListsTypeOK
  <2>2. QED BY <1>0, <1>4, <2>1, EmptySeq, MaxAdvertsAssumption DEF ListsTypeOK, AttachRecentAdverts, NoLists
<1>5. CASE Crash
  BY <1>5, EmptySeq, MaxAdvertsAssumption DEF ListsTypeOK, Crash, NoLists
<1>6. CASE Start
  BY <1>0, <1>6 DEF ListsTypeOK, Start
<1>7. CASE NodeLoop \/ AdvertLoop \/ Flagger \/ StartWithoutNodes \/ UNCHANGED vars
  BY <1>0, <1>7, OtherStepsKeepLists DEF ListsTypeOK, listState
<1>8. QED
  BY <1>1, <1>2, <1>3, <1>4, <1>5, <1>6, <1>7 DEF Next, Backfill

-----------------------------------------------------------------------------
\* Nothing of a node is buffered.
NoneBuffered(k) == \A i \in 1..Len(pending) : pending[i].pk # k

\* Then all that was heard of it is in the table.
LEMMA NoneBufferedIs ==
    ASSUME IInv, NEW k, NoneBuffered(k)
    PROVE  OfNode(Heard, k) = OfNode(advertsTable, k)
<1>0. /\ pending \in Seq(Advert) /\ advertsTable \in Seq(Advert)
      /\ Len(pending) \in Nat /\ Len(advertBatch) \in Nat
      /\ \A i \in 1..Len(pending) : pending[i] \in Advert
  BY LenProperties, ElementOfSeq DEF IInv, HistoryTypeOK
<1>1. \A i \in 1..Len(Unpersisted) : Unpersisted[i].pk # k
  <2>1. CASE advertFlush = "saved"
    <3> DEFINE n == Len(advertBatch)
               u == SubSeq(pending, n + 1, Len(pending))
    <3>1. /\ Len(u) = IF n + 1 <= Len(pending) THEN Len(pending) - (n + 1) + 1 ELSE 0
          /\ \A i \in 1..Len(pending) - (n + 1) + 1 : u[i] = pending[(n + 1) + i - 1]
      BY <1>0, SubSeqProperties
    <3>2. Unpersisted = u
      BY <2>1 DEF Unpersisted
    <3> HIDE DEF u, n
    <3>3. n \in Nat
      BY <1>0 DEF n
    <3>4. ASSUME NEW i \in 1..Len(u) PROVE u[i].pk # k
      <4>1. (n + 1) + i - 1 \in 1..Len(pending) /\ u[i] = pending[(n + 1) + i - 1]
        BY <1>0, <3>1, <3>3
      <4>2. QED BY <4>1 DEF NoneBuffered
    <3>5. QED BY <3>2, <3>4
  <2>2. CASE advertFlush # "saved"
    BY <2>2 DEF Unpersisted, NoneBuffered
  <2>3. QED BY <2>1, <2>2
<1>2. Unpersisted \in Seq(Advert)
  BY HeardTyped
<1>3. QED BY <1>0, <1>1, <1>2, OfNodeOthers DEF Heard

\* The buffer grows by adverts heard, and by no others.
LEMMA BufferGrows ==
    ASSUME IInv, [Next]_vars, NEW k \in PubKey, NoneBuffered(k)
    PROVE  \/ NoneBuffered(k)'
           \/ \E n \in NetworkID, p \in Position \cup {NoPos} : Observe(k, n, p)
<1>0. /\ pending \in Seq(Advert) /\ Len(pending) \in Nat /\ Len(advertBatch) \in Nat
      /\ \A i \in 1..Len(pending) : pending[i] \in Advert
  BY LenProperties, ElementOfSeq DEF IInv, HistoryTypeOK
<1>1. ASSUME NEW j \in PubKey, NEW n \in NetworkID, NEW p \in Position \cup {NoPos},
             Observe(j, n, p), j # k
      PROVE  NoneBuffered(k)'
  <2> DEFINE a == [id |-> heard + 1, pk |-> j, net |-> n, pos |-> p]
  <2>1. a \in Advert /\ a.pk # k /\ pending' = Append(pending, a)
    BY <1>1, HeardAppended DEF Observe
  <2> HIDE DEF a
  <2>2. /\ Len(pending') = Len(pending) + 1
        /\ \A i \in 1..Len(pending) : pending'[i] = pending[i]
        /\ pending'[Len(pending) + 1] = a
    BY <1>0, <2>1, AppendProperties
  <2>3. ASSUME NEW i \in 1..Len(pending') PROVE pending'[i].pk # k
    <3>1. i \in 1..Len(pending) \/ i = Len(pending) + 1
      BY <1>0, <2>2
    <3>2. QED BY <2>1, <2>2, <3>1 DEF NoneBuffered
  <2>4. QED BY <2>3 DEF NoneBuffered
<1>2. CASE ClearPending
  <2> DEFINE n == Len(advertBatch)
             u == SubSeq(pending, n + 1, Len(pending))
  <2>1. /\ Len(u) = IF n + 1 <= Len(pending) THEN Len(pending) - (n + 1) + 1 ELSE 0
        /\ \A i \in 1..Len(pending) - (n + 1) + 1 : u[i] = pending[(n + 1) + i - 1]
    BY <1>0, SubSeqProperties
  <2>2. pending' = <<>> \/ pending' = u
    BY <1>2 DEF ClearPending
  <2> HIDE DEF u, n
  <2>3. n \in Nat
    BY <1>0 DEF n
  <2>4. ASSUME NEW i \in 1..Len(u) PROVE u[i].pk # k
    <3>1. (n + 1) + i - 1 \in 1..Len(pending) /\ u[i] = pending[(n + 1) + i - 1]
      BY <1>0, <2>1, <2>3
    <3>2. QED BY <3>1 DEF NoneBuffered
  <2>5. Len(<<>>) = 0
    BY EmptySeq
  <2>6. QED BY <2>2, <2>4, <2>5 DEF NoneBuffered
<1>3. CASE Crash
  <2>1. pending' = <<>> /\ Len(<<>>) = 0
    BY <1>3, EmptySeq DEF Crash
  <2>2. QED BY <2>1 DEF NoneBuffered
<1>4. ASSUME \/ NodeLoop \/ PendingAdverts \/ AppendAdverts \/ AppendAdvertsFails \/ Backfill
             \/ Flagger \/ Start \/ StartWithoutNodes \/ UNCHANGED vars
      PROVE  NoneBuffered(k)'
  <2>1. UNCHANGED pending
    <3>1. CASE NodeLoop \/ Backfill \/ Flagger \/ UNCHANGED vars
      BY <3>1, OtherStepsKeepHistory DEF historyState
    <3>2. CASE PendingAdverts \/ AppendAdverts \/ AppendAdvertsFails \/ Start \/ StartWithoutNodes
      BY <3>2 DEF PendingAdverts, AppendAdverts, AppendAdvertsFails, Start, StartWithoutNodes,
                  memVars
    <3>3. QED BY <1>4, <3>1, <3>2
  <2>2. QED BY <2>1 DEF NoneBuffered
<1>5. QED
  BY <1>1, <1>2, <1>3, <1>4 DEF Next, AdvertLoop

\* What is heard stays what it was, but for adverts and crashes (nodes.go,
\* AppendAdverts and ClearPending).
LEMMA HeardStep ==
    ASSUME IInv, [Next]_vars
    PROVE  \/ Heard' = Heard /\ ~Crash
           \/ Heard' = advertsTable /\ Crash
           \/ \E k \in PubKey, n \in NetworkID, p \in Position \cup {NoPos} : Observe(k, n, p)
<1>1. CASE Crash
  BY <1>1, CrashLoses
<1>2. CASE AppendAdverts
  BY <1>2, AppendPersists, CrashLoses DEF AppendAdverts, Crash, tables, IInv
<1>3. CASE \/ NodeLoop \/ PendingAdverts \/ AppendAdvertsFails \/ ClearPending \/ Backfill
           \/ Flagger \/ Start \/ StartWithoutNodes \/ UNCHANGED vars
  BY <1>1, <1>3, HistoryKept
<1>4. QED BY <1>1, <1>2, <1>3 DEF Next, AdvertLoop

\* No advert is lost from a list, put twice or in the wrong place by the steps of
\* the backfill, whatever adverts, flushes and crashes come between them.
LEMMA StepLists == IInv /\ [Next]_vars => LatestIsNewest' /\ BackfillInv'
<1> SUFFICES ASSUME IInv, [Next]_vars, NEW k \in PubKey
             PROVE  /\ IsNewestOf(latest'[k], OfNode(Heard', k))
                    /\ latest'[k] = <<>> => /\ NoneBuffered(k)'
                                            /\ IsNewestOf(recent'[k], OfNode(Heard', k))
  BY DEF LatestIsNewest, BackfillInv, NoneBuffered
<1>0. /\ latest \in [PubKey -> Seq(Advert)] /\ recent \in [PubKey -> Seq(Advert)]
      /\ IsNewestOf(latest[k], OfNode(Heard, k))
      /\ latest[k] = <<>> => NoneBuffered(k) /\ IsNewestOf(recent[k], OfNode(Heard, k))
      /\ Heard \in Seq(Advert) /\ advertsTable \in Seq(Advert)
      /\ OfNode(Heard, k) \in Seq(Advert)
  BY HeardTyped, OfNodeTyped
     DEF IInv, ListsTypeOK, HistoryTypeOK, LatestIsNewest, BackfillInv, NoneBuffered
<1>1. ASSUME NEW n \in NetworkID, NEW p \in Position \cup {NoPos}, Observe(k, n, p)
      PROVE  latest'[k] # <<>> /\ IsNewestOf(latest'[k], OfNode(Heard', k))
  <2> DEFINE a == [id |-> heard + 1, pk |-> k, net |-> n, pos |-> p]
  <2>1. /\ latest' = [latest EXCEPT ![k] = Trim(<<a>> \o latest[k])]
        /\ Trim(<<a>> \o latest[k]) # <<>>
        /\ IsNewestOf(Trim(<<a>> \o latest[k]), OfNode(Heard', k))
    BY <1>1, ObserveLists
  <2> HIDE DEF a
  <2>2. QED BY <1>0, <2>1
<1>2. ASSUME ~\E n \in NetworkID, p \in Position \cup {NoPos} : Observe(k, n, p)
      PROVE  /\ IsNewestOf(latest'[k], OfNode(Heard', k))
             /\ latest'[k] = <<>> => /\ NoneBuffered(k)'
                                     /\ IsNewestOf(recent'[k], OfNode(Heard', k))
  <2>1. NoneBuffered(k) => NoneBuffered(k)'
    BY <1>2, BufferGrows
  <2>2. CASE OfNode(Heard', k) = OfNode(Heard, k) /\ latest'[k] = latest[k] /\ recent'[k] = recent[k]
    BY <1>0, <2>1, <2>2
  <2>3. ASSUME NEW j \in PubKey, NEW n \in NetworkID, NEW p \in Position \cup {NoPos},
               Observe(j, n, p)
        PROVE  OfNode(Heard', k) = OfNode(Heard, k) /\ latest'[k] = latest[k] /\ recent'[k] = recent[k]
    <3> DEFINE a == [id |-> heard + 1, pk |-> j, net |-> n, pos |-> p]
    <3>1. j # k
      BY <1>2, <2>3
    <3>2. a \in Advert /\ a.pk # k /\ Heard' = Append(Heard, a)
      BY <2>3, <3>1, HeardAppended
    <3>3. latest' = [latest EXCEPT ![j] = Trim(<<a>> \o latest[j])] /\ recent' = recent
      BY <2>3, ObserveLists
    <3> HIDE DEF a
    <3>4. QED BY <1>0, <3>1, <3>2, <3>3, OfNodeAppended
  <2>4. CASE Crash
    <3>1. latest'[k] = <<>> /\ recent'[k] = <<>> /\ Heard' = advertsTable /\ pending' = <<>>
      BY <2>4, CrashLoses DEF Crash, NoLists
    <3>2. OfNode(Heard', k) \in Seq(Advert)
      BY <1>0, <3>1, OfNodeTyped
    <3>3. IsNewestOf(<<>>, OfNode(Heard', k))
      BY <3>2, NewestAll
    <3>4. NoneBuffered(k)'
      BY <3>1, EmptySeq DEF NoneBuffered
    <3>5. QED BY <3>1, <3>3, <3>4
  <2>5. ASSUME ~Crash, ~\E j \in PubKey, n \in NetworkID, p \in Position \cup {NoPos} : Observe(j, n, p)
        PROVE  Heard' = Heard
    BY <2>5, HeardStep
  <2>6. ASSUME NEW j \in PubKey, LoadRecentAdverts(j), Heard' = Heard
        PROVE  /\ IsNewestOf(latest'[k], OfNode(Heard', k))
               /\ latest'[k] = <<>> => /\ NoneBuffered(k)'
                                       /\ IsNewestOf(recent'[k], OfNode(Heard', k))
    <3>1. /\ recent' = [recent EXCEPT ![j] = Trim(NewestFirst(OfNode(advertsTable, j)))]
          /\ latest' = latest
      BY <2>6 DEF LoadRecentAdverts, memVars
    <3>2. latest[k] = <<>> => OfNode(Heard, k) = OfNode(advertsTable, k)
      BY <1>0, NoneBufferedIs
    <3>3. IsNewestOf(Trim(NewestFirst(OfNode(advertsTable, k))), OfNode(advertsTable, k))
      BY ReadTyped
    <3>4. QED BY <1>0, <2>1, <2>6, <3>1, <3>2, <3>3
  <2>7. CASE LoadRecentAdvertsFails /\ Heard' = Heard
    <3>1. recent'[k] = <<>> /\ latest' = latest
      BY <2>7 DEF LoadRecentAdvertsFails, memVars, NoLists
    <3>2. IsNewestOf(<<>>, OfNode(Heard, k))
      BY <1>0, NewestAll
    <3>3. QED BY <1>0, <2>1, <2>7, <3>1, <3>2
  <2>8. CASE AttachRecentAdverts /\ Heard' = Heard
    <3>1. /\ recent'[k] = <<>>
          /\ latest'[k] = IF nodes[k] = NoNode \/ latest[k] # <<>> \/ recent[k] = <<>>
                          THEN latest[k] ELSE Trim(recent[k])
      BY <2>8 DEF AttachRecentAdverts, NoLists
    <3>2. IsNewestOf(<<>>, OfNode(Heard, k))
      BY <1>0, NewestAll
    <3>3. latest[k] = <<>> => IsNewestOf(Trim(recent[k]), OfNode(Heard, k))
      BY <1>0, NewestTrimmed
    <3>4. recent[k] # <<>> => Trim(recent[k]) # <<>>
      BY <1>0, TrimIs
    <3>5. QED BY <1>0, <2>1, <2>8, <3>1, <3>2, <3>3, <3>4
  <2>9. CASE Start /\ Heard' = Heard
    BY <1>0, <2>2, <2>9 DEF Start
  <2>10. CASE (NodeLoop \/ AdvertLoop \/ Flagger \/ StartWithoutNodes \/ UNCHANGED vars) /\ Heard' = Heard
    BY <2>2, <2>10, OtherStepsKeepLists DEF listState
  <2>11. QED
    BY <2>2, <2>3, <2>4, <2>5, <2>6, <2>7, <2>8, <2>9, <2>10 DEF Next, Backfill
<1>3. QED BY <1>1, <1>2

-----------------------------------------------------------------------------
\* A node's row and its adverts grow together, until a crash loses adverts that
\* its row may count.
LEMMA StepCounts == IInv /\ [Next]_vars => CountIsHistory' /\ FirstStartInv'
<1> SUFFICES ASSUME IInv, [Next]_vars PROVE CountIsHistory' /\ FirstStartInv'
  OBVIOUS
<1>0. /\ RowsTypeOK /\ RowsInv /\ CountIsHistory /\ FirstStartInv
      /\ Heard \in Seq(Advert)
      /\ \A k \in PubKey : OfNode(Heard, k) \in Seq(Advert) /\ Len(OfNode(Heard, k)) \in Nat
  BY HeardTyped, OfNodeTyped, LenProperties DEF IInv
<1>1. CASE Crash
  <2>1. crashes' # 0
    BY <1>0, <1>1, BoundsAssumption DEF Crash, RowsTypeOK
  <2>2. QED BY <2>1 DEF CountIsHistory, FirstStartInv
<1>2. ASSUME ~Crash PROVE crashes' = crashes
  BY <1>2 DEF Next, Observe, NodeLoop, TakeDirty, SaveNodes, SaveNodesFails, Requeue, AdvertLoop,
       PendingAdverts, AppendAdverts, AppendAdvertsFails, ClearPending, Backfill,
       LoadRecentAdverts, LoadRecentAdvertsFails, AttachRecentAdverts, Flagger, ScanFlags,
       ApplyFlags, Start, StartWithoutNodes, bounds, vars
<1>3. ASSUME NEW j \in PubKey, NEW n \in NetworkID, NEW p \in Position \cup {NoPos},
             Observe(j, n, p), ~Crash
      PROVE  CountIsHistory' /\ FirstStartInv'
  <2> DEFINE a == [id |-> heard + 1, pk |-> j, net |-> n, pos |-> p]
  <2>1. a \in Advert /\ a.pk = j /\ Heard' = Append(Heard, a)
    BY <1>3, HeardAppended
  <2>2. nodes' = [nodes EXCEPT ![j] = Upsert(nodes[j], a)] /\ up' /\ crashes' = crashes
    BY <1>3 DEF Observe
  <2> HIDE DEF a
  <2>3. ASSUME NEW k \in PubKey, crashes' = 0
        PROVE  Len(OfNode(Heard', k)) = IF nodes'[k] = NoNode THEN 0 ELSE nodes'[k].count
    <3>1. Len(OfNode(Heard, k)) = IF nodes[k] = NoNode THEN 0 ELSE nodes[k].count
      BY <1>0, <2>2, <2>3 DEF CountIsHistory
    <3>2. CASE k = j
      <4>1. nodes'[k] = Upsert(nodes[k], a) /\ nodes[k] \in Row \cup {NoNode}
        BY <1>0, <2>2, <3>2 DEF RowsTypeOK
      <4>2. /\ nodes'[k] # NoNode
            /\ nodes'[k].count = (IF nodes[k] = NoNode THEN 0 ELSE nodes[k].count) + 1
        BY <2>1, <4>1, UpsertIsRow, NoNodeAssumption DEF Upsert
      <4>3. Len(OfNode(Heard', k)) = Len(OfNode(Heard, k)) + 1
        <5>1. OfNode(Heard', k) = Append(OfNode(Heard, k), a)
          BY <1>0, <2>1, <3>2, OfNodeAppended
        <5>2. QED BY <1>0, <2>1, <5>1, AppendProperties
      <4>4. QED BY <3>1, <4>2, <4>3
    <3>3. CASE k # j
      <4>1. nodes'[k] = nodes[k]
        BY <1>0, <2>2, <3>3 DEF RowsTypeOK
      <4>2. OfNode(Heard', k) = OfNode(Heard, k)
        BY <1>0, <2>1, <3>3, OfNodeAppended
      <4>3. QED BY <3>1, <4>1, <4>2
    <3>4. QED BY <3>2, <3>3
  <2>4. QED BY <2>2, <2>3 DEF CountIsHistory, FirstStartInv
<1>4. ASSUME ~Crash, ~\E j \in PubKey, n \in NetworkID, p \in Position \cup {NoPos} : Observe(j, n, p)
      PROVE  Heard' = Heard
  BY <1>4, HeardStep
<1>5. CASE ApplyFlags /\ Heard' = Heard
  <2>1. ASSUME NEW k \in PubKey
        PROVE  /\ nodes'[k] = NoNode <=> nodes[k] = NoNode
               /\ nodes[k] # NoNode => nodes'[k].count = nodes[k].count
    <3>1. nodes'[k] \in {nodes[k], [nodes[k] EXCEPT !.flags = scan[k]]} /\ nodes[k] \in Row \cup {NoNode}
      BY <1>0, <1>5 DEF ApplyFlags, RowsTypeOK
    <3>2. nodes[k] = NoNode => nodes'[k] = NoNode
      BY <1>5 DEF ApplyFlags
    <3>3. CASE nodes[k] # NoNode
      <4>1. nodes[k] \in Row /\ nodes'[k] \in Row \cup {NoNode}
        BY <3>1, <3>3, StepRowsType DEF RowsTypeOK
      <4>2. nodes'[k] # NoNode
        BY <1>5, <3>3, ApplyFlagsRows
      <4>3. [nodes[k] EXCEPT !.flags = scan[k]].count = nodes[k].count
        BY <4>1 DEF Row
      <4>4. QED BY <3>1, <3>3, <4>2, <4>3
    <3>4. QED BY <3>2, <3>3
  <2>2. UNCHANGED <<up, crashes, nodesTable>>
    BY <1>5 DEF ApplyFlags, tables, bounds
  <2>3. QED BY <1>0, <1>5, <2>1, <2>2 DEF CountIsHistory, FirstStartInv
<1>6. CASE Start /\ Heard' = Heard
  <2>1. nodes' = nodesTable /\ ~up /\ up' /\ crashes' = crashes
    BY <1>6 DEF Start, bounds
  <2>2. crashes = 0 => nodes' = nodes
    BY <1>0, <2>1 DEF FirstStartInv, RowsInv
  <2>3. QED BY <1>0, <1>6, <2>1, <2>2 DEF CountIsHistory, FirstStartInv
<1>7. CASE SaveNodes /\ Heard' = Heard
  <2>1. nodes' = nodes /\ up' = up /\ crashes' = crashes
    BY <1>7 DEF SaveNodes, memVars, bounds
  <2>2. ~up => nodesTable' = nodesTable
    <3>1. ~up => \A k \in PubKey : nodeBatch[k] = NoNode
      BY <1>0 DEF RowsInv, NoRows
    <3>2. QED BY <1>0, <1>7, <3>1 DEF SaveNodes, RowsTypeOK
  <2>3. QED BY <1>0, <1>7, <2>1, <2>2 DEF CountIsHistory, FirstStartInv
<1>8. CASE UNCHANGED <<nodes, nodesTable, crashes>> /\ (up' = up \/ up') /\ Heard' = Heard
  BY <1>0, <1>8 DEF CountIsHistory, FirstStartInv
<1>9. ASSUME \/ TakeDirty \/ SaveNodesFails \/ Requeue \/ AdvertLoop \/ Backfill \/ ScanFlags
             \/ StartWithoutNodes \/ UNCHANGED vars
      PROVE  UNCHANGED <<nodes, nodesTable>> /\ (up' = up \/ up')
  <2>1. CASE TakeDirty \/ SaveNodesFails \/ Requeue \/ StartWithoutNodes
    BY <2>1 DEF TakeDirty, SaveNodesFails, Requeue, StartWithoutNodes, memVars, tables
  <2>2. CASE AdvertLoop \/ Backfill \/ ScanFlags \/ UNCHANGED vars
    BY <2>2, OtherStepsKeepRows DEF rowState
  <2>3. QED BY <1>9, <2>1, <2>2
<1>10. QED
  BY <1>1, <1>2, <1>3, <1>4, <1>5, <1>6, <1>7, <1>8, <1>9 DEF Next, NodeLoop, Flagger

\* No step counts an advert that the history lacks and no crash has lost.
LEMMA StepBacked == IInv /\ [Next]_vars => BackedInv'
<1> SUFFICES ASSUME IInv, [Next]_vars PROVE BackedInv'
  OBVIOUS
<1>0. /\ RowsTypeOK /\ RowsTypeOK' /\ BackedInv
      /\ Heard \in Seq(Advert) /\ Len(Heard) \in Nat /\ heard \in Nat
      /\ \A k \in PubKey : OfNode(Heard, k) \in Seq(Advert) /\ Len(OfNode(Heard, k)) \in Nat
  BY HeardTyped, OfNodeTyped, LenProperties, StepRowsType DEF IInv, RowsTypeOK
<1>1. ASSUME NEW j \in PubKey, NEW n \in NetworkID, NEW p \in Position \cup {NoPos},
             Observe(j, n, p)
      PROVE  BackedInv'
  <2> DEFINE a == [id |-> heard + 1, pk |-> j, net |-> n, pos |-> p]
  <2>1. a \in Advert /\ a.pk = j /\ Heard' = Append(Heard, a)
    BY <1>1, HeardAppended
  <2>2. /\ nodes' = [nodes EXCEPT ![j] = Upsert(nodes[j], a)] /\ heard' = heard + 1
        /\ UNCHANGED <<nodeBatch, nodesTable>>
    BY <1>1 DEF Observe, nodeLoop, tables
  <2> HIDE DEF a
  <2>3. Len(Heard') = Len(Heard) + 1
    BY <1>0, <2>1, AppendProperties
  <2>4. ASSUME NEW k \in PubKey
        PROVE  Len(OfNode(Heard', k)) = Len(OfNode(Heard, k)) + (IF k = j THEN 1 ELSE 0)
    <3>1. OfNode(Heard', k) = IF k = j THEN Append(OfNode(Heard, k), a) ELSE OfNode(Heard, k)
      BY <1>0, <2>1, OfNodeAppended
    <3>2. QED BY <1>0, <2>1, <3>1, AppendProperties
  <2>5. ASSUME NEW k \in PubKey, NEW row \in Row, Backed(row, k)
        PROVE  row.count + Len(Heard') <= Len(OfNode(Heard', k)) + heard'
    BY <1>0, <2>2, <2>3, <2>4, <2>5, NoNodeAssumption DEF Backed, Row
  <2>6. nodes'[j].count + Len(Heard') <= Len(OfNode(Heard', j)) + heard'
    <3>1. nodes'[j] = Upsert(nodes[j], a) /\ nodes[j] \in Row \cup {NoNode}
      BY <1>0, <2>2 DEF RowsTypeOK
    <3>2. nodes'[j].count = (IF nodes[j] = NoNode THEN 0 ELSE nodes[j].count) + 1
      BY <3>1 DEF Upsert
    <3>3. (IF nodes[j] = NoNode THEN 0 ELSE nodes[j].count) + Len(Heard)
             <= Len(OfNode(Heard, j)) + heard
      BY <1>0 DEF BackedInv, CountsAreBacked, Backed
    <3>4. (IF nodes[j] = NoNode THEN 0 ELSE nodes[j].count) \in Nat
      BY <3>1 DEF Row
    <3>5. QED BY <1>0, <2>2, <2>3, <2>4, <3>2, <3>3, <3>4
  <2>7. \A k \in PubKey : k # j => nodes'[k] = nodes[k]
    BY <1>0, <2>2 DEF RowsTypeOK
  <2>8. Len(Heard') <= heard'
    BY <1>0, <2>2, <2>3 DEF BackedInv
  <2>9. ASSUME NEW k \in PubKey
        PROVE  Backed(nodes[k], k) /\ Backed(nodesTable[k], k) /\ Backed(nodeBatch[k], k)
    BY <1>0 DEF BackedInv, CountsAreBacked
  <2>10. QED
    BY <1>0, <2>2, <2>5, <2>6, <2>7, <2>8, <2>9 DEF BackedInv, CountsAreBacked, Backed, RowsTypeOK
<1>2. CASE Crash
  <2>1. /\ Heard' = advertsTable /\ heard' = heard /\ nodesTable' = nodesTable
        /\ nodes' = NoRows /\ nodeBatch' = NoRows
    BY <1>2, CrashLoses DEF Crash, tables
  <2>2. /\ advertsTable \in Seq(Advert) /\ Unpersisted \in Seq(Advert)
        /\ Len(Heard) = Len(advertsTable) + Len(Unpersisted)
        /\ Len(advertsTable) \in Nat /\ Len(Unpersisted) \in Nat
    BY HeardTyped DEF IInv, HistoryTypeOK
  <2>3. ASSUME NEW k \in PubKey, nodesTable[k] # NoNode
        PROVE  nodesTable[k].count + Len(Heard') <= Len(OfNode(Heard', k)) + heard'
    <3>1. nodesTable[k].count + Len(Heard) <= Len(OfNode(Heard, k)) + heard
      BY <1>0, <2>3 DEF BackedInv, CountsAreBacked, Backed
    <3>2. Len(OfNode(Heard, k)) <= Len(OfNode(advertsTable, k)) + Len(Unpersisted)
      BY <2>2, OfNodeGrows DEF Heard
    <3>3. Len(OfNode(advertsTable, k)) \in Nat
      BY <2>2, OfNodeTyped, LenProperties
    <3>4. nodesTable[k].count \in Nat
      BY <1>0, <2>3 DEF RowsTypeOK, Row
    <3>5. QED BY <1>0, <2>1, <2>2, <3>1, <3>2, <3>3, <3>4
  <2>4. Len(Heard') <= heard'
    BY <1>0, <2>1, <2>2 DEF BackedInv
  <2>5. QED BY <2>1, <2>3, <2>4 DEF BackedInv, CountsAreBacked, Backed, NoRows
<1>3. ASSUME ~Crash, ~\E j \in PubKey, n \in NetworkID, p \in Position \cup {NoPos} : Observe(j, n, p)
      PROVE  Heard' = Heard /\ heard' = heard
  <2>1. Heard' = Heard
    BY <1>3, HeardStep
  <2>2. heard' = heard
    BY <1>3 DEF Next, NodeLoop, TakeDirty, SaveNodes, SaveNodesFails, Requeue, AdvertLoop,
         PendingAdverts, AppendAdverts, AppendAdvertsFails, ClearPending, Backfill,
         LoadRecentAdverts, LoadRecentAdvertsFails, AttachRecentAdverts, Flagger, ScanFlags,
         ApplyFlags, Start, StartWithoutNodes, bounds, vars
  <2>3. QED BY <2>1, <2>2
<1> DEFINE Moved(k) == LET old == {nodes[k], nodesTable[k], nodeBatch[k]} IN
             \A row \in {nodes'[k], nodesTable'[k], nodeBatch'[k]} :
                row # NoNode => \E r \in old : r # NoNode /\ row.count = r.count
\* Every other step only moves rows, or changes their flags.
<1>4. ASSUME \A k \in PubKey : Moved(k), Heard' = Heard, heard' = heard
      PROVE  BackedInv'
  <2>1. ASSUME NEW k \in PubKey
        PROVE  \A row \in {nodes'[k], nodesTable'[k], nodeBatch'[k]} :
                  row # NoNode => row.count + Len(Heard) <= Len(OfNode(Heard, k)) + heard
    <3>1. \A r \in {nodes[k], nodesTable[k], nodeBatch[k]} :
             r # NoNode => r.count + Len(Heard) <= Len(OfNode(Heard, k)) + heard
      BY <1>0 DEF BackedInv, CountsAreBacked, Backed
    <3>2. Moved(k)
      BY <1>4
    <3>3. QED BY <3>1, <3>2
  <2> HIDE DEF Moved
  <2>2. Len(Heard') <= heard'
    BY <1>0, <1>4 DEF BackedInv
  <2>3. QED BY <1>4, <2>1, <2>2 DEF BackedInv, CountsAreBacked, Backed
<1>5. ASSUME TakeDirty
      PROVE  \A k \in PubKey : Moved(k)
  <2>1. /\ UNCHANGED <<nodes, nodesTable>>
        /\ \A k \in PubKey : nodeBatch'[k] \in {nodes[k], NoNode}
    BY <1>5 DEF TakeDirty, tables
  <2>2. QED BY <2>1
<1>6. ASSUME SaveNodes
      PROVE  \A k \in PubKey : Moved(k)
  <2>1. /\ UNCHANGED nodes
        /\ \A k \in PubKey : nodesTable'[k] \in {nodeBatch[k], nodesTable[k]} /\ nodeBatch'[k] = NoNode
    BY <1>6 DEF SaveNodes, memVars, NoRows
  <2>2. QED BY <2>1
<1>7. ASSUME SaveNodesFails \/ Requeue
      PROVE  \A k \in PubKey : Moved(k)
  <2>1. /\ UNCHANGED <<nodes, nodesTable>>
        /\ \A k \in PubKey : nodeBatch'[k] \in {nodeBatch[k], NoNode}
    BY <1>7 DEF SaveNodesFails, Requeue, memVars, tables, NoRows
  <2>2. QED BY <2>1
<1>8. ASSUME ApplyFlags
      PROVE  \A k \in PubKey : Moved(k)
  <2>1. UNCHANGED <<nodesTable, nodeBatch>>
    BY <1>8 DEF ApplyFlags, nodeLoop, tables
  <2>2. ASSUME NEW k \in PubKey, nodes'[k] # NoNode
        PROVE  nodes[k] # NoNode /\ nodes'[k].count = nodes[k].count
    <3>1. nodes[k] # NoNode
      BY <1>8, <2>2 DEF ApplyFlags
    <3>2. nodes[k] \in Row
      BY <1>0, <3>1 DEF RowsTypeOK
    <3>3. nodes'[k] \in {nodes[k], [nodes[k] EXCEPT !.flags = scan[k]]}
      BY <1>8 DEF ApplyFlags
    <3>4. [nodes[k] EXCEPT !.flags = scan[k]].count = nodes[k].count
      BY <3>2 DEF Row
    <3>5. QED BY <3>1, <3>3, <3>4
  <2>3. QED BY <2>1, <2>2
<1>9. ASSUME Start
      PROVE  \A k \in PubKey : Moved(k)
  <2>1. nodes' = nodesTable /\ UNCHANGED <<nodesTable, nodeBatch>>
    BY <1>9 DEF Start, nodeLoop, tables
  <2>2. QED BY <2>1
<1>10. ASSUME StartWithoutNodes \/ AdvertLoop \/ Backfill \/ ScanFlags \/ UNCHANGED vars
       PROVE  \A k \in PubKey : Moved(k)
  <2>1. UNCHANGED <<nodes, nodesTable, nodeBatch>>
    <3>1. CASE StartWithoutNodes
      BY <3>1 DEF StartWithoutNodes, memVars, nodeLoop, tables
    <3>2. CASE AdvertLoop \/ Backfill \/ ScanFlags \/ UNCHANGED vars
      BY <3>2, OtherStepsKeepRows DEF rowState
    <3>3. QED BY <1>10, <3>1, <3>2
  <2>2. QED BY <2>1
<1> HIDE DEF Moved
<1>11. \/ Crash \/ \E j \in PubKey, n \in NetworkID, p \in Position \cup {NoPos} : Observe(j, n, p)
       \/ \A k \in PubKey : Moved(k)
  BY <1>5, <1>6, <1>7, <1>8, <1>9, <1>10 DEF Next, NodeLoop, Flagger
<1>12. QED BY <1>1, <1>2, <1>3, <1>4, <1>11

-----------------------------------------------------------------------------
\* The inductive invariant, for every value of the constants.
THEOREM Invariance == Spec => []IInv
<1>1. IInv /\ [Next]_vars => IInv'
  BY StepRowsType, StepHistoryType, StepListsType, StepRowsInv, StepHistoryInv, StepLists,
     StepCounts, StepBacked, StepVersions DEF IInv
<1>2. QED BY InitIInv, <1>1, PTL DEF Spec

\* Rows, buffers, tables, lists and what the backfill read keep their types, and no
\* list grows over its cap (nodes.go, main.go).
THEOREM Types == Spec => []TypeOK
<1>1. IInv => TypeOK
  BY DEF IInv, TypeOK
<1>2. QED BY Invariance, <1>1, PTL

\* A node's rolling list is the newest of its adverts without a gap, newest first:
\* the late backfill, one query per node, and the adverts and flushes between its
\* queries and its end leave no gap and no disorder (nodes.go,
\* AttachRecentAdverts).
THEOREM LatestAreNewest == Spec => []LatestIsNewest
<1>1. IInv => LatestIsNewest
  BY DEF IInv
<1>2. QED BY Invariance, <1>1, PTL

\* Until the process crashes, a node's count is the number of its adverts in the
\* history and the buffer (nodes.go, Observe and ClearPending).
THEOREM CountsAreHistory == Spec => []CountIsHistory
<1>1. IInv => CountIsHistory
  BY DEF IInv
<1>2. QED BY Invariance, <1>1, PTL

\* Whatever crashes lose of the overview or of the history, which independent loops
\* flush, no advert is counted twice: what a row counts and the history lacks was
\* lost in a crash (main.go; nodes.go, Restore and AttachRecentAdverts).
THEOREM CountsStayBacked == Spec => []CountsAreBacked
<1>1. IInv => CountsAreBacked
  BY DEF IInv, BackedInv
<1>2. QED BY Invariance, <1>1, PTL

\* No change of a node's row is forgotten (nodes.go, TakeDirty and Requeue).
THEOREM RowUpdatesAreKept == Spec => []NoLostUpdate
<1>1. IInv => NoLostUpdate
  BY DEF IInv, RowsInv
<1>2. QED BY Invariance, <1>1, PTL

\* When the overview rows can always be loaded, durable rows never go back,
\* across flushes, failed flushes, crashes and restarts (nodes.go, NodeRecord).
THEOREM DurableRowsNeverGoBack == ASSUME ~LoadMayFail PROVE Spec => DurableRowsAdvance
<1> DEFINE Kept == \A k \in PubKey :
                     nodesTable[k] # NoNode =>
                       /\ nodesTable'[k] # NoNode
                       /\ Advanced(nodesTable[k], nodesTable'[k])
<1>1. IInv /\ [Next]_vars => [Kept]_vars
  <2> SUFFICES ASSUME IInv, Next PROVE Kept
    BY DEF vars
  <2>1. RowsTypeOK /\ VersionsInv
    BY DEF IInv
  <2>2. ASSUME UNCHANGED nodesTable PROVE Kept
    BY <2>1, <2>2 DEF RowsTypeOK, Advanced, Row
  <2>3. CASE SaveNodes
    BY <2>1, <2>3 DEF SaveNodes, RowsTypeOK, VersionsInv, Advanced, Row
  <2>4. CASE ~SaveNodes
    <3>1. UNCHANGED nodesTable
      BY <2>4, OtherStepsKeepRows
         DEF Next, Observe, NodeLoop, TakeDirty, SaveNodesFails, Requeue, Flagger, ApplyFlags,
             Crash, Start, StartWithoutNodes, rowState, tables
    <3>2. QED BY <2>2, <3>1
  <2>5. QED BY <2>3, <2>4
<1>2. QED BY Invariance, <1>1, PTL DEF Spec, DurableRowsAdvance

-----------------------------------------------------------------------------
\* The buffer, the batch and the table together implement the abstract history:
\* each advert is stored once, in order, without a gap (nodes.go,
\* PendingAdverts and ClearPending; db.go, AppendAdverts).
THEOREM HistoryRefinement == Spec => HistoryIsPrefixOfHeard
<1>1. Init => History!Init
  <2> SUFFICES ASSUME Init PROVE Heard = <<>> /\ Len(advertsTable) = 0
    BY DEF History!Init
  <2>1. advertsTable = <<>> /\ Unpersisted = <<>>
    BY DEF Init, Unpersisted
  <2>2. <<>> \in Seq(Advert) /\ Len(<<>>) = 0
    BY EmptySeq
  <2>3. <<>> \o <<>> = <<>>
    BY <2>2, ConcatEmptySeq
  <2>4. QED BY <2>1, <2>2, <2>3 DEF Heard
<1>2. IInv /\ [Next]_vars => [History!Next]_(History!vars)
  <2> SUFFICES ASSUME IInv, [Next]_vars PROVE [History!Next]_(History!vars)
    OBVIOUS
  <2>0. HistoryTypeOK /\ HistoryInv
    BY DEF IInv
  <2>1. ASSUME NEW k \in PubKey, NEW n \in NetworkID, NEW p \in Position \cup {NoPos},
               Observe(k, n, p)
        PROVE  History!Next
    BY <2>1, ObserveHears DEF History!Next
  <2>2. CASE AppendAdverts
    BY <2>2, AppendPersists DEF History!Next
  <2>3. CASE PendingAdverts \/ AppendAdvertsFails
    <3>1. UNCHANGED advertsTable /\ Unpersisted' = Unpersisted
      BY <2>3 DEF PendingAdverts, AppendAdvertsFails, Unpersisted, memVars, tables
    <3>2. QED BY <3>1, SameHistory
  <2>4. CASE ClearPending
    <3>1. UNCHANGED advertsTable /\ advertFlush = "saved" /\ advertFlush' = "idle"
      BY <2>4 DEF ClearPending, tables
    <3>2. Len(advertBatch) \in Nat /\ Len(pending) \in Nat /\ Len(advertBatch) <= Len(pending)
      BY <2>0, <3>1, LenProperties DEF HistoryTypeOK, HistoryInv
    <3>3. pending' = SubSeq(pending, Len(advertBatch) + 1, Len(pending))
      BY <2>4, <3>2, SubSeqEmpty DEF ClearPending
    <3>4. QED BY <3>1, <3>3, SameHistory DEF Unpersisted
  <2>5. CASE Crash
    BY <2>5, CrashLoses DEF History!Next
  <2>6. CASE NodeLoop \/ Backfill \/ Flagger \/ UNCHANGED vars
    <3>1. UNCHANGED historyState
      BY <2>6, OtherStepsKeepHistory
    <3>2. QED BY <3>1, SameHistory DEF Unpersisted, historyState
  <2>7. CASE Start \/ StartWithoutNodes
    <3>1. UNCHANGED advertsTable /\ Unpersisted' = Unpersisted
      BY <2>7 DEF Start, StartWithoutNodes, Unpersisted, memVars, advertLoop, tables
    <3>2. QED BY <3>1, SameHistory
  <2>8. QED
    BY <2>1, <2>2, <2>3, <2>4, <2>5, <2>6, <2>7 DEF Next, AdvertLoop
<1>3. QED BY Invariance, <1>1, <1>2, PTL DEF Spec, HistoryIsPrefixOfHeard, History!Spec

\* The overview rows, their flush loop, the flag scan and the restarts implement
\* the write-behind protocol that the registries share (WriteBehind).
THEOREM RowsRefinement == Spec => RowsAreWriteBehind
<1>1. Init => Rows!Init
  BY DEF Init, Rows!Init, NoRows, Rows!NoRows
<1>2. IInv /\ [Next]_vars => [Rows!Next]_(Rows!vars)
  <2> SUFFICES ASSUME IInv, [Next]_vars PROVE [Rows!Next]_(Rows!vars)
    OBVIOUS
  <2>0. RowsTypeOK /\ RowsInv /\ RowsTypeOK'
    BY StepRowsType DEF IInv
  <2>1. ASSUME NEW k \in PubKey, NEW n \in NetworkID, NEW p \in Position \cup {NoPos},
               Observe(k, n, p)
        PROVE  Rows!Write
    <3>1. /\ up /\ nodes'[k] \in Row
          /\ \A j \in PubKey \ {k} : nodes'[j] = nodes[j]
          /\ dirty' = dirty \cup {k}
          /\ UNCHANGED <<up, nodeFlush, nodeBatch, nodesTable>>
      BY <2>1, ObserveRows
    <3>2. QED
      BY <2>0, <3>1, NoNodeAssumption DEF Rows!Write, Rows!Rows, RowsTypeOK, RowsInv
  <2>2. CASE ApplyFlags
    <3>1. PICK S \in SUBSET PubKey :
             /\ \A k \in S : nodes[k] # NoNode /\ nodes'[k] # NoNode
             /\ \A k \in PubKey \ S : nodes'[k] = nodes[k]
             /\ dirty' = dirty \cup S
             /\ UNCHANGED <<up, nodeFlush, nodeBatch, nodesTable>>
      BY <2>2, ApplyFlagsRows
    <3>2. CASE S = {}
      <4>1. nodes' = nodes
        BY <2>0, <3>1, <3>2 DEF RowsTypeOK
      <4>2. QED BY <3>1, <3>2, <4>1 DEF Rows!vars
    <3>3. CASE S # {}
      <4>1. up
        BY <2>0, <3>1, <3>3 DEF RowsInv, NoRows
      <4>2. QED
        BY <2>0, <3>1, <4>1 DEF Rows!Next, Rows!Write, Rows!Rows, RowsTypeOK, RowsInv
    <3>4. QED BY <3>2, <3>3 DEF Rows!Next
  <2>3. CASE TakeDirty
    BY <2>3 DEF TakeDirty, Rows!Next, Rows!TakeDirty, tables
  <2>4. CASE SaveNodes
    BY <2>4 DEF SaveNodes, Rows!Next, Rows!SaveCommits, memVars, NoRows, Rows!NoRows
  <2>5. CASE SaveNodesFails
    BY <2>5 DEF SaveNodesFails, Rows!Next, Rows!SaveFails, memVars, tables
  <2>6. CASE Requeue
    BY <2>6 DEF Requeue, Rows!Next, Rows!Requeue, tables, NoRows, Rows!NoRows
  <2>7. CASE Crash
    BY <2>7 DEF Crash, Rows!Next, Rows!Crash, tables, NoRows, Rows!NoRows
  <2>8. CASE Start
    BY <2>8 DEF Start, Rows!Next, Rows!Start, memVars, nodeLoop, tables
  <2>9. CASE StartWithoutNodes
    BY <2>0, <2>9 DEF StartWithoutNodes, Rows!Next, Rows!Start, memVars, nodeLoop, tables, RowsInv,
                      NoRows, Rows!NoRows
  <2>10. CASE AdvertLoop \/ Backfill \/ ScanFlags \/ UNCHANGED vars
    BY <2>10, OtherStepsKeepRows DEF rowState, Rows!vars
  <2>11. QED
    BY <2>1, <2>2, <2>3, <2>4, <2>5, <2>6, <2>7, <2>8, <2>9, <2>10
       DEF Next, NodeLoop, Flagger, Rows!Next
<1>3. QED BY Invariance, <1>1, <1>2, PTL DEF Spec, RowsAreWriteBehind, Rows!Spec
=============================================================================
