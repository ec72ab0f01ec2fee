---------------------------- MODULE IngestProofs ----------------------------
(***************************************************************************)
(* Proofs about the counters of the store, for every set of networks,      *)
(* analyzers, sources, packets and catalogs, every window, time to live    *)
(* and ring, and every bound: their inductive invariant, that a unique     *)
(* packet was also observed, that observers age out no later than nodes,   *)
(* that a packet is unique once per dedup window and that the slots of the *)
(* rate are exact. While no scope comes back, routed packets count into    *)
(* the store and durable totals advance.                                   *)
(***************************************************************************)
EXTENDS Ingest, SequenceTheorems, TLAPS

(***************************************************************************)
(* One counter: each of its operations leaves it consistent, if packets    *)
(* come in the order of their times.                                       *)
(***************************************************************************)

\* A second has a slot in the ring of the rate (metrics.go, rateWindow.add).
LEMMA SlotOfSecond == ASSUME NEW t \in Time PROVE t % RateSecs \in Slot
BY RateAssumption DEF Slot, Time

\* Advancing the ring leaves a ring (metrics.go, rateWindow.advance).
LEMMA AdvanceTyped ==
    ASSUME NEW r \in Rate, NEW t \in Time
    PROVE  advance(r, t) \in Rate
<1>1. CASE r.last = 0
  BY <1>1 DEF Rate, advance
<1>2. CASE r.last # 0 /\ t <= r.last
  BY <1>2 DEF Rate, advance
<1>3. CASE r.last # 0 /\ ~(t <= r.last)
  BY <1>3 DEF Rate, advance
<1>4. QED BY <1>1, <1>2, <1>3

\* Adding a packet to the ring leaves a ring (metrics.go, rateWindow.add).
LEMMA AddTyped ==
    ASSUME NEW r \in Rate, NEW t \in Time
    PROVE  add(r, t) \in Rate
<1> DEFINE a == advance(r, t)
           b == [a.buckets EXCEPT ![t % RateSecs] = @ + 1]
<1>1. a \in Rate
  BY AdvanceTyped
<1>2. b \in [Slot -> Nat]
  BY <1>1, SlotOfSecond DEF Rate
<1>3. add(r, t) = [buckets |-> b, last |-> a.last, first |-> IF a.first = 0 THEN t ELSE a.first]
  BY DEF add
<1> HIDE DEF a, b
<1>4. QED BY <1>1, <1>2, <1>3 DEF Rate

\* A new counter is consistent (metrics.go, newCounter).
LEMMA NewCounterOK ==
    ASSUME NEW t \in Time
    PROVE  CounterOK(newCounter, t)
<1>1. 0 \in Time /\ 0 <= t
  BY MaxTimeAssumption DEF Time
<1>2. newCounter \in CounterValue
  BY <1>1 DEF newCounter, CounterValue, Rate
<1>3. TotalsOK(newCounter) /\ DedupOK(newCounter)
  BY DEF newCounter, TotalsOK, DedupOK, ObsKey
<1>4. GaugesOK(newCounter) /\ SeenUpTo(newCounter, t)
  BY <1>1, ObserverAssumption DEF newCounter, GaugesOK, SeenUpTo, HeardUpTo
<1>5. QED BY <1>2, <1>3, <1>4 DEF CounterOK

\* A counter that heard up to a time heard up to any later time.
LEMMA LaterOK ==
    ASSUME NEW t \in Time, NEW u \in Time, t <= u
    PROVE  /\ \A c : CounterOK(c, t) => CounterOK(c, u)
           /\ \A v : StateOK(v, t) => StateOK(v, u)
BY DEF CounterOK, StateOK, SeenUpTo, HeardUpTo, CounterValue, State, Time

-----------------------------------------------------------------------------
\* Observe leaves a counter consistent (metrics.go, Counter.Observe): a hash
\* that is new is new for its observer, because no observation outlives the hash.
LEMMA ObservedOK ==
    ASSUME NEW c, NEW t \in Time, NEW ev \in Event, CounterOK(c, t), t <= ev.at
    PROVE  CounterOK(Observed(c, ev), ev.at)
<1> DEFINE key == <<ev.observer, ev.hash>>
           d == Observed(c, ev)
<1>1. /\ ev.hash \in Hash /\ ev.observer \in Observer \cup {NoObserver}
      /\ ev.nodes \in SUBSET Node /\ ev.type \in PayloadType \cup {NoType}
      /\ ev.at \in Time /\ key \in ObsKey
  BY DEF Event, ObsKey
<1>2. c \in CounterValue /\ TotalsOK(c) /\ DedupOK(c) /\ GaugesOK(c) /\ SeenUpTo(c, t)
  BY DEF CounterOK
<1>3. /\ c.observations \in Nat /\ c.unique \in Nat
      /\ c.types \in [PayloadType -> Nat]
      /\ c.seenHash \in [Hash -> Time] /\ c.seenObs \in [ObsKey -> Time]
      /\ c.observers \in [Observer -> Time] /\ c.nodes \in [Node -> Time]
      /\ c.rate \in Rate
  BY <1>2 DEF CounterValue
<1>4. /\ d.observations = IF c.seenObs[key] = 0 THEN c.observations + 1 ELSE c.observations
      /\ d.unique = IF c.seenHash[ev.hash] = 0 THEN c.unique + 1 ELSE c.unique
      /\ d.types = [p \in PayloadType |->
                      IF c.seenHash[ev.hash] = 0 /\ p = ev.type
                      THEN c.types[p] + 1 ELSE c.types[p]]
      /\ d.seenHash = [c.seenHash EXCEPT ![ev.hash] = ev.at]
      /\ d.seenObs = [c.seenObs EXCEPT ![key] = ev.at]
      /\ d.observers = [o \in Observer |-> IF o = ev.observer THEN ev.at ELSE c.observers[o]]
      /\ d.nodes = [n \in Node |-> IF n \in ev.nodes \cup ({ev.observer} \cap Observer)
                                  THEN ev.at ELSE c.nodes[n]]
  BY DEF Observed, Heard
<1>5. d \in CounterValue
  <2>1. (IF c.seenHash[ev.hash] = 0 THEN add(c.rate, ev.at) ELSE c.rate) \in Rate
    BY <1>1, <1>3, AddTyped
  <2>2. /\ d.observations \in Nat /\ d.unique \in Nat /\ d.types \in [PayloadType -> Nat]
    BY <1>3, <1>4
  <2>3. d.seenHash \in [Hash -> Time] /\ d.seenObs \in [ObsKey -> Time]
    BY <1>1, <1>3, <1>4
  <2>4. d.observers \in [Observer -> Time] /\ d.nodes \in [Node -> Time]
    BY <1>1, <1>3, <1>4
  <2>5. d = [observations |-> d.observations, unique |-> d.unique, types |-> d.types,
             lastPacket |-> ev.at, seenHash |-> d.seenHash, seenObs |-> d.seenObs,
             observers |-> d.observers, nodes |-> d.nodes,
             rate |-> IF c.seenHash[ev.hash] = 0 THEN add(c.rate, ev.at) ELSE c.rate]
    BY DEF Observed
  <2> HIDE DEF d
  <2>6. QED BY <1>1, <2>1, <2>2, <2>3, <2>4, <2>5 DEF CounterValue
<1> HIDE DEF d
<1>6. TotalsOK(d)
  <2>1. c.seenHash[ev.hash] = 0 => c.seenObs[key] = 0
    <3>1. key[2] = ev.hash
      OBVIOUS
    <3>2. c.seenObs[key] <= c.seenHash[ev.hash]
      BY <1>1, <1>2, <3>1 DEF DedupOK
    <3>3. QED BY <1>1, <1>3, <3>2 DEF Time
  <2>2. c.unique <= c.observations /\ \A p \in PayloadType : c.types[p] <= c.unique
    BY <1>2 DEF TotalsOK
  <2>3. d.unique <= d.observations
    BY <1>3, <1>4, <2>1, <2>2
  <2>4. \A p \in PayloadType : d.types[p] <= d.unique
    BY <1>3, <1>4, <2>2
  <2>5. QED BY <2>3, <2>4 DEF TotalsOK
<1>7. DedupOK(d)
  <2>1. ASSUME NEW h \in Hash
        PROVE  /\ \A k \in ObsKey : k[2] = h => d.seenObs[k] <= d.seenHash[h]
               /\ d.seenHash[h] # 0 =>
                    \E k \in ObsKey : k[2] = h /\ d.seenObs[k] = d.seenHash[h]
    <3>1. /\ \A k \in ObsKey : k[2] = h => c.seenObs[k] <= c.seenHash[h]
          /\ c.seenHash[h] # 0 =>
               \E k \in ObsKey : k[2] = h /\ c.seenObs[k] = c.seenHash[h]
      BY <1>2 DEF DedupOK
    <3>2. CASE h = ev.hash
      <4>1. d.seenHash[h] = ev.at /\ d.seenObs[key] = ev.at /\ key[2] = h
        BY <1>1, <1>3, <1>4, <3>2
      <4>2. c.seenHash[h] <= ev.at
        BY <1>1, <1>2, <1>3 DEF SeenUpTo, Time
      <4>3. ASSUME NEW k \in ObsKey, k[2] = h
            PROVE  d.seenObs[k] <= d.seenHash[h]
        <5>1. d.seenObs[k] \in {ev.at, c.seenObs[k]}
          BY <1>1, <1>3, <1>4
        <5>2. c.seenObs[k] <= c.seenHash[h] /\ c.seenObs[k] \in Nat /\ c.seenHash[h] \in Nat
              /\ ev.at \in Nat
          BY <1>1, <1>3, <3>1, <4>3 DEF Time
        <5>3. QED BY <4>1, <4>2, <5>1, <5>2
      <4>4. QED BY <1>1, <4>1, <4>3
    <3>3. CASE h # ev.hash
      <4>1. d.seenHash[h] = c.seenHash[h]
        BY <1>3, <1>4, <3>3
      <4>2. \A k \in ObsKey : k[2] = h => d.seenObs[k] = c.seenObs[k]
        BY <1>3, <1>4, <3>3
      <4>3. QED BY <3>1, <4>1, <4>2
    <3>4. QED BY <3>2, <3>3
  <2>2. QED BY <2>1 DEF DedupOK
<1>8. GaugesOK(d)
  <2>1. ASSUME NEW o \in Observer PROVE d.observers[o] <= d.nodes[o]
    <3>1. /\ o \in Node /\ c.observers[o] <= c.nodes[o] /\ c.observers[o] <= t
      BY <1>2, ObserverAssumption DEF GaugesOK, SeenUpTo, HeardUpTo
    <3>2. c.observers[o] \in Nat /\ c.nodes[o] \in Nat /\ t \in Nat /\ ev.at \in Nat
      BY <1>1, <1>3, <3>1 DEF Time
    <3>3. CASE o = ev.observer
      BY <1>4, <3>1, <3>2, <3>3
    <3>4. CASE o # ev.observer
      BY <1>4, <3>1, <3>2, <3>4
    <3>5. QED BY <3>3, <3>4
  <2>2. QED BY <2>1 DEF GaugesOK
<1>9. SeenUpTo(d, ev.at)
  <2>1. \A o \in Observer : d.observers[o] <= ev.at
    BY <1>1, <1>2, <1>3, <1>4 DEF SeenUpTo, HeardUpTo, Time
  <2>2. ASSUME NEW h \in Hash PROVE d.seenHash[h] <= ev.at
    <3>1. d.seenHash[h] \in {ev.at, c.seenHash[h]}
      BY <1>1, <1>3, <1>4
    <3>2. c.seenHash[h] <= t /\ c.seenHash[h] \in Nat /\ t \in Nat /\ ev.at \in Nat
      BY <1>1, <1>2, <1>3 DEF SeenUpTo, Time
    <3>3. QED BY <3>1, <3>2
  <2>3. QED BY <2>1, <2>2 DEF SeenUpTo, HeardUpTo
<1>10. QED BY <1>5, <1>6, <1>7, <1>8, <1>9 DEF CounterOK, d

-----------------------------------------------------------------------------
\* A pruned entry is absent or as it was, and the later of two entries survives
\* if the earlier one does (metrics.go, Counter.sweep).
LEMMA KeptOrders ==
    ASSUME NEW n \in Nat, NEW ttl \in Nat, NEW a \in Time, NEW b \in Time
    PROVE  /\ Kept(a, n, ttl) \in Time
           /\ Kept(a, n, ttl) <= a
           /\ a <= b => Kept(a, n, ttl) <= Kept(b, n, ttl)
BY MaxTimeAssumption DEF Kept, Time

\* The sweep leaves a counter consistent: the two dedup maps are pruned by one
\* cutoff, observers and nodes by another (metrics.go, Counter.sweep).
LEMMA SweptOK ==
    ASSUME NEW c, NEW t \in Time, NEW n \in Nat, NEW w \in Nat, NEW ttl \in Nat,
           CounterOK(c, t)
    PROVE  CounterOK(Swept(c, n, w, ttl), t)
<1> DEFINE d == Swept(c, n, w, ttl)
<1>1. c \in CounterValue /\ TotalsOK(c) /\ DedupOK(c) /\ GaugesOK(c) /\ SeenUpTo(c, t)
  BY DEF CounterOK
<1>2. /\ c.seenHash \in [Hash -> Time] /\ c.seenObs \in [ObsKey -> Time]
      /\ c.observers \in [Observer -> Time] /\ c.nodes \in [Node -> Time]
  BY <1>1 DEF CounterValue
<1>3. /\ d.observations = c.observations /\ d.unique = c.unique /\ d.types = c.types
      /\ d.seenHash = [h \in Hash |-> Kept(c.seenHash[h], n, w)]
      /\ d.seenObs = [k \in ObsKey |-> Kept(c.seenObs[k], n, w)]
      /\ d.observers = [o \in Observer |-> Kept(c.observers[o], n, ttl)]
      /\ d.nodes = [m \in Node |-> Kept(c.nodes[m], n, ttl)]
  BY <1>1 DEF Swept, CounterValue
<1>4. d \in CounterValue
  <2> DEFINE sh == [h \in Hash |-> Kept(c.seenHash[h], n, w)]
             so == [k \in ObsKey |-> Kept(c.seenObs[k], n, w)]
             ob == [o \in Observer |-> Kept(c.observers[o], n, ttl)]
             no == [m \in Node |-> Kept(c.nodes[m], n, ttl)]
  <2>1. /\ sh \in [Hash -> Time] /\ so \in [ObsKey -> Time]
        /\ ob \in [Observer -> Time] /\ no \in [Node -> Time]
    BY <1>2, KeptOrders
  <2>2. d = [c EXCEPT !.seenHash = sh, !.seenObs = so, !.observers = ob, !.nodes = no]
    BY DEF Swept
  <2> HIDE DEF d, sh, so, ob, no
  <2>3. QED BY <1>1, <2>1, <2>2 DEF CounterValue
<1> HIDE DEF d
<1>5. TotalsOK(d)
  BY <1>1, <1>3 DEF TotalsOK
<1>6. DedupOK(d)
  <2>1. ASSUME NEW h \in Hash
        PROVE  /\ \A k \in ObsKey : k[2] = h => d.seenObs[k] <= d.seenHash[h]
               /\ d.seenHash[h] # 0 =>
                    \E k \in ObsKey : k[2] = h /\ d.seenObs[k] = d.seenHash[h]
    <3>1. ASSUME NEW k \in ObsKey, k[2] = h
          PROVE  d.seenObs[k] <= d.seenHash[h]
      <4>1. c.seenObs[k] <= c.seenHash[h] /\ c.seenObs[k] \in Time /\ c.seenHash[h] \in Time
        BY <1>1, <1>2, <3>1 DEF DedupOK
      <4>2. QED BY <1>3, <4>1, KeptOrders
    <3>2. ASSUME d.seenHash[h] # 0
          PROVE  \E k \in ObsKey : k[2] = h /\ d.seenObs[k] = d.seenHash[h]
      <4>1. c.seenHash[h] # 0
        BY <1>3, <3>2 DEF Kept
      <4>2. PICK k \in ObsKey : k[2] = h /\ c.seenObs[k] = c.seenHash[h]
        BY <1>1, <4>1 DEF DedupOK
      <4>3. QED BY <1>3, <4>2
    <3>3. QED BY <3>1, <3>2
  <2>2. QED BY <2>1 DEF DedupOK
<1>7. GaugesOK(d)
  <2>1. ASSUME NEW o \in Observer PROVE d.observers[o] <= d.nodes[o]
    <3>1. o \in Node /\ c.observers[o] <= c.nodes[o]
          /\ c.observers[o] \in Time /\ c.nodes[o] \in Time
      BY <1>1, <1>2, ObserverAssumption DEF GaugesOK
    <3>2. QED BY <1>3, <3>1, KeptOrders
  <2>2. QED BY <2>1 DEF GaugesOK
<1>8. SeenUpTo(d, t)
  <2>1. ASSUME NEW o \in Observer PROVE d.observers[o] <= t
    <3>1. c.observers[o] \in Time /\ c.observers[o] <= t
      BY <1>1, <1>2 DEF SeenUpTo, HeardUpTo
    <3>2. Kept(c.observers[o], n, ttl) \in Time /\ Kept(c.observers[o], n, ttl) <= c.observers[o]
      BY <3>1, KeptOrders
    <3>3. QED BY <1>3, <3>1, <3>2 DEF Time
  <2>2. ASSUME NEW h \in Hash PROVE d.seenHash[h] <= t
    <3>1. c.seenHash[h] \in Time /\ c.seenHash[h] <= t
      BY <1>1, <1>2 DEF SeenUpTo
    <3>2. Kept(c.seenHash[h], n, w) \in Time /\ Kept(c.seenHash[h], n, w) <= c.seenHash[h]
      BY <3>1, KeptOrders
    <3>3. QED BY <1>3, <3>1, <3>2 DEF Time
  <2>3. QED BY <2>1, <2>2 DEF SeenUpTo, HeardUpTo
<1>9. QED BY <1>4, <1>5, <1>6, <1>7, <1>8 DEF CounterOK, d

\* Reading the statistics advances the rate only (metrics.go, Counter.Snapshot).
LEMMA SnapshottedOK ==
    ASSUME NEW c, NEW t \in Time, NEW n \in Time, CounterOK(c, t)
    PROVE  CounterOK(Snapshotted(c, n), t)
<1> DEFINE d == Snapshotted(c, n)
<1>1. c \in CounterValue /\ TotalsOK(c) /\ DedupOK(c) /\ GaugesOK(c) /\ SeenUpTo(c, t)
  BY DEF CounterOK
<1>2. d = [c EXCEPT !.rate = advance(c.rate, n)] /\ advance(c.rate, n) \in Rate
  BY <1>1, AdvanceTyped DEF Snapshotted, CounterValue
<1> HIDE DEF d
<1>3. d \in CounterValue
  BY <1>1, <1>2 DEF CounterValue
<1>4. /\ d.observations = c.observations /\ d.unique = c.unique /\ d.types = c.types
      /\ d.seenHash = c.seenHash /\ d.seenObs = c.seenObs
      /\ d.observers = c.observers /\ d.nodes = c.nodes
  BY <1>1, <1>2 DEF CounterValue
<1>5. TotalsOK(d) /\ DedupOK(d) /\ GaugesOK(d) /\ SeenUpTo(d, t)
  BY <1>1, <1>4 DEF TotalsOK, DedupOK, GaugesOK, SeenUpTo, HeardUpTo
<1>6. QED BY <1>3, <1>5 DEF CounterOK, d

-----------------------------------------------------------------------------
\* What is exported of a counter is consistent (metrics.go, Counter.Export).
LEMMA ExportedOK ==
    ASSUME NEW c, NEW t \in Time, CounterOK(c, t)
    PROVE  StateOK(Exported(c), t)
BY DEF CounterOK, StateOK, Exported, CounterValue, State, TotalsOK, GaugesOK, SeenUpTo, HeardUpTo

\* A counter restored from a consistent state is consistent, with empty dedup
\* maps (metrics.go, Counter.Restore).
LEMMA RestoredOK ==
    ASSUME NEW st, NEW t \in Time, StateOK(st, t)
    PROVE  /\ CounterOK(Restored(newCounter, st), t)
           /\ Restored(newCounter, st).seenHash = newCounter.seenHash
<1> DEFINE d == Restored(newCounter, st)
<1>1. /\ st.observations \in Nat /\ st.unique \in Nat /\ st.types \in [PayloadType -> Nat]
      /\ st.lastPacket \in Time /\ st.observers \in [Observer -> Time]
      /\ st.nodes \in [Node -> Time]
      /\ TotalsOK(st) /\ GaugesOK(st) /\ HeardUpTo(st, t)
  BY DEF StateOK, State
<1>2. newCounter \in CounterValue /\ DedupOK(newCounter) /\ SeenUpTo(newCounter, t)
  BY NewCounterOK DEF CounterOK
<1>3. /\ d.observations = st.observations /\ d.unique = st.unique /\ d.types = st.types
      /\ d.seenHash = newCounter.seenHash /\ d.seenObs = newCounter.seenObs
  BY DEF Restored, newCounter
<1>4. /\ \A o \in Observer : d.observers[o] = st.observers[o]
      /\ \A n \in Node : d.nodes[n] = st.nodes[n]
      /\ d.observers \in [Observer -> Time] /\ d.nodes \in [Node -> Time]
  BY <1>1 DEF Restored, newCounter
<1>5. d \in CounterValue
  <2> DEFINE z  == newCounter
             lp == IF st.lastPacket > z.lastPacket THEN st.lastPacket ELSE z.lastPacket
             ob == [o \in Observer |-> IF z.observers[o] = 0 THEN st.observers[o] ELSE z.observers[o]]
             no == [n \in Node |-> IF st.nodes[n] # 0 THEN st.nodes[n] ELSE z.nodes[n]]
  <2>1. z \in CounterValue /\ z.lastPacket \in Time /\ z.observers \in [Observer -> Time]
        /\ z.nodes \in [Node -> Time]
    BY <1>2 DEF CounterValue
  <2>2. lp \in Time /\ ob \in [Observer -> Time] /\ no \in [Node -> Time]
    BY <1>1, <2>1
  <2>3. d = [z EXCEPT !.observations = st.observations, !.unique = st.unique,
                      !.types = st.types, !.lastPacket = lp, !.observers = ob, !.nodes = no]
    BY DEF Restored
  <2> HIDE DEF d, z, lp, ob, no
  <2>4. QED BY <1>1, <2>1, <2>2, <2>3 DEF CounterValue
<1> HIDE DEF d
<1>6. TotalsOK(d) /\ DedupOK(d)
  BY <1>1, <1>2, <1>3 DEF TotalsOK, DedupOK
<1>7. GaugesOK(d) /\ SeenUpTo(d, t)
  BY <1>1, <1>2, <1>3, <1>4, ObserverAssumption DEF GaugesOK, SeenUpTo, HeardUpTo
<1>8. QED BY <1>3, <1>5, <1>6, <1>7 DEF CounterOK, d

-----------------------------------------------------------------------------
(***************************************************************************)
(* The ring of the packet rate.                                            *)
(***************************************************************************)

\* A second is a number of turns of the ring and a slot in it.
LEMMA TurnOfSecond ==
    ASSUME NEW n \in Nat \ {0}, NEW t \in Nat
    PROVE  t \div n \in Int /\ t % n \in 0..(n - 1) /\ t = (n * (t \div n)) + (t % n)
OBVIOUS

\* One more turn is at least as long as the ring.
LEMMA TurnsApart ==
    ASSUME NEW n \in Nat \ {0}, NEW p \in Int, NEW q \in Int, p < q
    PROVE  (n * q) - (n * p) >= n
<1>1. n * q >= n * (p + 1)
  <2>1. q >= p + 1
    OBVIOUS
  <2>2. QED BY <2>1
<1>2. n * (p + 1) = (n * p) + n
  OBVIOUS
<1>3. QED BY <1>1, <1>2

\* Two seconds less than a turn apart have slots of their own (metrics.go,
\* rateWindow).
LEMMA SlotsApart ==
    ASSUME NEW n \in Nat \ {0}, NEW a \in Nat, NEW b \in Nat, a < b, b - a < n
    PROVE  a % n # b % n
<1> SUFFICES ASSUME a % n = b % n PROVE FALSE
  OBVIOUS
<1> DEFINE p == a \div n
           q == b \div n
<1>1. /\ p \in Int /\ q \in Int /\ a % n \in Int
      /\ a = (n * p) + (a % n) /\ b = (n * q) + (b % n)
  BY TurnOfSecond
<1> HIDE DEF p, q
<1>2. n * p \in Int /\ n * q \in Int /\ b - a = (n * q) - (n * p)
  BY <1>1
<1>3. CASE p < q
  BY <1>1, <1>2, <1>3, TurnsApart
<1>4. CASE q <= p
  <2>1. p = q \/ (n * p) - (n * q) >= n
    BY <1>1, <1>4, TurnsApart
  <2>2. QED BY <1>2, <2>1
<1>5. QED BY <1>1, <1>3, <1>4

\* Advancing the ring to a time that has come keeps it exact: a slot it clears
\* is one of a second with nothing counted, and the slots of the seconds it
\* keeps stay (metrics.go, rateWindow.advance).
LEMMA AdvancedOK ==
    ASSUME NEW r \in Rate, NEW u \in [Time -> Nat], NEW n \in Time, NEW t \in Time \ {0},
           t <= n, RateOK(r, u, n)
    PROVE  LET a == advance(r, t) IN
           /\ a \in Rate /\ RateOK(a, u, n)
           /\ t <= a.last /\ (r.last <= t => a.last = t) /\ (t < r.last => a = r)
<1> DEFINE a == advance(r, t)
<1>1. a \in Rate
  BY AdvanceTyped
<1>2. /\ r.last \in Nat /\ n \in Nat /\ t \in Nat /\ t # 0 /\ RateSecs \in Nat \ {0}
      /\ r.buckets \in [Slot -> Nat] /\ r.last <= n
  BY RateAssumption DEF Rate, Time, RateOK
<1>3. /\ r.last = 0 => \A s \in Slot : r.buckets[s] = 0
      /\ \A x \in Time \ {0} :
            /\ x <= r.last /\ r.last - x < RateSecs => r.buckets[x % RateSecs] = u[x]
            /\ r.last < x => u[x] = 0
  BY DEF RateOK
<1>4. CASE r.last = 0
  <2>1. a.last = t /\ a.buckets = r.buckets
    BY <1>4 DEF advance, Rate
  <2> HIDE DEF a
  <2>2. ASSUME NEW x \in Time \ {0}
        PROVE  a.buckets[x % RateSecs] = u[x] /\ u[x] = 0
    <3>1. x \in Nat /\ x # 0 /\ x % RateSecs \in Slot
      BY SlotOfSecond DEF Time
    <3>2. QED BY <1>2, <1>3, <1>4, <2>1, <3>1
  <2>3. RateOK(a, u, n)
    BY <1>2, <2>1, <2>2 DEF RateOK
  <2>4. QED BY <1>1, <1>2, <1>4, <2>1, <2>3 DEF a
<1>5. CASE r.last # 0 /\ t <= r.last
  BY <1>1, <1>2, <1>5 DEF advance
<1>6. CASE r.last # 0 /\ ~(t <= r.last)
  <2>1. /\ a.last = t
        /\ a.buckets = [s \in Slot |->
                          IF \/ t - r.last >= RateSecs
                             \/ \E x \in (r.last + 1)..t : x % RateSecs = s
                          THEN 0 ELSE r.buckets[s]]
    BY <1>2, <1>6 DEF advance, Rate
  <2> HIDE DEF a
  <2>2. ASSUME NEW x \in Time \ {0}, x <= t, t - x < RateSecs
        PROVE  a.buckets[x % RateSecs] = u[x]
    <3>1. x \in Nat /\ x # 0 /\ x % RateSecs \in Slot
      BY SlotOfSecond DEF Time
    <3>2. CASE r.last < x
      <4>1. x \in (r.last + 1)..t
        BY <1>2, <2>2, <3>1, <3>2
      <4>2. a.buckets[x % RateSecs] = 0
        BY <2>1, <3>1, <4>1
      <4>3. QED BY <1>3, <3>2, <4>2
    <3>3. CASE x <= r.last
      <4>1. ~(t - r.last >= RateSecs)
        BY <1>2, <2>2, <3>1, <3>3
      <4>2. ASSUME NEW y \in (r.last + 1)..t PROVE y % RateSecs # x % RateSecs
        <5>1. y \in Nat /\ x < y /\ y - x < RateSecs
          BY <1>2, <2>2, <3>1, <3>3
        <5>2. QED BY <1>2, <3>1, <5>1, SlotsApart
      <4>3. a.buckets[x % RateSecs] = r.buckets[x % RateSecs]
        BY <2>1, <3>1, <4>1, <4>2
      <4>4. r.last - x < RateSecs
        BY <1>2, <1>6, <2>2, <3>1, <3>3
      <4>5. QED BY <1>3, <3>3, <4>3, <4>4
    <3>4. QED BY <1>2, <3>1, <3>2, <3>3
  <2>3. \A x \in Time \ {0} : t < x => u[x] = 0
    <3>1. ASSUME NEW x \in Time \ {0}, t < x PROVE r.last < x
      BY <1>2, <1>6, <3>1 DEF Time
    <3>2. QED BY <1>3, <3>1
  <2>4. RateOK(a, u, n)
    BY <1>2, <2>1, <2>2, <2>3 DEF RateOK
  <2>5. QED BY <1>1, <1>2, <1>6, <2>1, <2>4 DEF a
<1>7. QED BY <1>4, <1>5, <1>6

\* A packet is added to the slot of its second, which no other second of the
\* window has, if that second has not left the window (metrics.go,
\* rateWindow.add).
LEMMA AddedOK ==
    ASSUME NEW r \in Rate, NEW u \in [Time -> Nat], NEW n \in Time, NEW t \in Time \ {0},
           t <= n, n - t < RateSecs, RateOK(r, u, n)
    PROVE  RateOK(add(r, t), [u EXCEPT ![t] = @ + 1], n)
<1> DEFINE a == advance(r, t)
           b == add(r, t)
           v == [u EXCEPT ![t] = @ + 1]
<1>1. a \in Rate /\ RateOK(a, u, n) /\ t <= a.last
  BY AdvancedOK
<1>2. b.last = a.last /\ b.buckets = [a.buckets EXCEPT ![t % RateSecs] = @ + 1]
  BY DEF add
<1> HIDE DEF a, b
<1>3. /\ a.last \in Nat /\ a.buckets \in [Slot -> Nat] /\ a.last <= n
      /\ n \in Nat /\ t \in Nat /\ t # 0 /\ t % RateSecs \in Slot /\ RateSecs \in Nat \ {0}
  BY <1>1, SlotOfSecond, RateAssumption DEF Rate, Time, RateOK
<1>4. \A x \in Time \ {0} :
         /\ x <= a.last /\ a.last - x < RateSecs => a.buckets[x % RateSecs] = u[x]
         /\ a.last < x => u[x] = 0
  BY <1>1 DEF RateOK
<1>5. ASSUME NEW x \in Time \ {0}, x <= a.last, a.last - x < RateSecs
      PROVE  b.buckets[x % RateSecs] = v[x]
  <2>1. x \in Nat /\ x % RateSecs \in Slot /\ a.buckets[x % RateSecs] = u[x] /\ u[x] \in Nat
    BY <1>4, <1>5, SlotOfSecond DEF Time
  <2>2. CASE x = t
    BY <1>2, <1>3, <2>1, <2>2
  <2>3. CASE x # t
    <3>1. x % RateSecs # t % RateSecs
      <4>1. CASE x < t
        <5>1. t - x < RateSecs
          BY <1>1, <1>3, <1>5, <2>1
        <5>2. QED BY <1>3, <2>1, <4>1, <5>1, SlotsApart
      <4>2. CASE t < x
        <5>1. x - t < RateSecs
          BY <1>3, <1>5, <2>1
        <5>2. QED BY <1>3, <2>1, <4>2, <5>1, SlotsApart
      <4>3. QED BY <1>3, <2>1, <2>3, <4>1, <4>2
    <3>2. b.buckets[x % RateSecs] = a.buckets[x % RateSecs]
      BY <1>2, <1>3, <2>1, <3>1
    <3>3. v[x] = u[x]
      BY <2>3
    <3>4. QED BY <2>1, <3>2, <3>3
  <2>4. QED BY <2>2, <2>3
<1>6. ASSUME NEW x \in Time \ {0}, a.last < x
      PROVE  v[x] = 0
  <2>1. x \in Nat /\ u[x] = 0 /\ x # t
    BY <1>1, <1>3, <1>4, <1>6 DEF Time
  <2>2. QED BY <2>1
<1>7. b.last # 0 /\ b.last <= n
  BY <1>1, <1>2, <1>3
<1>8. RateOK(b, v, n)
  BY <1>2, <1>5, <1>6, <1>7 DEF RateOK
<1>9. QED BY <1>8 DEF b

-----------------------------------------------------------------------------
(***************************************************************************)
(* The counters of the store.                                              *)
(***************************************************************************)

\* What counters and saved rows are made of.
coreVars == <<up, now, counters, heardAt, sweepAt, batch, table, packet>>

\* The horizon is a time that has come (collector.go, handle).
LEMMA HorizonTyped ==
    ASSUME ClocksInv
    PROVE  Horizon \in Time /\ Horizon <= now /\ now \in Time
BY DEF ClocksInv, Horizon, Event, Time

\* Saved rows stay consistent as the horizon moves on.
LEMMA SavedLater ==
    ASSUME NEW m, NEW t \in Time, NEW u \in Time, t <= u, SavedOK(m, t)
    PROVE  SavedOK(m, u)
BY LaterOK DEF SavedOK

\* No rows are consistent.
LEMMA NoStatesOK == \A t \in Time : SavedOK(NoStates, t)
BY DEF SavedOK, NoStates

-----------------------------------------------------------------------------
\* The initial state, before the first start of the process.
LEMMA InitCore == Init => CoreInv
<1> SUFFICES ASSUME Init PROVE CoreInv
  OBVIOUS
<1>1. ClocksInv
  BY MaxTimeAssumption DEF Init, StoreInit, ClocksInv, Time
<1>2. DownInv
  <2>1. "reader" \in Fetcher
    BY DEF Fetcher
  <2>2. QED BY <2>1 DEF Init, StoreInit, DownInv
<1>3. CountersInv
  <2>1. CounterOK(newCounter, Horizon) /\ newCounter \in CounterValue
    BY <1>1, HorizonTyped, NewCounterOK DEF CounterOK
  <2>2. counters = [c \in CounterId |-> newCounter]
    BY DEF Init, StoreInit, NewCounters
  <2>3. QED BY <2>1, <2>2 DEF CountersInv
<1>4. SavedInv
  BY <1>1, HorizonTyped, NoStatesOK DEF Init, StoreInit, SavedInv
<1>5. EntriesInv
  BY MaxTimeAssumption
     DEF Init, StoreInit, EntriesInv, NewCounters, newCounter, NeverHeard, Time
<1>6. QED BY <1>1, <1>2, <1>3, <1>4, <1>5 DEF CoreInv

\* Steps that leave counters, rows, clocks and the packet alone keep what the
\* invariant says of them.
LEMMA Carried ==
    ASSUME ClocksInv, CountersInv, SavedInv, EntriesInv, UNCHANGED coreVars
    PROVE  ClocksInv' /\ CountersInv' /\ SavedInv' /\ EntriesInv'
<1>1. Horizon' = Horizon
  BY DEF coreVars, Horizon
<1>2. ClocksInv' /\ EntriesInv'
  BY DEF coreVars, ClocksInv, EntriesInv
<1>3. CountersInv'
  BY <1>1 DEF coreVars, CountersInv
<1>4. SavedInv'
  BY <1>1 DEF coreVars, SavedInv
<1>5. QED BY <1>2, <1>3, <1>4

\* The reader's connection and the refresh of routes (tangleveil.go) do not touch
\* the counters.
LEMMA ReaderSteps ==
    ASSUME CoreInv,
           \/ Connection
           \/ \E who \in Fetcher : Fetch(who)
           \/ \E c \in Catalog : UpdateNetworks(c)
    PROVE  CoreInv'
<1>1. UNCHANGED coreVars
  <2>1. CASE Connection
    BY <2>1 DEF Connection, Dial, DialFails, MarkAnalyzer, ReadFails, ConnectFailed, coreVars,
                storeVars, catalogVars, countVars, sweepVars, flushVars
  <2>2. CASE \E who \in Fetcher : Fetch(who)
    BY <2>2 DEF Fetch, FetchRoutes, FetchFails, ResolveSource, RefreshRoutes, coreVars,
                storeVars, catalogVars, countVars, sweepVars, flushVars
  <2>3. CASE \E c \in Catalog : UpdateNetworks(c)
    BY <2>3 DEF UpdateNetworks, Update, coreVars, countVars, sweepVars, flushVars
  <2>4. QED BY <2>1, <2>2, <2>3
<1>2. DownInv'
  <2> USE DEF CoreInv, DownInv, Fetcher
  <2>0. UNCHANGED <<up, packet, heardAt>>
    BY <1>1 DEF coreVars
  <2>1. CASE Connection
    <3>1. CASE \E o \in AzObject : MarkAnalyzer(o)
      BY <2>0, <3>1 DEF MarkAnalyzer
    <3>2. CASE Dial \/ DialFails \/ ReadFails \/ ConnectFailed
      BY <2>0, <3>2 DEF Dial, DialFails, ReadFails, ConnectFailed
    <3>3. QED BY <2>1, <3>1, <3>2 DEF Connection
  <2>2. ASSUME NEW who \in Fetcher, Fetch(who) PROVE DownInv'
    BY <2>0, <2>2 DEF Fetch, FetchRoutes, FetchFails, ResolveSource, RefreshRoutes, MayFetch,
                      AfterFetch
  <2>3. CASE \E c \in Catalog : UpdateNetworks(c)
    BY <2>0, <2>3 DEF UpdateNetworks
  <2>4. QED BY <2>1, <2>2, <2>3
<1>3. QED BY <1>1, <1>2, Carried DEF CoreInv

-----------------------------------------------------------------------------
\* Counters and rows stay consistent when the horizon moves on.
LEMMA MovedOn ==
    ASSUME CountersInv, SavedInv, Horizon \in Time, Horizon' \in Time, Horizon <= Horizon',
           UNCHANGED <<counters, batch, table>>
    PROVE  CountersInv' /\ SavedInv'
<1>1. \A id \in CounterId : CounterOK(counters[id], Horizon')
  BY LaterOK DEF CountersInv
<1>2. SavedOK(batch, Horizon') /\ SavedOK(table, Horizon')
  BY SavedLater DEF SavedInv
<1>3. QED BY <1>1, <1>2 DEF CountersInv, SavedInv

\* Time passes (nowUnix): entries only get older.
LEMMA TickStep ==
    ASSUME CoreInv, Tick
    PROVE  CoreInv'
<1>1. now' = now + 1 /\ now < MaxTime /\ UNCHANGED <<up, counters, heardAt, sweepAt, batch, table>>
      /\ UNCHANGED <<packet, phase>>
  BY DEF Tick, readerVars, countVars, sweepVars, flushVars
<1>2. ClocksInv /\ ClocksInv'
  BY <1>1, MaxTimeAssumption DEF CoreInv, ClocksInv, Time, Event
<1>3. Horizon \in Time /\ Horizon' \in Time /\ Horizon <= Horizon'
  BY <1>1, <1>2 DEF ClocksInv, Horizon, Event, Time
<1>4. CountersInv' /\ SavedInv'
  BY <1>1, <1>3, MovedOn DEF CoreInv
<1>5. EntriesInv'
  <2>1. ASSUME NEW id \in CounterId, NEW h \in Hash, now - heardAt[id][h] > DedupWindow
        PROVE  now' - heardAt[id][h] > DedupWindow
    BY <1>1, <1>2, <2>1, WindowAssumption DEF CoreInv, EntriesInv, ClocksInv, Time
  <2>2. QED BY <1>1, <2>1 DEF CoreInv, EntriesInv
<1>6. DownInv'
  BY <1>1 DEF CoreInv, DownInv
<1>7. QED BY <1>2, <1>4, <1>5, <1>6 DEF CoreInv

\* A packet is read with the time it is (tangleveil.go and collector.go, handle).
LEMMA ReadStep ==
    ASSUME CoreInv, NEW s \in Source, NEW p \in Packet, ReadPacket(s, p)
    PROVE  CoreInv'
<1>1. /\ packet = NoPacket /\ packet'.ev.at = now
      /\ packet'.ev = [hash |-> p.hash, observer |-> p.observer, nodes |-> p.nodes,
                       type |-> p.type, at |-> now]
      /\ phase["reader"] = "connected"
      /\ UNCHANGED <<up, now, counters, heardAt, sweepAt, batch, table, phase>>
  BY DEF ReadPacket, storeVars, countVars, sweepVars, flushVars
<1>2. ClocksInv /\ packet'.ev \in Event
  BY <1>1, PacketAssumption DEF CoreInv, ClocksInv, Event
<1>3. ClocksInv'
  BY <1>1, <1>2 DEF ClocksInv, Time
<1>4. Horizon' = Horizon /\ Horizon \in Time
  BY <1>1, <1>2, HorizonTyped DEF Horizon
<1>5. CountersInv' /\ SavedInv'
  BY <1>1, <1>4, MovedOn, HorizonTyped, <1>2 DEF CoreInv, Time
<1>6. EntriesInv'
  BY <1>1 DEF CoreInv, EntriesInv
<1>7. DownInv'
  BY <1>1 DEF CoreInv, DownInv
<1>8. QED BY <1>3, <1>5, <1>6, <1>7 DEF CoreInv

\* A packet is counted by one counter (store.go, NetworkState.Observe).
LEMMA ObserveStep ==
    ASSUME CoreInv, ObservePacket
    PROVE  CoreInv'
<1> DEFINE id == packet.route[packet.next]
           ev == packet.ev
<1>1. /\ packet # NoPacket
      /\ counters' = [counters EXCEPT ![id] = Observed(@, ev)]
      /\ heardAt' = [heardAt EXCEPT ![id][ev.hash] = ev.at]
      /\ packet' = NoPacket \/ packet'.ev = ev
      /\ UNCHANGED <<up, now, sweepAt, batch, table, phase>>
  BY DEF ObservePacket, ObserveIn, sweepVars, flushVars
<1>2. ClocksInv /\ ev \in Event /\ ev.at <= now /\ ev.at \in Time /\ Horizon = ev.at
  BY <1>1, HorizonTyped DEF CoreInv, ClocksInv, Horizon, Event
<1>3. ClocksInv'
  BY <1>1, <1>2 DEF ClocksInv
<1>4. Horizon' \in Time /\ Horizon <= Horizon'
  BY <1>1, <1>2 DEF Horizon, Time, ClocksInv
<1> HIDE DEF id, ev
<1>5. CountersInv'
  <2>1. counters \in [CounterId -> CounterValue]
        /\ \A i \in CounterId : CounterOK(counters[i], Horizon)
    BY DEF CoreInv, CountersInv
  <2>2. ASSUME NEW i \in CounterId PROVE CounterOK(Observed(counters[i], ev), Horizon')
    <3>1. CounterOK(Observed(counters[i], ev), ev.at)
      BY <1>2, <2>1, ObservedOK, HorizonTyped DEF Time
    <3>2. QED BY <1>2, <1>4, <3>1, LaterOK
  <2>3. ASSUME NEW i \in CounterId PROVE CounterOK(counters'[i], Horizon')
    <3>1. CounterOK(counters[i], Horizon')
      BY <1>2, <1>4, <2>1, LaterOK
    <3>2. counters'[i] = IF i = id THEN Observed(counters[i], ev) ELSE counters[i]
      BY <1>1, <2>1
    <3>3. QED BY <2>2, <3>1, <3>2
  <2>4. counters' \in [CounterId -> CounterValue]
    BY <1>1, <2>1, <2>2 DEF CounterOK
  <2>5. QED BY <2>3, <2>4 DEF CountersInv
<1>6. SavedInv'
  <2>1. SavedOK(batch, Horizon') /\ SavedOK(table, Horizon')
    BY <1>2, <1>4, SavedLater DEF CoreInv, SavedInv
  <2>2. QED BY <1>1, <2>1 DEF SavedInv
<1>7. EntriesInv'
  <2>1. ASSUME NEW i \in CounterId, NEW h \in Hash
        PROVE  \/ counters'[i].seenHash[h] = heardAt'[i][h]
               \/ counters'[i].seenHash[h] = 0 /\ now - heardAt'[i][h] > DedupWindow
    <3>1. counters[i] \in CounterValue /\ counters[i].seenHash \in [Hash -> Time]
      BY DEF CoreInv, CountersInv, CounterValue
    <3>2. Observed(counters[i], ev).seenHash = [counters[i].seenHash EXCEPT ![ev.hash] = ev.at]
      BY DEF Observed, Heard
    <3>3. counters'[i] = IF i = id THEN Observed(counters[i], ev) ELSE counters[i]
      BY <1>1 DEF CoreInv, CountersInv
    <3>4. heardAt'[i][h] = IF i = id /\ h = ev.hash THEN ev.at ELSE heardAt[i][h]
      BY <1>1 DEF CoreInv, EntriesInv
    <3>5. counters'[i].seenHash[h] = IF i = id /\ h = ev.hash THEN ev.at
                                     ELSE counters[i].seenHash[h]
      BY <3>1, <3>2, <3>3
    <3>6. QED BY <3>4, <3>5 DEF CoreInv, EntriesInv
  <2>2. heardAt' \in [CounterId -> [Hash -> Time]]
    BY <1>1, <1>2 DEF CoreInv, EntriesInv, Event
  <2>3. QED BY <1>1, <2>1, <2>2 DEF EntriesInv
<1>8. DownInv'
  BY <1>1 DEF CoreInv, DownInv
<1>9. QED BY <1>3, <1>5, <1>6, <1>7, <1>8 DEF CoreInv

-----------------------------------------------------------------------------
\* Changes of counters by no packet: entries stay or are dropped when they are
\* old (metrics.go).
LEMMA CountersStep ==
    ASSUME CoreInv,
           counters' \in [CounterId -> CounterValue],
           \A i \in CounterId : CounterOK(counters'[i], Horizon),
           \A i \in CounterId, h \in Hash :
              \/ counters'[i].seenHash[h] = counters[i].seenHash[h]
              \/ counters'[i].seenHash[h] = 0 /\ now - heardAt[i][h] > DedupWindow,
           UNCHANGED <<up, now, heardAt, sweepAt, batch, table, packet, phase>>
    PROVE  CoreInv'
<1>1. Horizon' = Horizon
  BY DEF Horizon
<1>2. CountersInv'
  BY <1>1 DEF CountersInv
<1>3. EntriesInv'
  BY DEF CoreInv, EntriesInv
<1>4. ClocksInv' /\ DownInv'
  BY DEF CoreInv, ClocksInv, DownInv
<1>5. SavedInv'
  BY <1>1 DEF CoreInv, SavedInv
<1>6. QED BY <1>2, <1>3, <1>4, <1>5 DEF CoreInv

\* A request for the statistics reads one counter (metrics.go, Snapshot).
LEMMA SnapshotStep ==
    ASSUME CoreInv, NEW id \in CounterId, Snapshot(id), UNCHANGED readerVars
    PROVE  CoreInv'
<1> DEFINE d == Snapshotted(counters[id], now)
<1>1. Horizon \in Time /\ now \in Time /\ CounterOK(counters[id], Horizon)
  BY HorizonTyped DEF CoreInv, CountersInv
<1>2. CounterOK(d, Horizon)
  BY <1>1, SnapshottedOK
<1>3. d.seenHash = counters[id].seenHash
  BY <1>1 DEF Snapshotted, CounterOK, CounterValue
<1>4. counters' = [counters EXCEPT ![id] = d]
      /\ UNCHANGED <<up, now, heardAt, sweepAt, batch, table, packet, phase>>
  BY DEF Snapshot, sweepVars, flushVars, readerVars
<1>5. \A h \in Hash : \/ d.seenHash[h] = counters[id].seenHash[h]
                      \/ d.seenHash[h] = 0 /\ now - heardAt[id][h] > DedupWindow
  BY <1>3
<1> HIDE DEF d
<1>6. counters \in [CounterId -> CounterValue]
      /\ \A i \in CounterId : CounterOK(counters[i], Horizon)
  BY DEF CoreInv, CountersInv
<1>7. \A i \in CounterId : counters'[i] = IF i = id THEN d ELSE counters[i]
  BY <1>4, <1>6
<1>8. counters' \in [CounterId -> CounterValue]
      /\ \A i \in CounterId : CounterOK(counters'[i], Horizon)
  BY <1>2, <1>4, <1>6, <1>7 DEF CounterOK
<1>9. \A i \in CounterId, h \in Hash :
         \/ counters'[i].seenHash[h] = counters[i].seenHash[h]
         \/ counters'[i].seenHash[h] = 0 /\ now - heardAt[i][h] > DedupWindow
  BY <1>5, <1>7
<1>10. QED BY <1>4, <1>8, <1>9, CountersStep

\* The sweep of one counter (store.go, sweep): an entry it drops was last heard
\* longer ago than the window, by the time the sweep began and by now.
LEMMA SweepStep ==
    ASSUME CoreInv, NEW id \in CounterId, SweepCounter(id), UNCHANGED readerVars
    PROVE  CoreInv'
<1> DEFINE c == counters[id]
           d == Swept(c, sweepAt, DedupWindow, ObserverTTL)
<1>1. /\ Horizon \in Time /\ now \in Nat /\ sweepAt \in Nat /\ sweepAt <= now
      /\ CounterOK(c, Horizon) /\ DedupWindow \in Nat /\ ObserverTTL \in Nat
  BY HorizonTyped, WindowAssumption DEF CoreInv, CountersInv, ClocksInv, Time
<1>2. CounterOK(d, Horizon)
  BY <1>1, SweptOK
<1>3. ASSUME NEW h \in Hash
      PROVE  \/ d.seenHash[h] = c.seenHash[h]
             \/ d.seenHash[h] = 0 /\ now - heardAt[id][h] > DedupWindow
  <2>1. c \in CounterValue /\ c.seenHash[h] \in Time
    BY <1>1 DEF CounterOK, CounterValue
  <2>2. d.seenHash[h] = Kept(c.seenHash[h], sweepAt, DedupWindow)
    BY <2>1 DEF Swept, CounterValue
  <2>3. \/ c.seenHash[h] = heardAt[id][h]
        \/ c.seenHash[h] = 0 /\ now - heardAt[id][h] > DedupWindow
    BY DEF CoreInv, EntriesInv
  <2> HIDE DEF c, d
  <2>4. CASE c.seenHash[h] # 0 /\ sweepAt - c.seenHash[h] > DedupWindow
    <3>1. c.seenHash[h] = heardAt[id][h] /\ d.seenHash[h] = 0
      BY <2>2, <2>3, <2>4 DEF Kept
    <3>2. now - c.seenHash[h] > DedupWindow
      BY <1>1, <2>1, <2>4 DEF Time
    <3>3. QED BY <3>1, <3>2
  <2>5. CASE ~(c.seenHash[h] # 0 /\ sweepAt - c.seenHash[h] > DedupWindow)
    BY <2>2, <2>5 DEF Kept
  <2>6. QED BY <2>4, <2>5
<1>4. counters' = [counters EXCEPT ![id] = d]
      /\ UNCHANGED <<up, now, heardAt, sweepAt, batch, table, packet, phase>>
  BY DEF SweepCounter, flushVars, readerVars
<1>5. \A h \in Hash : \/ d.seenHash[h] = counters[id].seenHash[h]
                      \/ d.seenHash[h] = 0 /\ now - heardAt[id][h] > DedupWindow
  BY <1>3
<1> HIDE DEF d
<1>6. counters \in [CounterId -> CounterValue]
      /\ \A i \in CounterId : CounterOK(counters[i], Horizon)
  BY DEF CoreInv, CountersInv
<1>7. \A i \in CounterId : counters'[i] = IF i = id THEN d ELSE counters[i]
  BY <1>4, <1>6
<1>8. counters' \in [CounterId -> CounterValue]
      /\ \A i \in CounterId : CounterOK(counters'[i], Horizon)
  BY <1>2, <1>4, <1>6, <1>7 DEF CounterOK
<1>9. \A i \in CounterId, h \in Hash :
         \/ counters'[i].seenHash[h] = counters[i].seenHash[h]
         \/ counters'[i].seenHash[h] = 0 /\ now - heardAt[i][h] > DedupWindow
  BY <1>5, <1>7
<1>10. QED BY <1>4, <1>8, <1>9, CountersStep

\* The sweep takes the time (main.go, sweep goroutine).
LEMMA SweepStartsStep ==
    ASSUME CoreInv, SweepStarts, UNCHANGED readerVars
    PROVE  CoreInv'
<1>1. sweepAt' = now
      /\ UNCHANGED <<up, now, counters, heardAt, batch, table, packet, phase>>
  BY DEF SweepStarts, countVars, flushVars, readerVars
<1>2. Horizon' = Horizon
  BY <1>1 DEF Horizon
<1>3. ClocksInv' /\ DownInv' /\ EntriesInv'
  BY <1>1 DEF CoreInv, ClocksInv, DownInv, EntriesInv, Time
<1>4. CountersInv' /\ SavedInv'
  BY <1>1, <1>2 DEF CoreInv, CountersInv, SavedInv
<1>5. QED BY <1>3, <1>4 DEF CoreInv

\* The counter flush copies consistent counters into the batch and the batch into
\* the table (store.go, Export; db.go, Save).
LEMMA FlushStep ==
    ASSUME CoreInv, Flush, UNCHANGED readerVars
    PROVE  CoreInv'
<1>1. UNCHANGED <<up, now, counters, heardAt, sweepAt, packet, phase>>
  BY DEF Flush, ExportStarts, ExportCounter, Save, SaveFails, countVars, sweepVars, readerVars
<1>2. Horizon' = Horizon /\ Horizon \in Time
  BY <1>1, HorizonTyped DEF Horizon, CoreInv
<1>3. SavedOK(batch, Horizon) /\ SavedOK(table, Horizon)
  BY DEF CoreInv, SavedInv
<1>4. SavedOK(batch', Horizon) /\ SavedOK(table', Horizon)
  <2>1. CASE ExportStarts
    BY <1>3, <2>1 DEF ExportStarts
  <2>2. ASSUME NEW id \in CounterId, ExportCounter(id)
        PROVE  SavedOK(batch', Horizon) /\ SavedOK(table', Horizon)
    <3>1. StateOK(Exported(counters[id]), Horizon)
      BY <1>2, ExportedOK DEF CoreInv, CountersInv
    <3>2. batch' = [batch EXCEPT ![id[2]] = Exported(counters[id])] /\ table' = table
      BY <2>2 DEF ExportCounter
    <3>3. Exported(counters[id]) \in State
      BY <3>1 DEF StateOK
    <3>4. QED BY <1>3, <3>1, <3>2, <3>3 DEF SavedOK
  <2>3. CASE Save
    <3>1. batch' = NoStates
          /\ table' = [s \in Scope |-> IF batch[s] = NoState THEN table[s] ELSE batch[s]]
      BY <2>3 DEF Save
    <3>2. SavedOK(batch', Horizon)
      BY <1>2, <3>1, NoStatesOK
    <3>3. SavedOK(table', Horizon)
      BY <1>3, <3>1 DEF SavedOK
    <3>4. QED BY <3>2, <3>3
  <2>4. CASE SaveFails
    BY <1>2, <1>3, <2>4, NoStatesOK DEF SaveFails
  <2>5. QED BY <2>1, <2>2, <2>3, <2>4 DEF Flush
<1>5. ClocksInv' /\ DownInv' /\ EntriesInv'
  BY <1>1 DEF CoreInv, ClocksInv, DownInv, EntriesInv
<1>6. CountersInv' /\ SavedInv'
  BY <1>1, <1>2, <1>4 DEF CoreInv, CountersInv, SavedInv
<1>7. QED BY <1>5, <1>6 DEF CoreInv

-----------------------------------------------------------------------------
\* The store starts from its saved rows, or from nothing (main.go).
LEMMA StartStep ==
    ASSUME CoreInv, NEW c, NEW answer, NEW saved \in SavedAtStart, Start(c, answer, saved)
    PROVE  CoreInv'
<1>1. /\ ~up /\ up' = TRUE
      /\ counters' = [id \in CounterId |->
                        IF id[1] = 0 /\ id[2] \in Scopes(c) /\ saved[id[2]] # NoState
                        THEN Restored(newCounter, saved[id[2]]) ELSE newCounter]
      /\ phase' = [phase EXCEPT !["reader"] = "dialing"]
      /\ UNCHANGED <<now, heardAt, sweepAt, batch, table, packet>>
  BY DEF Start, StoreStarts, sweepVars, flushVars
<1>2. heardAt = NeverHeard /\ Horizon' = Horizon /\ Horizon \in Time
  BY <1>1, HorizonTyped DEF CoreInv, DownInv, Horizon
<1>3. SavedOK(saved, Horizon)
  BY <1>2, NoStatesOK DEF SavedAtStart, CoreInv, SavedInv
<1>4. ASSUME NEW id \in CounterId
      PROVE  /\ CounterOK(counters'[id], Horizon)
             /\ counters'[id].seenHash = newCounter.seenHash
  <2>1. CASE id[1] = 0 /\ id[2] \in Scopes(c) /\ saved[id[2]] # NoState
    <3>1. id[2] \in Scope
      BY DEF CounterId
    <3>2. StateOK(saved[id[2]], Horizon)
      BY <1>3, <2>1, <3>1 DEF SavedOK
    <3>3. counters'[id] = Restored(newCounter, saved[id[2]])
      BY <1>1, <2>1
    <3>4. QED BY <1>2, <3>2, <3>3, RestoredOK
  <2>2. CASE ~(id[1] = 0 /\ id[2] \in Scopes(c) /\ saved[id[2]] # NoState)
    <3>1. counters'[id] = newCounter
      BY <1>1, <2>2
    <3>2. QED BY <1>2, <3>1, NewCounterOK
  <2>3. QED BY <2>1, <2>2
<1>5. CountersInv'
  <2>1. counters' \in [CounterId -> CounterValue]
    BY <1>1, <1>4 DEF CounterOK
  <2>2. QED BY <1>2, <1>4, <2>1 DEF CountersInv
<1>6. EntriesInv'
  <2>1. \A id \in CounterId, h \in Hash : counters'[id].seenHash[h] = heardAt[id][h]
    BY <1>2, <1>4 DEF NeverHeard, newCounter
  <2>2. QED BY <1>1, <2>1 DEF CoreInv, EntriesInv
<1>7. ClocksInv' /\ DownInv'
  BY <1>1 DEF CoreInv, ClocksInv, DownInv
<1>8. SavedInv'
  BY <1>1, <1>2 DEF CoreInv, SavedInv
<1>9. QED BY <1>5, <1>6, <1>7, <1>8 DEF CoreInv

\* A crash leaves the table only.
LEMMA CrashStep ==
    ASSUME CoreInv, Crash
    PROVE  CoreInv'
<1>1. /\ up' = FALSE /\ counters' = NewCounters /\ heardAt' = NeverHeard /\ sweepAt' = 0
      /\ batch' = NoStates /\ packet' = NoPacket /\ UNCHANGED <<now, table>>
      /\ phase' = [who \in Fetcher |-> IF who = "reader" THEN "off" ELSE "idle"]
  BY DEF Crash, StoreCrashes
<1>2. /\ Horizon' = now /\ now \in Time /\ Horizon \in Time /\ Horizon <= now
      /\ 0 \in Time
  BY <1>1, HorizonTyped, MaxTimeAssumption DEF CoreInv, Horizon, Time
<1>3. CountersInv'
  <2>1. CounterOK(newCounter, now) /\ newCounter \in CounterValue
    BY <1>2, NewCounterOK DEF CounterOK
  <2>2. counters' = [id \in CounterId |-> newCounter]
    BY <1>1 DEF NewCounters
  <2>3. QED BY <1>2, <2>1, <2>2 DEF CountersInv
<1>4. SavedInv'
  <2>1. SavedOK(table, now) /\ SavedOK(NoStates, now)
    BY <1>2, SavedLater, NoStatesOK DEF CoreInv, SavedInv
  <2>2. QED BY <1>1, <1>2, <2>1 DEF SavedInv
<1>5. EntriesInv'
  BY <1>1, <1>2 DEF EntriesInv, NewCounters, newCounter, NeverHeard
<1>6. ClocksInv'
  BY <1>1 DEF CoreInv, ClocksInv, Time
<1>7. DownInv'
  <2>1. "reader" \in Fetcher
    BY DEF Fetcher
  <2>2. QED BY <1>1, <2>1 DEF DownInv
<1>8. QED BY <1>3, <1>4, <1>5, <1>6, <1>7 DEF CoreInv

-----------------------------------------------------------------------------
\* Every step keeps the invariant.
LEMMA StepCore == CoreInv /\ [Next]_vars => CoreInv'
<1> SUFFICES ASSUME CoreInv, [Next]_vars PROVE CoreInv'
  OBVIOUS
<1>1. CASE Connection \/ (\E who \in Fetcher : Fetch(who)) \/ \E c \in Catalog : UpdateNetworks(c)
  BY <1>1, ReaderSteps
<1>2. CASE \E s \in Source, p \in Packet : ReadPacket(s, p)
  BY <1>2, ReadStep
<1>3. CASE ObservePacket
  BY <1>3, ObserveStep
<1>4. CASE Sweep /\ UNCHANGED readerVars
  BY <1>4, SweepStep, SweepStartsStep DEF Sweep
<1>5. CASE Flush /\ UNCHANGED readerVars
  BY <1>5, FlushStep
<1>6. CASE \E id \in CounterId : Snapshot(id) /\ UNCHANGED readerVars
  BY <1>6, SnapshotStep
<1>7. CASE \E c \in Catalog, answer \in Sources, saved \in SavedAtStart : Start(c, answer, saved)
  BY <1>7, StartStep
<1>8. CASE Crash
  BY <1>8, CrashStep
<1>9. CASE Tick
  BY <1>9, TickStep
<1>10. CASE UNCHANGED vars
  <2>1. UNCHANGED coreVars /\ UNCHANGED phase
    BY <1>10 DEF vars, storeVars, countVars, sweepVars, flushVars, readerVars, coreVars
  <2>2. DownInv'
    BY <2>1 DEF CoreInv, DownInv, coreVars
  <2>3. QED BY <2>1, <2>2, Carried DEF CoreInv
<1>11. QED
  BY <1>1, <1>2, <1>3, <1>4, <1>5, <1>6, <1>7, <1>8, <1>9, <1>10 DEF Next

\* Clocks, counters, saved rows and dedup entries are as the invariant says in
\* every reachable state (metrics.go, store.go).
LEMMA CoreInvariance == Spec => []CoreInv
BY InitCore, StepCore, PTL DEF Spec

\* In memory, under way and saved, a counter has no more unique packets than
\* observations (metrics.go, Counter.Observe, sweep, Export, Restore).
THEOREM UniquePacketsAreObserved == Spec => []UniqueAreObserved
<1>1. CoreInv => UniqueAreObserved
  BY DEF CoreInv, CountersInv, SavedInv, SavedOK, CounterOK, StateOK, UniqueAreObserved, Totals
<1>2. QED BY <1>1, CoreInvariance, PTL

\* The dedup maps of every counter agree (metrics.go, Counter.Observe, sweep).
THEOREM DedupMapsAgree == Spec => []DedupsAgree
<1>1. CoreInv => DedupsAgree
  BY DEF CoreInv, CountersInv, CounterOK, DedupsAgree
<1>2. QED BY <1>1, CoreInvariance, PTL

\* In memory, under way and saved, an observer is remembered no longer than as a
\* node (metrics.go, Counter.Observe, sweep, Export, Restore).
THEOREM ObserversStayNodes == Spec => []ObserversAreNodes
<1>1. CoreInv => ObserversAreNodes
  BY DEF CoreInv, CountersInv, SavedInv, SavedOK, CounterOK, StateOK, ObserversAreNodes, Totals
<1>2. QED BY <1>1, CoreInvariance, PTL
\* Only a packet makes the unique packets of a counter more, and only one whose
\* hash the counter has forgotten (metrics.go, Counter.Observe).
LEMMA UniqueStep ==
    ASSUME CoreInv, [Next]_vars, up, up',
           NEW i \in CounterId, counters'[i].unique > counters[i].unique
    PROVE  /\ packet.ev.hash \in Hash
           /\ counters[i].seenHash[packet.ev.hash] = 0
<1>1. /\ counters \in [CounterId -> CounterValue]
      /\ counters[i] \in CounterValue /\ counters[i].unique \in Nat
  BY DEF CoreInv, CountersInv, CounterValue
<1>2. CASE ObservePacket
  <2> DEFINE id == packet.route[packet.next]
             ev == packet.ev
  <2>1. counters' = [counters EXCEPT ![id] = Observed(@, ev)] /\ packet # NoPacket
    BY <1>2 DEF ObservePacket, ObserveIn
  <2>2. ev.hash \in Hash
    BY <2>1 DEF CoreInv, ClocksInv, Event
  <2> HIDE DEF id, ev
  <2>3. counters'[i] = IF i = id THEN Observed(counters[i], ev) ELSE counters[i]
    BY <1>1, <2>1
  <2>4. Observed(counters[i], ev).unique =
           IF counters[i].seenHash[ev.hash] = 0 THEN counters[i].unique + 1
                                                ELSE counters[i].unique
    BY DEF Observed
  <2>5. counters[i].seenHash[ev.hash] = 0
    BY <1>1, <2>3, <2>4
  <2>6. QED BY <2>2, <2>5 DEF ev
<1>3. CASE UNCHANGED counters
  BY <1>1, <1>3
<1>4. CASE \E id \in CounterId : Snapshot(id)
  <2>1. PICK id \in CounterId : Snapshot(id)
    BY <1>4
  <2>2. counters'[i] = IF i = id THEN Snapshotted(counters[i], now) ELSE counters[i]
    BY <1>1, <2>1 DEF Snapshot
  <2>3. Snapshotted(counters[i], now).unique = counters[i].unique
    BY <1>1 DEF Snapshotted, CounterValue
  <2>4. QED BY <1>1, <2>2, <2>3
<1>5. CASE \E id \in CounterId : SweepCounter(id)
  <2>1. PICK id \in CounterId : SweepCounter(id)
    BY <1>5
  <2>2. counters'[i] = IF i = id THEN Swept(counters[i], sweepAt, DedupWindow, ObserverTTL)
                                 ELSE counters[i]
    BY <1>1, <2>1 DEF SweepCounter
  <2>3. Swept(counters[i], sweepAt, DedupWindow, ObserverTTL).unique = counters[i].unique
    BY <1>1 DEF Swept, CounterValue
  <2>4. QED BY <1>1, <2>2, <2>3
<1>6. \/ ObservePacket
      \/ UNCHANGED counters
      \/ \E id \in CounterId : Snapshot(id)
      \/ \E id \in CounterId : SweepCounter(id)
  <2>1. CASE Connection \/ (\E who \in Fetcher : Fetch(who)) \/ \E c \in Catalog : UpdateNetworks(c)
    BY <2>1 DEF Connection, Dial, DialFails, MarkAnalyzer, ReadFails, ConnectFailed, Fetch,
                FetchRoutes, FetchFails, ResolveSource, RefreshRoutes, UpdateNetworks, Update,
                storeVars, countVars
  <2>2. CASE \E s \in Source, p \in Packet : ReadPacket(s, p)
    BY <2>2 DEF ReadPacket, storeVars, countVars
  <2>3. CASE ObservePacket \/ (\E id \in CounterId : Snapshot(id) /\ UNCHANGED readerVars)
    BY <2>3
  <2>4. CASE Sweep
    BY <2>4 DEF Sweep, SweepStarts, countVars
  <2>5. CASE Flush
    BY <2>5 DEF Flush, ExportStarts, ExportCounter, Save, SaveFails, countVars
  <2>6. CASE Tick \/ UNCHANGED vars
    BY <2>6 DEF Tick, vars, storeVars, countVars
  <2>7. ~(\E c \in Catalog, answer \in Sources, saved \in SavedAtStart : Start(c, answer, saved))
    BY DEF Start, StoreStarts
  <2>8. ~Crash
    BY DEF Crash, StoreCrashes
  <2>9. QED BY <2>1, <2>2, <2>3, <2>4, <2>5, <2>6, <2>7, <2>8 DEF Next
<1>7. QED BY <1>2, <1>3, <1>4, <1>5, <1>6

\* A hash is counted as unique again only after it was not heard for a dedup
\* window (metrics.go, Counter.Observe, sweep).
THEOREM UniqueOncePerWindow == Spec => PacketsCountOnce
<1> DEFINE A == \A id \in CounterId :
                  up /\ up' /\ counters'[id].unique > counters[id].unique
                     => LET last == heardAt[id][packet.ev.hash]
                        IN  last = 0 \/ now - last > DedupWindow
<1>1. CoreInv /\ [Next]_vars => [A]_vars
  <2> SUFFICES ASSUME CoreInv, [Next]_vars, up, up',
                      NEW id \in CounterId, counters'[id].unique > counters[id].unique
               PROVE  \/ heardAt[id][packet.ev.hash] = 0
                      \/ now - heardAt[id][packet.ev.hash] > DedupWindow
    OBVIOUS
  <2>1. packet.ev.hash \in Hash /\ counters[id].seenHash[packet.ev.hash] = 0
    BY UniqueStep
  <2>2. QED BY <2>1 DEF CoreInv, EntriesInv
<1>2. QED BY <1>1, CoreInvariance, PTL DEF Spec, PacketsCountOnce
-----------------------------------------------------------------------------
\* What a catalog is made of (networks.go).
LEMMA CatalogIs ==
    ASSUME NEW c \in Catalog
    PROVE  /\ \A i \in DOMAIN c :
                 /\ c[i].id \in NetworkID
                 /\ \A j \in DOMAIN c[i].analyzers : c[i].analyzers[j] \in Analyzer
           /\ \A i, j \in DOMAIN c : c[i].id = c[j].id => i = j
<1> DEFINE Net == [id : NetworkID, analyzers : Seq(Analyzer)]
<1>1. c \in Seq(Net)
  BY CatalogAssumption
<1>2. ASSUME NEW i \in DOMAIN c
      PROVE  /\ c[i].id \in NetworkID
             /\ \A j \in DOMAIN c[i].analyzers : c[i].analyzers[j] \in Analyzer
  <2>1. i \in 1..Len(c)
    BY <1>1, <1>2, LenProperties
  <2>2. c[i] \in Net
    BY <1>1, <2>1, ElementOfSeq
  <2>3. c[i].id \in NetworkID /\ c[i].analyzers \in Seq(Analyzer)
    BY <2>2
  <2>4. \A j \in DOMAIN c[i].analyzers : j \in 1..Len(c[i].analyzers)
    BY <2>3, LenProperties
  <2>5. QED BY <2>3, <2>4, ElementOfSeq
<1>3. \A i, j \in DOMAIN c : c[i].id = c[j].id => i = j
  BY CatalogAssumption, Zenon
<1>4. QED BY <1>2, <1>3

\* The scopes of a catalog are networks and analyzers of networks (store.go).
LEMMA ScopesAreScopes == ASSUME NEW c \in Catalog PROVE Scopes(c) \subseteq Scope
BY CatalogIs DEF Scopes, Scope, AzScope

\* A mapping resolves to counters of the catalog's scopes (tangleveil.go,
\* resolveMapping).
LEMMA ResolvedIs ==
    ASSUME NEW c \in Catalog, NEW m, Resolves(m, c), NEW g \in Gen,
           NEW b \in [Scope -> Gen \cup {NoGen}], \A s \in Scopes(c) : b[s] # NoGen
    PROVE  LET r == resolveMapping(m, c, g, b)
           IN  /\ r \in Route
               /\ b[r.az[2]] = r.az[1]
               /\ b[r.net[2]] = r.net[1]
<1> DEFINE at == CHOOSE i \in DOMAIN c : c[i].id = m[1]
           ns == c[at]
           az == <<m[1], ns.analyzers[m[2] + 1]>>
<1>1. PICK i \in DOMAIN c : c[i].id = m[1] /\ m[2] + 1 \in DOMAIN c[i].analyzers
  BY DEF Resolves
<1>2. at \in DOMAIN c /\ ns.id = m[1]
  BY <1>1
<1>3. at = i
  BY <1>1, <1>2, CatalogIs
<1>4. m[1] \in Scopes(c) /\ az \in Scopes(c)
  <2>1. \A k \in DOMAIN c : /\ c[k].id \in Scopes(c)
                             /\ \A j \in DOMAIN c[k].analyzers :
                                    <<c[k].id, c[k].analyzers[j]>> \in Scopes(c)
    BY DEF Scopes
  <2>2. m[2] + 1 \in DOMAIN ns.analyzers
    BY <1>1, <1>3
  <2>3. QED BY <1>2, <2>1, <2>2
<1>5. m[1] \in Scope /\ az \in Scope
  BY <1>4, ScopesAreScopes
<1>6. az \in AzScope
  BY <1>1, <1>2, <1>3, CatalogIs DEF AzScope
<1>7. b[az] \in Gen /\ b[m[1]] \in Gen
  <2>1. \A s \in Scopes(c) : s \in Scope /\ b[s] \in Gen
    BY ScopesAreScopes
  <2>2. QED BY <1>4, <2>1
<1>8. resolveMapping(m, c, g, b)
        = [object |-> <<g, az>>, az |-> <<b[az], az>>, net |-> <<b[m[1]], m[1]>>]
  BY DEF resolveMapping
<1>9. /\ <<g, az>> \in AzObject
      /\ <<b[az], az>> \in CounterId /\ <<b[m[1]], m[1]>> \in CounterId
  BY <1>5, <1>6, <1>7 DEF AzObject, CounterId
<1> HIDE DEF az, ns, at
<1>10. [object |-> <<g, az>>, az |-> <<b[az], az>>, net |-> <<b[m[1]], m[1]>>] \in Route
  BY <1>9 DEF Route
<1>11. QED BY <1>8, <1>10

\* What a partial function is.
LEMMA PartialIs ==
    ASSUME NEW S, NEW T, NEW f
    PROVE  f \in Partial(S, T) <=> \E D \in SUBSET S : f \in [D -> T]
BY DEF Partial

\* No routes are a partial function without a domain.
LEMMA NoRoutesIs ==
    ASSUME NEW T
    PROVE  DOMAIN NoRoutes = {} /\ \A S : NoRoutes \in Partial(S, T)
<1>1. NoRoutes \in Seq(T) /\ Len(NoRoutes) = 0
  BY EmptySeq DEF NoRoutes
<1>2. NoRoutes \in [1..0 -> T]
  BY <1>1, LenProperties
<1>3. 1..0 = {}
  OBVIOUS
<1>4. NoRoutes \in [{} -> T]
  BY <1>2, <1>3
<1>5. QED BY <1>4, PartialIs

Updating == \E c \in Catalog : UpdateNetworks(c)
Starting == \E c \in Catalog, answer \in Sources, saved \in SavedAtStart : Start(c, answer, saved)
Fetching == \E who \in Fetcher : Fetch(who)
ReadingPacket == \E s \in Source, p \in Packet : ReadPacket(s, p)

\* Which steps change what of the store (store.go, main.go).
LEMMA Untouched ==
    ASSUME [Next]_vars
    PROVE  /\ UNCHANGED catalogVars \/ Updating \/ Starting \/ Crash
           /\ UNCHANGED connected \/ Connection \/ Updating \/ Crash
           /\ UNCHANGED sweepTodo \/ Sweep \/ Crash
           /\ UNCHANGED <<flush, exportTodo>> \/ Flush \/ Crash
           /\ UNCHANGED uniqueAt \/ ObservePacket \/ Crash
           /\ UNCHANGED crashes \/ Crash
           /\ up' = up \/ Starting \/ Crash
           /\ \/ UNCHANGED readerVars
              \/ Connection \/ Fetching \/ Updating \/ ReadingPacket \/ ObservePacket
              \/ Starting \/ Crash
<1> USE DEF storeVars, catalogVars, countVars, sweepVars, flushVars
<1>1. CASE Connection
  BY <1>1 DEF Connection, Dial, DialFails, MarkAnalyzer, ReadFails, ConnectFailed
<1>2. CASE Fetching
  BY <1>2 DEF Fetching, Fetch, FetchRoutes, FetchFails, ResolveSource, RefreshRoutes
<1>3. CASE Updating
  BY <1>3 DEF Updating, UpdateNetworks, Update
<1>4. CASE ReadingPacket
  BY <1>4 DEF ReadingPacket, ReadPacket
<1>5. CASE ObservePacket
  BY <1>5 DEF ObservePacket
<1>6. CASE Sweep /\ UNCHANGED readerVars
  BY <1>6 DEF Sweep, SweepStarts, SweepCounter
<1>7. CASE Flush /\ UNCHANGED readerVars
  BY <1>7 DEF Flush, ExportStarts, ExportCounter, Save, SaveFails
<1>8. CASE \E id \in CounterId : Snapshot(id) /\ UNCHANGED readerVars
  BY <1>8 DEF Snapshot
<1>9. CASE Starting
  BY <1>9 DEF Starting, Start, StoreStarts
<1>10. CASE Crash
  BY <1>10
<1>11. CASE Tick
  BY <1>11 DEF Tick
<1>12. CASE UNCHANGED vars
  BY <1>12 DEF vars
<1>13. QED
  BY <1>1, <1>2, <1>3, <1>4, <1>5, <1>6, <1>7, <1>8, <1>9, <1>10, <1>11, <1>12
     DEF Next, Updating, Starting, Fetching, ReadingPacket

\* The catalog, its counters and its objects keep their types, and every scope of
\* the catalog keeps a counter (store.go, Update).
LEMMA CatalogTypes ==
    ASSUME RoutesInv, [Next]_vars
    PROVE  /\ gen' \in Gen /\ catalog' \in Catalog \cup {<<>>}
           /\ born' \in [Scope -> Gen \cup {NoGen}] /\ dropped' \in SUBSET Scope
           /\ connected' \in [AzObject -> BOOLEAN]
           /\ \A s \in Scopes(catalog') : born'[s] # NoGen
<1> USE BoundsAssumption DEF Gen, NoGen
<1>0. /\ gen \in Gen /\ catalog \in Catalog \cup {<<>>} /\ born \in [Scope -> Gen \cup {NoGen}]
      /\ connected \in [AzObject -> BOOLEAN] /\ dropped \in SUBSET Scope
      /\ \A s \in Scopes(catalog) : born[s] # NoGen
  BY DEF RoutesInv, TypeOK, StoreTypeOK
<1>1. ASSUME NEW c \in Catalog, UpdateNetworks(c)
      PROVE  /\ gen' \in Gen /\ catalog' \in Catalog /\ dropped' \in SUBSET Scope
             /\ born' \in [Scope -> Gen \cup {NoGen}]
             /\ connected' \in [AzObject -> BOOLEAN]
             /\ \A s \in Scopes(catalog') : born'[s] # NoGen
  <2>1. /\ gen' = gen + 1 /\ gen < MaxUpdates /\ catalog' = c /\ born' = BornWith(c)
        /\ dropped' = dropped \cup {s \in Scope : born[s] # NoGen /\ s \notin Scopes(c)}
        /\ connected' = [o \in AzObject |->
                       IF o[1] = gen + 1
                       THEN /\ o[2] \in Scopes(c)
                            /\ born[o[2]] # NoGen
                            /\ connected[<<gen, o[2]>>]
                       ELSE connected[o]]
    BY <1>1 DEF UpdateNetworks, Update
  <2>2. connected' \in [AzObject -> BOOLEAN]
    <3>1. \A o \in AzObject : connected[o] \in BOOLEAN
      BY <1>0
    <3>2. QED BY <2>1, <3>1
  <2>3. \A s \in Scope : born[s] \in Gen \cup {NoGen}
    BY <1>0
  <2>4. \A s \in Scope : /\ BornWith(c)[s] \in Gen \cup {NoGen}
                         /\ s \in Scopes(c) => BornWith(c)[s] # NoGen
    BY <1>0, <2>1, <2>3 DEF BornWith
  <2>5. BornWith(c) \in [Scope -> Gen \cup {NoGen}]
    BY <2>4 DEF BornWith
  <2>6. Scopes(c) \subseteq Scope
    BY ScopesAreScopes
  <2>7. gen' \in Gen /\ dropped' \in SUBSET Scope
    BY <1>0, <2>1
  <2>8. \A s \in Scopes(c) : born'[s] # NoGen
    BY <2>1, <2>4, <2>6
  <2>9. /\ catalog' \in Catalog /\ born' \in [Scope -> Gen \cup {NoGen}]
        /\ \A s \in Scopes(catalog') : born'[s] # NoGen
    BY <2>1, <2>5, <2>8
  <2>10. QED BY <2>2, <2>7, <2>9
<1>2. ASSUME NEW c \in Catalog, NEW answer \in Sources, NEW saved \in SavedAtStart,
             Start(c, answer, saved)
      PROVE  /\ gen' \in Gen /\ catalog' \in Catalog /\ dropped' \in SUBSET Scope
             /\ born' \in [Scope -> Gen \cup {NoGen}]
             /\ connected' \in [AzObject -> BOOLEAN]
             /\ \A s \in Scopes(catalog') : born'[s] # NoGen
  <2>1. /\ gen' = 0 /\ catalog' = c /\ connected' = connected
        /\ born' = [s \in Scope |-> IF s \in Scopes(c) THEN 0 ELSE NoGen]
        /\ dropped' \in SUBSET Scope
    BY <1>0, <1>2 DEF Start, StoreStarts
  <2>2. Scopes(c) \subseteq Scope
    BY ScopesAreScopes
  <2>3. QED BY <1>0, <2>1, <2>2
<1>3. CASE Crash
  <2>1. /\ gen' = 0 /\ catalog' = <<>> /\ born' = [s \in Scope |-> NoGen]
        /\ connected' = NoneConnected /\ dropped' = dropped
    BY <1>3 DEF Crash, StoreCrashes
  <2>2. Scopes(catalog') = {}
    <3>1. DOMAIN catalog' = {}
      BY <2>1
    <3>2. QED BY <3>1 DEF Scopes
  <2>3. connected' \in [AzObject -> BOOLEAN]
    BY <2>1 DEF NoneConnected
  <2>4. QED BY <1>0, <2>1, <2>2, <2>3
<1>4. CASE Connection
  <2>1. UNCHANGED catalogVars /\ connected' \in [AzObject -> BOOLEAN]
    <3>1. CASE \E o \in AzObject : MarkAnalyzer(o)
      BY <1>0, <3>1 DEF MarkAnalyzer, catalogVars
    <3>2. CASE Dial \/ DialFails \/ ReadFails \/ ConnectFailed
      BY <1>0, <3>2 DEF Dial, DialFails, ReadFails, ConnectFailed, storeVars, catalogVars
    <3>3. QED BY <1>4, <3>1, <3>2 DEF Connection
  <2>2. QED BY <1>0, <2>1 DEF catalogVars
<1>5. CASE UNCHANGED <<catalogVars, connected>>
  BY <1>0, <1>5 DEF catalogVars
<1>6. CASE Updating
  BY <1>1, <1>6 DEF Updating
<1>7. CASE Starting
  BY <1>2, <1>7 DEF Starting
<1>8. QED BY <1>3, <1>4, <1>5, <1>6, <1>7, Untouched

\* The rest of the store keeps its types (store.go).
LEMMA StoreTypes ==
    ASSUME CoreInv, CoreInv', RoutesInv, [Next]_vars
    PROVE  StoreTypeOK'
<1>0. /\ born \in [Scope -> Gen \cup {NoGen}] /\ sweepTodo \in SUBSET CounterId
      /\ flush \in {"idle", "exporting"} /\ exportTodo \in SUBSET CounterId
      /\ uniqueAt \in [CounterId -> [Time -> Nat]] /\ crashes \in 0..MaxCrashes
      /\ packet \in Reading \cup {NoPacket}
  BY DEF RoutesInv, TypeOK, StoreTypeOK
<1>1. Exposed \subseteq CounterId
  BY <1>0 DEF Exposed, CounterId
<1>2. ASSUME Crash
      PROVE  /\ sweepTodo' \in SUBSET CounterId
             /\ flush' \in {"idle", "exporting"} /\ exportTodo' \in SUBSET CounterId
             /\ uniqueAt' \in [CounterId -> [Time -> Nat]] /\ crashes' \in 0..MaxCrashes
  <2>1. /\ sweepTodo' = {} /\ flush' = "idle" /\ exportTodo' = {}
        /\ uniqueAt' = NoneUnique /\ crashes' = crashes + 1 /\ crashes < MaxCrashes
    BY <1>2 DEF Crash, StoreCrashes
  <2>2. uniqueAt' \in [CounterId -> [Time -> Nat]]
    BY <2>1 DEF NoneUnique
  <2>3. crashes' \in 0..MaxCrashes
    BY <1>0, <2>1, BoundsAssumption
  <2>4. QED BY <2>1, <2>2, <2>3
<1>3. ASSUME Sweep PROVE sweepTodo' \in SUBSET CounterId
  BY <1>0, <1>1, <1>3 DEF Sweep, SweepStarts, SweepCounter
<1>4. ASSUME Flush PROVE flush' \in {"idle", "exporting"} /\ exportTodo' \in SUBSET CounterId
  <2>1. CASE \E id \in CounterId : ExportCounter(id)
    BY <1>0, <2>1 DEF ExportCounter
  <2>2. CASE ExportStarts \/ Save \/ SaveFails
    BY <1>0, <1>1, <2>2 DEF ExportStarts, Save, SaveFails
  <2>3. QED BY <1>4, <2>1, <2>2 DEF Flush
<1>5. ASSUME ObservePacket PROVE uniqueAt' \in [CounterId -> [Time -> Nat]]
  <2>1. packet \in Reading /\ packet.ev \in Event
    BY <1>0, <1>5 DEF ObservePacket, CoreInv, ClocksInv
  <2>2. packet.route[packet.next] \in CounterId
    BY <2>1 DEF Reading, Route
  <2>3. uniqueAt' \in [CounterId -> [Time -> Nat]]
    <3> DEFINE id == packet.route[packet.next]
    <3>1. packet.ev.at \in Time /\ uniqueAt[id] \in [Time -> Nat]
      BY <1>0, <2>1, <2>2 DEF Event
    <3>2. uniqueAt[id][packet.ev.at] \in Nat
      BY <3>1
    <3>3. \E n \in Nat : uniqueAt' = [uniqueAt EXCEPT ![id][packet.ev.at] = n]
      <4> DEFINE at == packet.ev.at
                 n == IF counters[id].seenHash[packet.ev.hash] = 0 THEN uniqueAt[id][at] + 1
                      ELSE uniqueAt[id][at]
      <4>1. n \in Nat
        BY <3>2
      <4>2. uniqueAt' = [uniqueAt EXCEPT ![id][at] = n]
        BY <1>5 DEF ObservePacket, ObserveIn
      <4>3. QED BY <4>1, <4>2
    <3>4. QED BY <1>0, <2>2, <3>1, <3>3
  <2>4. QED BY <2>3
<1>6. /\ sweepTodo' \in SUBSET CounterId
      /\ flush' \in {"idle", "exporting"} /\ exportTodo' \in SUBSET CounterId
      /\ uniqueAt' \in [CounterId -> [Time -> Nat]] /\ crashes' \in 0..MaxCrashes
  BY <1>0, <1>2, <1>3, <1>4, <1>5, Untouched
<1>7. /\ up' \in BOOLEAN /\ now' \in Time \ {0} /\ counters' \in [CounterId -> CounterValue]
      /\ batch' \in [Scope -> State \cup {NoState}] /\ table' \in [Scope -> State \cup {NoState}]
      /\ heardAt' \in [CounterId -> [Hash -> Time]]
  BY DEF CoreInv, ClocksInv, DownInv, CountersInv, SavedInv, SavedOK, EntriesInv
<1>8. sweepAt' \in Time
  BY MaxTimeAssumption DEF CoreInv, ClocksInv, Time
<1>9. QED BY <1>6, <1>7, <1>8, CatalogTypes DEF StoreTypeOK

\* A source of an answer that is looked up in the store (tangleveil.go,
\* fetchRoutes).
LEMMA ResolveIs ==
    ASSUME RoutesInv, NEW who \in Fetcher, NEW s \in Source, ResolveSource(who, s)
    PROVE  /\ DOMAIN asked' = Fetcher
           /\ \A w \in Fetcher : DOMAIN asked'[w] \subseteq DOMAIN asked[w]
           /\ fetched' \in [Fetcher -> Partial(Source, Route)]
           /\ s \in DOMAIN asked[who]
           /\ \A w \in Fetcher : \A t \in DOMAIN fetched'[w] :
                 \/ t \in DOMAIN fetched[w] /\ fetched'[w][t] = fetched[w][t]
                 \/ LET r == fetched'[w][t]
                    IN  born[r.az[2]] = r.az[1] /\ born[r.net[2]] = r.net[1]
<1> DEFINE answer == asked[who]
           new == resolveMapping(answer[s], catalog, gen, born)
           found == [t \in DOMAIN fetched[who] \cup {s} |-> IF t = s THEN new ELSE fetched[who][t]]
<1>1. /\ s \in DOMAIN answer
      /\ asked' = [asked EXCEPT ![who] = [t \in DOMAIN answer \ {s} |-> answer[t]]]
      /\ fetched' = [fetched EXCEPT ![who] = IF ~Resolves(answer[s], catalog) THEN fetched[who]
                                             ELSE found]
  BY DEF ResolveSource
<1>2. /\ DOMAIN asked = Fetcher /\ fetched \in [Fetcher -> Partial(Source, Route)]
      /\ gen \in Gen /\ catalog \in Catalog \cup {<<>>} /\ born \in [Scope -> Gen \cup {NoGen}]
      /\ \A x \in Scopes(catalog) : born[x] # NoGen
  BY DEF RoutesInv, TypeOK, StoreTypeOK
<1>3. /\ DOMAIN asked' = Fetcher
      /\ \A w \in Fetcher : DOMAIN asked'[w] \subseteq DOMAIN asked[w]
  BY <1>1, <1>2
<1>4. CASE ~Resolves(answer[s], catalog)
  <2>1. fetched' = fetched
    BY <1>1, <1>2, <1>4
  <2>2. QED BY <1>1, <1>2, <1>3, <2>1
<1>5. CASE Resolves(answer[s], catalog)
  <2>1. catalog \in Catalog
    <3>1. catalog # <<>>
      BY <1>5 DEF Resolves
    <3>2. QED BY <1>2, <3>1
  <2>2. new \in Route /\ born[new.az[2]] = new.az[1] /\ born[new.net[2]] = new.net[1]
    BY <1>2, <1>5, <2>1, ResolvedIs
  <2>3. PICK D \in SUBSET Source : fetched[who] \in [D -> Route]
    BY <1>2, PartialIs
  <2> HIDE DEF new
  <2>4. found \in [D \cup {s} -> Route]
    BY <2>2, <2>3
  <2>5. found \in Partial(Source, Route)
    <3>1. D \cup {s} \in SUBSET Source
      BY <2>3
    <3>2. QED BY <2>4, <3>1, PartialIs
  <2>6. /\ fetched' \in [Fetcher -> Partial(Source, Route)]
        /\ fetched'[who] = found /\ \A w \in Fetcher : w # who => fetched'[w] = fetched[w]
    BY <1>1, <1>2, <1>5, <2>5
  <2>7. \A t \in DOMAIN found : (t \in DOMAIN fetched[who] /\ found[t] = fetched[who][t]) \/ found[t] = new
    OBVIOUS
  <2>8. QED BY <1>1, <1>3, <2>2, <2>6, <2>7
<1>6. QED BY <1>4, <1>5

\* The first routes point at the counters of the store (main.go).
LEMMA StartRoutesAre ==
    ASSUME NEW c \in Catalog, NEW answer \in Sources, NEW saved, Start(c, answer, saved)
    PROVE  /\ routes' \in Partial(Source, Route)
           /\ \A s \in DOMAIN routes' :
                 LET r == routes'[s] IN born'[r.az[2]] = r.az[1] /\ born'[r.net[2]] = r.net[1]
<1> DEFINE found == {t \in DOMAIN answer : Resolves(answer[t], c)}
<1>1. /\ born' = [s \in Scope |-> IF s \in Scopes(c) THEN 0 ELSE NoGen]
      /\ routes' = [s \in found |-> resolveMapping(answer[s], c, 0, born')]
  BY DEF Start, StoreStarts
<1>2. 0 \in Gen /\ NoGen # 0
  BY BoundsAssumption DEF Gen, NoGen
<1>3. /\ born' \in [Scope -> Gen \cup {NoGen}]
      /\ \A s \in Scopes(c) : born'[s] # NoGen
  BY <1>1, <1>2, ScopesAreScopes
<1>4. ASSUME NEW s \in found
      PROVE  LET r == resolveMapping(answer[s], c, 0, born')
             IN  r \in Route /\ born'[r.az[2]] = r.az[1] /\ born'[r.net[2]] = r.net[1]
  BY <1>2, <1>3, ResolvedIs
<1>5. found \subseteq Source
  BY SourcesAssumption
<1>6. routes' \in [found -> Route]
  BY <1>1, <1>4
<1>7. QED BY <1>1, <1>4, <1>5, <1>6, PartialIs

\* The reader and the refresher keep their types (tangleveil.go).
LEMMA ReaderTypes ==
    ASSUME CoreInv, CoreInv', RoutesInv, [Next]_vars
    PROVE  /\ routes' \in Partial(Source, Route)
           /\ phase'["reader"] \in ReaderPhase /\ phase'["refresher"] \in RefresherPhase
           /\ marking' \in SUBSET AzObject
           /\ packet' \in Reading \cup {NoPacket}
           /\ DOMAIN asked' = Fetcher /\ \A who \in Fetcher : DOMAIN asked'[who] \subseteq Source
           /\ fetched' \in [Fetcher -> Partial(Source, Route)]
           /\ packets' \in 0..MaxPackets /\ drops' \in 0..MaxDrops
<1> DEFINE RoutesOK == routes \in Partial(Source, Route) /\ marking \in SUBSET AzObject
           PhaseOK == phase["reader"] \in ReaderPhase /\ phase["refresher"] \in RefresherPhase
           PacketOK == packet \in Reading \cup {NoPacket} /\ packets \in 0..MaxPackets
                       /\ drops \in 0..MaxDrops
           FetchOK == /\ DOMAIN asked = Fetcher
                      /\ \A who \in Fetcher : DOMAIN asked[who] \subseteq Source
                      /\ fetched \in [Fetcher -> Partial(Source, Route)]
<1>0. RoutesOK /\ PhaseOK /\ PacketOK /\ FetchOK /\ DOMAIN phase = Fetcher
  BY DEF RoutesInv, TypeOK, CoreInv, DownInv
<1>1. /\ Routed \in SUBSET AzObject
      /\ \A s \in DOMAIN routes : routes[s] \in Route
  <2>1. PICK D \in SUBSET Source : routes \in [D -> Route]
    BY <1>0, PartialIs
  <2>2. \A s \in DOMAIN routes : routes[s] \in Route
    BY <2>1
  <2>3. QED BY <2>2 DEF Routed, Route
<1>2. NoRoutes \in Partial(Source, Route) /\ DOMAIN NoRoutes = {}
  BY NoRoutesIs
<1>3. CASE Connection
  <2>1. CASE \E o \in AzObject : MarkAnalyzer(o)
    BY <1>0, <2>1 DEF MarkAnalyzer
  <2>2. CASE Dial \/ DialFails \/ ConnectFailed
    BY <1>0, <1>1, <2>2 DEF Dial, DialFails, ConnectFailed, ReaderPhase, Fetcher
  <2>3. CASE ReadFails
    <3>1. drops' \in 0..MaxDrops
      BY <1>0, <2>3, StreamBoundsAssumption DEF ReadFails
    <3>2. QED BY <1>0, <1>1, <2>3, <3>1 DEF ReadFails, ReaderPhase, Fetcher
  <2>4. QED BY <1>3, <2>1, <2>2, <2>3 DEF Connection
<1>4. ASSUME NEW who \in Fetcher, Fetch(who)
      PROVE  RoutesOK' /\ PhaseOK' /\ PacketOK' /\ FetchOK'
  <2>1. AfterFetch(who) \in IF who = "reader" THEN ReaderPhase ELSE RefresherPhase
    BY DEF AfterFetch, ReaderPhase, RefresherPhase
  <2>2. ASSUME NEW answer \in Sources, FetchRoutes(who, answer)
        PROVE  RoutesOK' /\ PhaseOK' /\ PacketOK' /\ FetchOK'
    <3>1. DOMAIN answer \subseteq Source
      BY SourcesAssumption
    <3>2. QED BY <1>0, <2>2, <3>1 DEF FetchRoutes, ReaderPhase, RefresherPhase, Fetcher
  <2>3. CASE FetchFails(who)
    BY <1>0, <2>1, <2>3 DEF FetchFails, Fetcher
  <2>4. ASSUME NEW s \in Source, ResolveSource(who, s)
        PROVE  RoutesOK' /\ PhaseOK' /\ PacketOK' /\ FetchOK'
    <3>1. FetchOK'
      BY <1>0, <2>4, ResolveIs
    <3>2. QED BY <1>0, <2>4, <3>1 DEF ResolveSource
  <2>5. CASE RefreshRoutes(who)
    <3>1. routes' \in Partial(Source, Route) /\ fetched' \in [Fetcher -> Partial(Source, Route)]
      BY <1>0, <1>2, <2>5 DEF RefreshRoutes
    <3>2. QED BY <1>0, <2>1, <2>5, <3>1 DEF RefreshRoutes, Fetcher
  <2>6. QED BY <1>4, <2>2, <2>3, <2>4, <2>5 DEF Fetch
<1>5. CASE Updating
  BY <1>0, <1>5 DEF Updating, UpdateNetworks, RefresherPhase, Fetcher
<1>6. CASE ReadingPacket
  <2>1. PICK s \in Source, p \in Packet : ReadPacket(s, p)
    BY <1>6 DEF ReadingPacket
  <2>2. packet' # NoPacket => packet'.ev \in Event
    BY DEF CoreInv, ClocksInv
  <2> DEFINE ev == [hash |-> p.hash, observer |-> p.observer, nodes |-> p.nodes,
                    type |-> p.type, at |-> now]
  <2>3. packet' = [route |-> routes[s], ev |-> ev, next |-> "az"] /\ s \in DOMAIN routes
    BY <2>1 DEF ReadPacket
  <2>4. packet' \in Reading \cup {NoPacket}
    BY <1>1, <2>2, <2>3 DEF Reading
  <2>5. packets' \in 0..MaxPackets
    BY <1>0, <2>1, StreamBoundsAssumption DEF ReadPacket
  <2>6. QED BY <1>0, <2>1, <2>4, <2>5 DEF ReadPacket
<1>7. CASE ObservePacket
  <2>1. packet' \in Reading \cup {NoPacket}
    BY <1>0, <1>7 DEF ObservePacket, Reading
  <2>2. QED BY <1>0, <1>7, <2>1 DEF ObservePacket
<1>8. CASE Starting
  <2>1. PICK c \in Catalog, answer \in Sources, saved \in SavedAtStart : Start(c, answer, saved)
    BY <1>8 DEF Starting
  <2>2. routes' \in Partial(Source, Route)
    BY <2>1, StartRoutesAre
  <2>3. QED BY <1>0, <2>1, <2>2 DEF Start, ReaderPhase, Fetcher
<1>9. CASE Crash
  <2>1. /\ routes' = NoRoutes /\ marking' = {} /\ packet' = NoPacket
        /\ phase' = [who \in Fetcher |-> IF who = "reader" THEN "off" ELSE "idle"]
        /\ asked' = [who \in Fetcher |-> NoRoutes] /\ fetched' = [who \in Fetcher |-> NoRoutes]
        /\ packets' = 0 /\ drops' = 0
    BY <1>9 DEF Crash
  <2>2. PhaseOK'
    BY <2>1 DEF ReaderPhase, RefresherPhase, Fetcher
  <2>3. FetchOK'
    BY <1>2, <2>1
  <2>4. QED BY <1>2, <2>1, <2>2, <2>3, StreamBoundsAssumption
<1>10. CASE UNCHANGED readerVars
  BY <1>0, <1>10 DEF readerVars
<1>11. QED
  BY <1>3, <1>4, <1>5, <1>6, <1>7, <1>8, <1>9, <1>10, Untouched DEF Fetching

\* Nothing is fetched while the process is down (main.go).
LEMMA DownStep ==
    ASSUME CoreInv, CoreInv', RoutesInv, [Next]_vars, ~up'
    PROVE  /\ phase'["reader"] = "off" /\ phase'["refresher"] = "idle"
           /\ marking' = {} /\ packet' = NoPacket
           /\ \A who \in Fetcher : DOMAIN asked'[who] = {} /\ DOMAIN fetched'[who] = {}
<1>1. CASE Crash
  <2>1. DOMAIN NoRoutes = {}
    BY NoRoutesIs
  <2>2. QED BY <1>1, <2>1 DEF Crash, Fetcher
<1>2. CASE ~Crash
  <2>1. ~up
    <3>1. ~Starting
      BY DEF Starting, Start, StoreStarts
    <3>2. QED BY <1>2, <3>1, Untouched
  <2>2. /\ phase["reader"] = "off" /\ phase["refresher"] = "idle"
        /\ marking = {} /\ packet = NoPacket
        /\ \A who \in Fetcher : DOMAIN asked[who] = {} /\ DOMAIN fetched[who] = {}
    BY <2>1 DEF RoutesInv
  <2>3. ~Connection
    BY <2>2 DEF Connection, Dial, DialFails, MarkAnalyzer, ReadFails, ConnectFailed
  <2>4. ~Fetching
    BY <2>2 DEF Fetching, Fetch, FetchRoutes, FetchFails, MayFetch, ResolveSource, RefreshRoutes,
                Fetcher
  <2>5. ~Updating /\ ~ReadingPacket /\ ~ObservePacket /\ ~Starting
    BY <2>1, <2>2 DEF Updating, UpdateNetworks, Update, ReadingPacket, ReadPacket, ObservePacket,
                      Starting, Start, StoreStarts
  <2>6. UNCHANGED readerVars
    BY <1>2, <2>3, <2>4, <2>5, Untouched
  <2>7. QED BY <2>2, <2>6 DEF readerVars
<1>3. QED BY <1>1, <1>2

RouteOK(r) == InStoreOrDropped(r.az) /\ InStoreOrDropped(r.net)
RoutesOK == \A s \in DOMAIN routes : RouteOK(routes[s])
PacketOK == packet # NoPacket => RouteOK(packet.route)
FetchOK  == \A who \in Fetcher : \A s \in DOMAIN fetched[who] : RouteOK(fetched[who][s])

\* The held routes are those in use, that of the packet and those being fetched.
LEMMA HeldParts ==
    /\ (\A r \in HeldRoutes : RouteOK(r)) <=> RoutesOK /\ PacketOK /\ FetchOK
    /\ (\A r \in HeldRoutes : RouteOK(r))' <=> RoutesOK' /\ PacketOK' /\ FetchOK'
BY DEF HeldRoutes, RoutesOK, PacketOK, FetchOK

\* While no scope comes back, an update of the catalog leaves a counter in the
\* store or drops it for good (store.go, Update).
LEMMA KeptOrDropped ==
    ASSUME ~MayReturn, Updating, NEW id \in CounterId, InStoreOrDropped(id)
    PROVE  InStoreOrDropped(id)'
<1>1. PICK c \in Catalog : UpdateNetworks(c)
  BY DEF Updating
<1>2. /\ MayFollow(c) /\ born' = BornWith(c)
      /\ dropped' = dropped \cup {s \in Scope : born[s] # NoGen /\ s \notin Scopes(c)}
  BY <1>1 DEF UpdateNetworks, Update
<1>3. id[2] \in Scope
  BY DEF CounterId
<1>4. CASE id[2] \notin Scopes(c)
  <2>1. born'[id[2]] = NoGen
    BY <1>2, <1>3, <1>4 DEF BornWith
  <2>2. born[id[2]] = NoGen => id[2] \in dropped \/ born[id[2]] = id[1]
    BY DEF InStoreOrDropped
  <2>3. id[1] # NoGen
    BY DEF CounterId, Gen, NoGen
  <2>4. id[2] \in dropped'
    BY <1>2, <1>3, <1>4, <2>2, <2>3
  <2>5. QED BY <2>1, <2>4 DEF InStoreOrDropped
<1>5. CASE id[2] \in Scopes(c)
  <2>1. id[2] \notin dropped
    BY <1>2, <1>5 DEF MayFollow
  <2>2. born[id[2]] = id[1] /\ id[1] # NoGen
    BY <2>1 DEF InStoreOrDropped, CounterId, Gen, NoGen
  <2>3. born'[id[2]] = born[id[2]]
    BY <1>2, <1>3, <1>5, <2>2 DEF BornWith
  <2>4. QED BY <2>2, <2>3 DEF InStoreOrDropped
<1>6. QED BY <1>4, <1>5

\* Every step keeps what the held routes point at (tangleveil.go, store.go).
LEMMA HeldStep ==
    ASSUME CoreInv, CoreInv', RoutesInv, [Next]_vars, ~MayReturn
    PROVE  \A r \in HeldRoutes' : InStoreOrDropped(r.az)' /\ InStoreOrDropped(r.net)'
<1>1. RoutesOK /\ PacketOK /\ FetchOK
  BY HeldParts DEF RoutesInv, RouteOK
<1>2. /\ routes \in Partial(Source, Route) /\ fetched \in [Fetcher -> Partial(Source, Route)]
      /\ packet \in Reading \cup {NoPacket}
  BY DEF RoutesInv, TypeOK
<1>3. /\ \A s \in DOMAIN routes : routes[s] \in Route
      /\ packet # NoPacket => packet.route \in Route
      /\ \A who \in Fetcher : \A s \in DOMAIN fetched[who] : fetched[who][s] \in Route
  <2>1. PICK D \in SUBSET Source : routes \in [D -> Route]
    BY <1>2, PartialIs
  <2>2. ASSUME NEW who \in Fetcher PROVE \A s \in DOMAIN fetched[who] : fetched[who][s] \in Route
    <3>1. PICK E \in SUBSET Source : fetched[who] \in [E -> Route]
      BY <1>2, PartialIs
    <3>2. QED BY <3>1
  <2>3. QED BY <1>2, <2>1, <2>2 DEF Reading
<1>4. DOMAIN NoRoutes = {}
  BY NoRoutesIs
<1>5. CASE Updating
  <2>1. ASSUME NEW r \in Route, RouteOK(r) PROVE RouteOK(r)'
    BY <1>5, <2>1, KeptOrDropped DEF RouteOK, Route
  <2>2. UNCHANGED <<routes, packet, fetched>>
    BY <1>5 DEF Updating, UpdateNetworks
  <2>3. RoutesOK' /\ PacketOK' /\ FetchOK'
    BY <1>1, <1>3, <2>1, <2>2 DEF RoutesOK, PacketOK, FetchOK
  <2>4. QED BY <2>3, HeldParts DEF RouteOK
<1>6. CASE Starting
  <2>1. PICK c \in Catalog, answer \in Sources, saved \in SavedAtStart : Start(c, answer, saved)
    BY <1>6 DEF Starting
  <2>2. /\ UNCHANGED <<packet, fetched>> /\ packet = NoPacket
        /\ \A who \in Fetcher : DOMAIN fetched[who] = {}
    BY <2>1 DEF Start, StoreStarts, RoutesInv
  <2>3. RoutesOK'
    BY <2>1, StartRoutesAre DEF RoutesOK, RouteOK, InStoreOrDropped
  <2>4. RoutesOK' /\ PacketOK' /\ FetchOK'
    BY <2>2, <2>3 DEF PacketOK, FetchOK
  <2>5. QED BY <2>4, HeldParts DEF RouteOK
<1>7. CASE Crash
  <2>1. /\ routes' = NoRoutes /\ packet' = NoPacket /\ fetched' = [who \in Fetcher |-> NoRoutes]
    BY <1>7 DEF Crash
  <2>2. RoutesOK' /\ PacketOK' /\ FetchOK'
    BY <1>4, <2>1 DEF RoutesOK, PacketOK, FetchOK
  <2>3. QED BY <2>2, HeldParts DEF RouteOK
<1>8. ASSUME UNCHANGED catalogVars, ~Updating, ~Starting, ~Crash
      PROVE  RoutesOK' /\ PacketOK' /\ FetchOK'
  <2>1. ASSUME NEW r, RouteOK(r) PROVE RouteOK(r)'
    BY <1>8, <2>1 DEF RouteOK, InStoreOrDropped, catalogVars
  <2>2. CASE Connection
    <3>1. UNCHANGED <<routes, packet, fetched>>
      BY <2>2 DEF Connection, Dial, DialFails, MarkAnalyzer, ReadFails, ConnectFailed
    <3>2. QED BY <1>1, <2>1, <3>1 DEF RoutesOK, PacketOK, FetchOK
  <2>3. ASSUME NEW who \in Fetcher, Fetch(who) PROVE RoutesOK' /\ PacketOK' /\ FetchOK'
    <3>1. CASE RefreshRoutes(who)
      <4>1. /\ routes' \in {routes, fetched[who]} /\ packet' = packet
            /\ \A w \in Fetcher : fetched'[w] \in {fetched[w], NoRoutes}
        BY <1>2, <3>1 DEF RefreshRoutes
      <4>2. RoutesOK'
        BY <1>1, <2>1, <4>1 DEF RoutesOK, FetchOK
      <4>3. PacketOK' /\ FetchOK'
        BY <1>1, <1>4, <2>1, <4>1 DEF PacketOK, FetchOK
      <4>4. QED BY <4>2, <4>3
    <3>2. ASSUME NEW s \in Source, ResolveSource(who, s) PROVE RoutesOK' /\ PacketOK' /\ FetchOK'
      <4>1. FetchOK'
        BY <1>1, <1>8, <3>2, <2>1, ResolveIs DEF FetchOK, RouteOK, InStoreOrDropped, catalogVars
      <4>2. UNCHANGED <<routes, packet>>
        BY <3>2 DEF ResolveSource
      <4>3. QED BY <1>1, <2>1, <4>1, <4>2 DEF RoutesOK, PacketOK
    <3>3. CASE (\E answer \in Sources : FetchRoutes(who, answer)) \/ FetchFails(who)
      <4>1. UNCHANGED <<routes, packet, fetched>>
        BY <3>3 DEF FetchRoutes, FetchFails
      <4>2. QED BY <1>1, <2>1, <4>1 DEF RoutesOK, PacketOK, FetchOK
    <3>4. QED BY <2>3, <3>1, <3>2, <3>3 DEF Fetch
  <2>4. CASE ReadingPacket
    <3>1. PICK s \in Source, p \in Packet : ReadPacket(s, p)
      BY <2>4 DEF ReadingPacket
    <3>2. s \in DOMAIN routes /\ packet'.route = routes[s] /\ UNCHANGED <<routes, fetched>>
      BY <3>1 DEF ReadPacket
    <3>3. QED BY <1>1, <2>1, <3>2 DEF RoutesOK, PacketOK, FetchOK
  <2>5. CASE ObservePacket
    <3>1. /\ packet # NoPacket /\ (packet' # NoPacket => packet'.route = packet.route)
          /\ UNCHANGED <<routes, fetched>>
      BY <2>5 DEF ObservePacket
    <3>2. QED BY <1>1, <2>1, <3>1 DEF RoutesOK, PacketOK, FetchOK
  <2>6. CASE UNCHANGED readerVars
    BY <1>1, <2>1, <2>6 DEF RoutesOK, PacketOK, FetchOK, readerVars
  <2>7. QED BY <2>2, <2>3, <2>4, <2>5, <2>6, <1>8, Untouched DEF Fetching
<1>9. QED BY <1>5, <1>6, <1>7, <1>8, HeldParts, Untouched DEF RouteOK

\* The initial state, before the first start of the process.
LEMMA InitRoutes == Init => RoutesInv
<1> SUFFICES ASSUME Init PROVE RoutesInv
  OBVIOUS
<1>1. CoreInv
  BY InitCore
<1>2. NoRoutes \in Partial(Source, Route) /\ DOMAIN NoRoutes = {}
  BY NoRoutesIs
<1>3. StoreTypeOK
  <2>1. /\ up \in BOOLEAN /\ now \in Time \ {0} /\ counters \in [CounterId -> CounterValue]
        /\ batch \in [Scope -> State \cup {NoState}] /\ table \in [Scope -> State \cup {NoState}]
        /\ heardAt \in [CounterId -> [Hash -> Time]]
    BY <1>1 DEF CoreInv, ClocksInv, DownInv, CountersInv, SavedInv, SavedOK, EntriesInv
  <2>2. sweepAt \in Time /\ uniqueAt \in [CounterId -> [Time -> Nat]]
    BY MaxTimeAssumption DEF Init, StoreInit, Time, NoneUnique
  <2>3. /\ gen \in Gen /\ born \in [Scope -> Gen \cup {NoGen}] /\ crashes \in 0..MaxCrashes
        /\ connected \in [AzObject -> BOOLEAN]
    BY BoundsAssumption DEF Init, StoreInit, Gen, NoneConnected
  <2>4. QED BY <2>1, <2>2, <2>3 DEF Init, StoreInit, StoreTypeOK
<1>4. TypeOK
  <2>1. /\ routes \in Partial(Source, Route) /\ fetched \in [Fetcher -> Partial(Source, Route)]
        /\ DOMAIN asked = Fetcher /\ \A who \in Fetcher : DOMAIN asked[who] \subseteq Source
    BY <1>2 DEF Init
  <2>2. phase["reader"] \in ReaderPhase /\ phase["refresher"] \in RefresherPhase
    BY DEF Init, Fetcher, ReaderPhase, RefresherPhase
  <2>3. packets \in 0..MaxPackets /\ drops \in 0..MaxDrops
    BY StreamBoundsAssumption DEF Init
  <2>4. QED BY <1>3, <2>1, <2>2, <2>3 DEF Init, TypeOK
<1>5. Scopes(catalog) = {}
  <2>1. DOMAIN catalog = {}
    BY DEF Init, StoreInit
  <2>2. QED BY <2>1 DEF Scopes
<1>6. HeldRoutes = {}
  BY <1>2 DEF Init, HeldRoutes
<1>7. /\ phase["reader"] = "off" /\ phase["refresher"] = "idle" /\ marking = {} /\ packet = NoPacket
      /\ \A who \in Fetcher : DOMAIN asked[who] = {} /\ DOMAIN fetched[who] = {}
  BY <1>2 DEF Init, Fetcher
<1>8. QED BY <1>4, <1>5, <1>6, <1>7 DEF RoutesInv

\* Every step keeps the types of store and reader (tangleveil.go, store.go).
LEMMA RoutesStep == CoreInv /\ CoreInv' /\ RoutesInv /\ [Next]_vars => RoutesInv'
<1> SUFFICES ASSUME CoreInv, CoreInv', RoutesInv, [Next]_vars PROVE RoutesInv'
  OBVIOUS
<1>1. TypeOK'
  BY StoreTypes, ReaderTypes DEF TypeOK
<1>2. \A s \in Scopes(catalog)' : born'[s] # NoGen
  BY CatalogTypes DEF Scopes
<1>3. QED BY <1>1, <1>2, DownStep, HeldStep DEF RoutesInv

\* Types, and what the routes and the packet under way point at, hold in every
\* reachable state, whatever refreshes, updates and crashes interleave
\* (tangleveil.go, store.go).
THEOREM RoutesInvariance == Spec => []RoutesInv
<1>1. Spec => [](CoreInv /\ RoutesInv)
  BY InitCore, InitRoutes, StepCore, RoutesStep, PTL DEF Spec
<1>2. QED BY <1>1, PTL

\* The state of store, reader and refresher keeps its types (tangleveil.go,
\* store.go).
THEOREM Types == Spec => []TypeOK
<1>1. RoutesInv => TypeOK
  BY DEF RoutesInv
<1>2. QED BY RoutesInvariance, <1>1, PTL

\* While no scope comes back, a routed packet counts into the counter its scope
\* has in the store, however old its route is (tangleveil.go:123).
THEOREM RoutedPacketsCount ==
    ASSUME ~MayReturn
    PROVE  Spec => []RoutesCountIntoStore
<1>1. RoutesInv => RoutesCountIntoStore
  <2> SUFFICES ASSUME RoutesInv PROVE RoutesCountIntoStore
    OBVIOUS
  <2>1. \A r \in HeldRoutes : InStoreOrDropped(r.az) /\ InStoreOrDropped(r.net)
    BY DEF RoutesInv
  <2>2. QED BY <2>1 DEF RoutesCountIntoStore, HeldRoutes, InStoreOrDropped
<1>2. QED BY RoutesInvariance, <1>1, PTL

-----------------------------------------------------------------------------
\* A ring that has counted nothing is exact (metrics.go, newCounter).
LEMMA NewRingOK ==
    ASSUME NEW n \in Time
    PROVE  /\ RateOK(newCounter.rate, [t \in Time |-> 0], n)
           /\ \A st : Restored(newCounter, st).rate = newCounter.rate
<1>1. \A t \in Time : t % RateSecs \in Slot /\ t >= 0
  BY SlotOfSecond DEF Time
<1>2. 0 <= n
  BY DEF Time
<1>3. RateOK(newCounter.rate, [t \in Time |-> 0], n)
  BY <1>1, <1>2 DEF RateOK, newCounter
<1>4. QED BY <1>3 DEF Restored, newCounter

\* Rings and what was counted in them, when no packet is counted.
LEMMA RingsCarried ==
    ASSUME RatesInv, UNCHANGED <<counters, uniqueAt>>, now <= now', now \in Nat, now' \in Nat,
           CountersInv
    PROVE  \A id \in CounterId : RateOK(counters'[id].rate, uniqueAt'[id], now')
<1>1. \A id \in CounterId : counters[id].rate.last \in Nat
  BY DEF CountersInv, CounterValue, Rate, Time
<1>2. QED BY <1>1 DEF RatesInv, RateOK

\* The rings after a packet: its second is still in the window of its counter's
\* (metrics.go, Counter.Observe).
LEMMA ObservedRings ==
    ASSUME CoreInv, RoutesInv, RatesInv, ObservePacket
    PROVE  RatesInv'
<1> DEFINE k == packet.route[packet.next]
           ev == packet.ev
<1>1. /\ packet # NoPacket
      /\ counters' = [counters EXCEPT ![k] = Observed(counters[k], ev)]
      /\ uniqueAt' = [uniqueAt EXCEPT ![k][ev.at] =
                        IF counters[k].seenHash[ev.hash] = 0 THEN @ + 1 ELSE @]
      /\ packet' = NoPacket \/ packet'.ev = ev
      /\ UNCHANGED <<up, now>>
  BY DEF ObservePacket, ObserveIn
<1>2. /\ ev.at \in Time \ {0} /\ ev.at <= now /\ now - ev.at < RateSecs /\ now \in Time
      /\ uniqueAt \in [CounterId -> [Time -> Nat]]
      /\ up /\ up'
  BY <1>1 DEF CoreInv, ClocksInv, DownInv, Event, RatesInv, RoutesInv, TypeOK, StoreTypeOK
<1>3. Observed(counters[k], ev).rate =
         IF counters[k].seenHash[ev.hash] = 0 THEN add(counters[k].rate, ev.at)
         ELSE counters[k].rate
  BY DEF Observed
<1>4. /\ counters \in [CounterId -> CounterValue]
      /\ \A id \in CounterId : /\ counters[id].rate \in Rate /\ uniqueAt[id] \in [Time -> Nat]
                               /\ RateOK(counters[id].rate, uniqueAt[id], now)
  BY <1>2 DEF CoreInv, CountersInv, CounterValue, RatesInv
<1> HIDE DEF k, ev
<1>5. ASSUME NEW id \in CounterId
      PROVE  RateOK(counters'[id].rate, uniqueAt'[id], now)
  <2>1. counters'[id] = IF id = k THEN Observed(counters[k], ev) ELSE counters[id]
    BY <1>1, <1>4
  <2>2. id # k => uniqueAt'[id] = uniqueAt[id]
    BY <1>1, <1>2
  <2>3. CASE id # k
    BY <1>4, <2>1, <2>2, <2>3
  <2>4. CASE id = k /\ counters[k].seenHash[ev.hash] = 0
    <3>1. uniqueAt'[id] = [uniqueAt[id] EXCEPT ![ev.at] = @ + 1]
      BY <1>1, <1>2, <2>4
    <3>2. counters'[id].rate = add(counters[id].rate, ev.at)
      BY <1>3, <2>1, <2>4
    <3>3. QED BY <1>2, <1>4, <3>1, <3>2, AddedOK
  <2>5. CASE id = k /\ counters[k].seenHash[ev.hash] # 0
    <3>1. uniqueAt'[id] = uniqueAt[id]
      BY <1>1, <1>2, <2>5
    <3>2. counters'[id].rate = counters[id].rate
      BY <1>3, <2>1, <2>5
    <3>3. QED BY <1>4, <3>1, <3>2
  <2>6. QED BY <2>3, <2>4, <2>5
<1>6. packet' # NoPacket => now' - packet'.ev.at < RateSecs
  BY <1>1, <1>2 DEF ev
<1>7. QED BY <1>1, <1>2, <1>5, <1>6 DEF RatesInv

\* The rings after a request for the statistics (metrics.go, Counter.Snapshot).
LEMMA SnapshotRings ==
    ASSUME CoreInv, RoutesInv, RatesInv, NEW k \in CounterId, Snapshot(k), UNCHANGED readerVars
    PROVE  RatesInv'
<1>1. /\ counters' = [counters EXCEPT ![k] = Snapshotted(counters[k], now)]
      /\ UNCHANGED <<up, now, uniqueAt, packet>>
  BY DEF Snapshot, readerVars
<1>2. /\ counters \in [CounterId -> CounterValue] /\ now \in Time \ {0} /\ now <= now
      /\ uniqueAt \in [CounterId -> [Time -> Nat]]
  BY DEF CoreInv, CountersInv, ClocksInv, RoutesInv, TypeOK, StoreTypeOK, Time
<1>3. /\ counters[k] \in CounterValue /\ counters[k].rate \in Rate
      /\ RateOK(counters[k].rate, uniqueAt[k], now) /\ uniqueAt[k] \in [Time -> Nat]
  BY <1>2 DEF CounterValue, RatesInv
<1>4. RateOK(advance(counters[k].rate, now), uniqueAt[k], now)
  BY <1>2, <1>3, AdvancedOK
<1>5. Snapshotted(counters[k], now).rate = advance(counters[k].rate, now)
  BY <1>3 DEF Snapshotted, CounterValue
<1>6. \A id \in CounterId :
         counters'[id] = IF id = k THEN Snapshotted(counters[k], now) ELSE counters[id]
  BY <1>1, <1>2
<1>7. \A id \in CounterId : RateOK(counters'[id].rate, uniqueAt[id], now)
  BY <1>4, <1>5, <1>6 DEF RatesInv
<1>8. QED BY <1>1, <1>7 DEF RatesInv

\* The sweep leaves the rings alone (metrics.go, Counter.sweep).
LEMMA SweptRings ==
    ASSUME CoreInv, RatesInv, Sweep, UNCHANGED readerVars
    PROVE  RatesInv'
<1>1. CASE SweepStarts
  BY <1>1 DEF SweepStarts, countVars, readerVars, RatesInv
<1>2. ASSUME NEW k \in CounterId, SweepCounter(k) PROVE RatesInv'
  <2>1. /\ counters' = [counters EXCEPT ![k] = Swept(counters[k], sweepAt, DedupWindow, ObserverTTL)]
        /\ UNCHANGED <<up, now, uniqueAt, packet>>
    BY <1>2 DEF SweepCounter, readerVars
  <2>2. counters \in [CounterId -> CounterValue]
    BY DEF CoreInv, CountersInv
  <2>3. Swept(counters[k], sweepAt, DedupWindow, ObserverTTL).rate = counters[k].rate
    BY <2>2 DEF Swept, CounterValue
  <2>4. \A id \in CounterId : counters'[id].rate = counters[id].rate
    BY <2>1, <2>2, <2>3
  <2>5. QED BY <2>1, <2>4 DEF RatesInv
<1>3. QED BY <1>1, <1>2 DEF Sweep

\* The rings of a process that starts, or is gone, are empty (main.go).
LEMMA StartedRings ==
    ASSUME CoreInv, RatesInv, Starting \/ Crash
    PROVE  RatesInv'
<1>1. now \in Time /\ CounterId = DOMAIN NoneUnique
  BY DEF CoreInv, ClocksInv, NoneUnique
<1>2. /\ RateOK(newCounter.rate, [t \in Time |-> 0], now)
      /\ \A st : Restored(newCounter, st).rate = newCounter.rate
  BY <1>1, NewRingOK
<1>3. CASE Starting
  <2>1. PICK c \in Catalog, answer \in Sources, saved \in SavedAtStart : Start(c, answer, saved)
    BY <1>3 DEF Starting
  <2>2. /\ ~up /\ up' /\ UNCHANGED <<now, uniqueAt, packet>>
        /\ counters' = [id \in CounterId |->
                      IF id[1] = 0 /\ id[2] \in Scopes(c) /\ saved[id[2]] # NoState
                      THEN Restored(newCounter, saved[id[2]]) ELSE newCounter]
    BY <2>1 DEF Start, StoreStarts
  <2>3. \A id \in CounterId : counters'[id].rate = newCounter.rate
    BY <1>2, <2>2
  <2>4. \A id \in CounterId : uniqueAt'[id] = [t \in Time |-> 0]
    BY <2>2 DEF RatesInv, NoneUnique
  <2>5. QED BY <1>2, <2>2, <2>3, <2>4 DEF RatesInv
<1>4. CASE Crash
  <2>1. packet' = NoPacket /\ counters' = NewCounters /\ uniqueAt' = NoneUnique /\ now' = now
    BY <1>4 DEF Crash, StoreCrashes
  <2>2. \A id \in CounterId : /\ counters'[id].rate = newCounter.rate
                              /\ uniqueAt'[id] = [t \in Time |-> 0]
    BY <2>1 DEF NewCounters, NoneUnique
  <2>3. QED BY <1>2, <2>1, <2>2 DEF RatesInv
<1>5. QED BY <1>3, <1>4

\* Every step keeps the rings exact.
LEMMA RatesStep == CoreInv /\ RoutesInv /\ RatesInv /\ [Next]_vars => RatesInv'
<1> SUFFICES ASSUME CoreInv, RoutesInv, RatesInv, [Next]_vars PROVE RatesInv'
  OBVIOUS
<1>1. CASE ObservePacket
  BY <1>1, ObservedRings
<1>2. CASE (Sweep /\ UNCHANGED readerVars)
             \/ \E id \in CounterId : Snapshot(id) /\ UNCHANGED readerVars
  BY <1>2, SnapshotRings, SweptRings
<1>3. CASE Starting \/ Crash
  BY <1>3, StartedRings
<1>4. CASE Tick
  <2>0. now' = now + 1 /\ UNCHANGED <<up, counters, uniqueAt, packet>>
    BY <1>4 DEF Tick, countVars, readerVars
  <2>1. packet # NoPacket => now' - packet.ev.at < RateSecs
    <3>1. packet # NoPacket => now + 1 - packet.ev.at < RateSecs
      BY <1>4 DEF Tick
    <3>2. packet # NoPacket => packet.ev.at \in Nat /\ now \in Nat
      BY DEF CoreInv, ClocksInv, Event, Time
    <3>3. QED BY <2>0, <3>1, <3>2, RateAssumption
  <2>2. \A id \in CounterId : RateOK(counters'[id].rate, uniqueAt'[id], now')
    BY <2>0, RingsCarried DEF CoreInv, ClocksInv, Time
  <2>3. QED BY <2>0, <2>1, <2>2 DEF RatesInv
<1>5. CASE ReadingPacket
  <2>1. packet'.ev.at = now /\ UNCHANGED <<up, now, counters, uniqueAt>>
    BY <1>5 DEF ReadingPacket, ReadPacket, storeVars, countVars
  <2>2. now' - packet'.ev.at < RateSecs
    BY <2>1, RateAssumption DEF CoreInv, ClocksInv, Time
  <2>3. QED BY <2>1, <2>2 DEF RatesInv
<1>6. CASE UNCHANGED <<up, now, counters, uniqueAt, packet>>
  BY <1>6 DEF RatesInv
<1>7. ASSUME Connection \/ Fetching \/ Updating \/ (Flush /\ UNCHANGED readerVars) \/ UNCHANGED vars
      PROVE  UNCHANGED <<up, now, counters, uniqueAt, packet>>
  <2> USE DEF storeVars, countVars
  <2>1. CASE Connection
    BY <2>1 DEF Connection, Dial, DialFails, MarkAnalyzer, ReadFails, ConnectFailed
  <2>2. CASE Fetching
    BY <2>2 DEF Fetching, Fetch, FetchRoutes, FetchFails, ResolveSource, RefreshRoutes
  <2>3. CASE Updating
    BY <2>3 DEF Updating, UpdateNetworks, Update
  <2>4. CASE Flush /\ UNCHANGED readerVars
    BY <2>4 DEF Flush, ExportStarts, ExportCounter, Save, SaveFails, readerVars
  <2>5. CASE UNCHANGED vars
    BY <2>5 DEF vars, readerVars
  <2>6. QED BY <1>7, <2>1, <2>2, <2>3, <2>4, <2>5
<1>8. QED
  BY <1>1, <1>2, <1>3, <1>4, <1>5, <1>6, <1>7
     DEF Next, Updating, Starting, Fetching, ReadingPacket

\* The inductive invariant of the counters holds in every reachable state,
\* whatever packets, requests, sweeps, flushes, updates and crashes interleave
\* (metrics.go, store.go).
THEOREM Invariance == Spec => []IInv
<1> DEFINE All == CoreInv /\ RoutesInv /\ RatesInv
<1>1. Init => RatesInv
  <2>1. now = 1 => now \in Time
    BY MaxTimeAssumption DEF Time
  <2>2. QED BY <2>1, NewRingOK DEF Init, StoreInit, RatesInv, NewCounters, NoneUnique
<1>2. Init => All
  BY <1>1, InitCore, InitRoutes
<1>3. All /\ [Next]_vars => All'
  BY StepCore, RoutesStep, RatesStep
<1>4. All => IInv
  BY DEF IInv
<1>5. QED BY <1>2, <1>3, <1>4, PTL DEF Spec

\* The packet rate is that of the packets counted in the seconds of its window:
\* advancing the ring clears the slots of skipped seconds and no others, though
\* a request advances it past a packet that is counted later (metrics.go,
\* rateWindow).
THEOREM RateExact == Spec => []RateIsExact
<1>1. IInv => RateIsExact
  BY DEF IInv, RatesInv, RateOK, RateIsExact
<1>2. QED BY Invariance, <1>1, PTL

-----------------------------------------------------------------------------
\* What TotalsCover compares are numbers, and it is transitive.
LEMMA TotalsTyped ==
    ASSUME CoreInv
    PROVE  /\ \A id \in CounterId : counters[id].unique \in Nat /\ counters[id].observations \in Nat
           /\ \A s \in Scope :
                 /\ batch[s] # NoState => batch[s].unique \in Nat /\ batch[s].observations \in Nat
                 /\ table[s] # NoState => table[s].unique \in Nat /\ table[s].observations \in Nat
BY DEF CoreInv, CountersInv, SavedInv, SavedOK, CounterValue, State

\* No operation on a counter lowers its totals (metrics.go).
LEMMA TotalsGrow ==
    ASSUME NEW c, c.unique \in Nat, c.observations \in Nat, NEW saved,
           TotalsCover(c, saved),
           saved # NoState => saved.unique \in Nat /\ saved.observations \in Nat
    PROVE  /\ \A ev : TotalsCover(Observed(c, ev), saved)
           /\ \A t, w, ttl : c \in CounterValue => TotalsCover(Swept(c, t, w, ttl), saved)
           /\ \A t : c \in CounterValue => TotalsCover(Snapshotted(c, t), saved)
<1>1. \A ev : TotalsCover(Observed(c, ev), saved)
  BY DEF TotalsCover, Observed
<1>2. \A t, w, ttl : c \in CounterValue => TotalsCover(Swept(c, t, w, ttl), saved)
  BY DEF TotalsCover, Swept, CounterValue
<1>3. \A t : c \in CounterValue => TotalsCover(Snapshotted(c, t), saved)
  BY DEF TotalsCover, Snapshotted, CounterValue
<1>4. QED BY <1>1, <1>2, <1>3

\* Packets, requests and sweeps change counters one by one, and only upwards.
LEMMA CountersGrow ==
    ASSUME CoreInv, RoutesInv,
           ObservePacket \/ (Sweep /\ UNCHANGED readerVars)
             \/ \E id \in CounterId : Snapshot(id) /\ UNCHANGED readerVars
    PROVE  /\ UNCHANGED <<batch, table, born, dropped, up, exportTodo>>
           /\ \A id \in CounterId, s \in Scope :
                 /\ TotalsCover(counters[id], batch[s]) => TotalsCover(counters'[id], batch[s])
                 /\ TotalsCover(counters[id], table[s]) => TotalsCover(counters'[id], table[s])
<1> DEFINE StaysCovered(f) ==
              \A id \in CounterId, s \in Scope :
                 /\ TotalsCover(counters[id], batch[s]) => TotalsCover(f[id], batch[s])
                 /\ TotalsCover(counters[id], table[s]) => TotalsCover(f[id], table[s])
<1>1. \A id \in CounterId : /\ counters[id] \in CounterValue
                            /\ counters[id].unique \in Nat /\ counters[id].observations \in Nat
  BY TotalsTyped DEF CoreInv, CountersInv
<1>2. DOMAIN counters = CounterId
  BY DEF CoreInv, CountersInv
<1>3. ASSUME ObservePacket
      PROVE  UNCHANGED <<batch, table, born, dropped, up, exportTodo>> /\ StaysCovered(counters')
  <2> DEFINE k == packet.route[packet.next]
  <2>1. counters' = [counters EXCEPT ![k] = Observed(counters[k], packet.ev)]
    BY <1>3 DEF ObservePacket, ObserveIn
  <2>2. \A id \in CounterId : counters'[id] \in {counters[id], Observed(counters[id], packet.ev)}
    BY <1>2, <2>1
  <2>3. StaysCovered(counters')
    BY <1>1, <2>2, TotalsTyped, TotalsGrow
  <2>4. QED BY <1>3, <2>3 DEF ObservePacket, catalogVars, flushVars
<1>4. ASSUME NEW k \in CounterId, Snapshot(k)
      PROVE  UNCHANGED <<batch, table, born, dropped, up, exportTodo>> /\ StaysCovered(counters')
  <2>1. \A id \in CounterId : counters'[id] \in {counters[id], Snapshotted(counters[id], now)}
    BY <1>2, <1>4 DEF Snapshot
  <2>2. StaysCovered(counters')
    BY <1>1, <2>1, TotalsTyped, TotalsGrow
  <2>3. QED BY <1>4, <2>2 DEF Snapshot, catalogVars, flushVars
<1>5. ASSUME NEW k \in CounterId, SweepCounter(k)
      PROVE  UNCHANGED <<batch, table, born, dropped, up, exportTodo>> /\ StaysCovered(counters')
  <2>1. \A id \in CounterId :
           counters'[id] \in {counters[id], Swept(counters[id], sweepAt, DedupWindow, ObserverTTL)}
    BY <1>2, <1>5 DEF SweepCounter
  <2>2. StaysCovered(counters')
    BY <1>1, <2>1, TotalsTyped, TotalsGrow
  <2>3. QED BY <1>5, <2>2 DEF SweepCounter, catalogVars, flushVars
<1>6. ASSUME SweepStarts
      PROVE  UNCHANGED <<batch, table, born, dropped, up, exportTodo>> /\ StaysCovered(counters')
  BY <1>6 DEF SweepStarts, catalogVars, flushVars, countVars
<1>7. QED BY <1>3, <1>4, <1>5, <1>6 DEF Sweep

\* The counter flush exports and saves rows that cover the table (store.go, Export;
\* db.go).
LEMMA FlushTotals ==
    ASSUME CoreInv, RoutesInv, SavedTotalsInv, Flush
    PROVE  SavedTotalsInv'
<1>0. /\ born \in [Scope -> Gen \cup {NoGen}] /\ exportTodo \in SUBSET CounterId
      /\ batch \in [Scope -> State \cup {NoState}] /\ table \in [Scope -> State \cup {NoState}]
  BY DEF RoutesInv, TypeOK, StoreTypeOK
<1>1. Exposed \subseteq CounterId /\ \A id \in CounterId : id[2] \in Scope
  BY <1>0 DEF Exposed, CounterId
<1>2. \A id \in Exposed : born[id[2]] = id[1] /\ id[1] # NoGen
  BY DEF Exposed
<1>3. CASE ExportStarts
  <2>1. /\ exportTodo' = Exposed /\ up /\ UNCHANGED <<up, born, dropped, counters, batch, table>>
    BY <1>3 DEF ExportStarts, catalogVars, countVars
  <2>2. Exposed' = Exposed
    BY <2>1 DEF Exposed
  <2>3. \A a, b \in Exposed : a[2] = b[2] => a = b
    BY DEF Exposed
  <2>4. QED BY <2>1, <2>2, <2>3 DEF SavedTotalsInv, InStoreOrDropped
<1>4. ASSUME NEW k \in CounterId, ExportCounter(k) PROVE SavedTotalsInv'
  <2>1. /\ k \in exportTodo /\ exportTodo' = exportTodo \ {k}
        /\ batch' = [batch EXCEPT ![k[2]] = Exported(counters[k])]
        /\ UNCHANGED <<up, born, dropped, counters, table>>
    BY <1>4 DEF ExportCounter, NextOf, catalogVars, countVars
  <2>2. Exposed' = Exposed
    BY <2>1 DEF Exposed
  <2>3. /\ Exported(counters[k]).unique = counters[k].unique
        /\ Exported(counters[k]).observations = counters[k].observations
        /\ counters[k].unique \in Nat /\ counters[k].observations \in Nat
    BY TotalsTyped DEF Exported
  <2>4. /\ InStoreOrDropped(k) /\ TotalsCover(counters[k], table[k[2]]) /\ up
        /\ k[2] \in Scope /\ k[1] # NoGen
    BY <1>1, <2>1 DEF SavedTotalsInv, CounterId, Gen, NoGen
  <2>5. ASSUME NEW id \in Exposed \cup exportTodo', id[2] = k[2] PROVE id = k
    <3>1. CASE id \in Exposed
      <4>1. born[k[2]] = id[1] /\ id[1] # NoGen /\ id \in CounterId
        BY <1>1, <1>2, <2>5, <3>1
      <4>2. id[1] = k[1]
        BY <2>4, <4>1 DEF InStoreOrDropped
      <4>3. QED BY <2>5, <4>1, <4>2 DEF CounterId
    <3>2. CASE id \in exportTodo'
      BY <2>1, <2>5, <3>2 DEF SavedTotalsInv
    <3>3. QED BY <3>1, <3>2
  <2>6. \A s \in Scope : batch'[s] = IF s = k[2] THEN Exported(counters[k]) ELSE batch[s]
    BY <1>0, <2>1
  <2>7. ASSUME NEW s \in Scope, batch'[s] # NoState PROVE TotalsCover(batch'[s], table'[s])
    BY <2>1, <2>3, <2>4, <2>6, <2>7 DEF SavedTotalsInv, TotalsCover
  <2>8. ASSUME NEW id \in Exposed' \cup exportTodo'
        PROVE  /\ InStoreOrDropped(id)'
               /\ TotalsCover(counters'[id], batch'[id[2]])
               /\ TotalsCover(counters'[id], table'[id[2]])
    <3>1. id \in Exposed \cup exportTodo /\ id[2] \in Scope
      BY <1>0, <1>1, <2>1, <2>2
    <3>2. InStoreOrDropped(id)' /\ TotalsCover(counters'[id], table'[id[2]])
      BY <2>1, <3>1 DEF SavedTotalsInv, InStoreOrDropped
    <3>3. CASE id[2] = k[2]
      <4>1. id = k
        BY <2>2, <2>5, <3>3
      <4>2. QED BY <2>1, <2>3, <2>6, <3>1, <3>2, <4>1 DEF TotalsCover
    <3>4. CASE id[2] # k[2]
      BY <2>1, <2>6, <3>1, <3>2, <3>4 DEF SavedTotalsInv
    <3>5. QED BY <3>3, <3>4
  <2>9. \A a, b \in exportTodo' : a[2] = b[2] => a = b
    BY <2>1 DEF SavedTotalsInv
  <2>10. \A s \in Scope : batch'[s] # NoState \/ table'[s] # NoState => born'[s] # NoGen \/ s \in dropped'
    BY <2>1, <2>4, <2>6 DEF SavedTotalsInv, InStoreOrDropped
  <2>11. QED BY <2>1, <2>4, <2>7, <2>8, <2>9, <2>10 DEF SavedTotalsInv
<1>5. CASE Save
  <2>1. /\ exportTodo = {} /\ exportTodo' = {} /\ batch' = NoStates
        /\ table' = [s \in Scope |-> IF batch[s] = NoState THEN table[s] ELSE batch[s]]
        /\ UNCHANGED <<up, born, dropped, counters>>
    BY <1>5 DEF Save, catalogVars, countVars
  <2>2. Exposed' = Exposed
    BY <2>1 DEF Exposed
  <2>3. \A s \in Scope : batch'[s] = NoState /\ table'[s] \in {table[s], batch[s]}
                         /\ (table'[s] # NoState => table[s] # NoState \/ batch[s] # NoState)
    BY <2>1 DEF NoStates
  <2>4. \A id \in Exposed : /\ InStoreOrDropped(id)' /\ TotalsCover(counters'[id], batch'[id[2]])
                            /\ TotalsCover(counters'[id], table'[id[2]])
    BY <1>1, <2>1, <2>3 DEF SavedTotalsInv, InStoreOrDropped, TotalsCover
  <2>5. ~up' => Exposed' = {}
    BY <2>1, <2>2 DEF SavedTotalsInv
  <2>6. up' => \A s \in Scope : batch'[s] # NoState \/ table'[s] # NoState =>
                                born'[s] # NoGen \/ s \in dropped'
    BY <2>1, <2>3 DEF SavedTotalsInv
  <2>7. QED BY <2>1, <2>2, <2>3, <2>4, <2>5, <2>6 DEF SavedTotalsInv
<1>6. CASE SaveFails
  <2>1. /\ exportTodo = {} /\ exportTodo' = {} /\ batch' = NoStates
        /\ UNCHANGED <<up, born, dropped, counters, table>>
    BY <1>6 DEF SaveFails, catalogVars, countVars
  <2>2. Exposed' = Exposed /\ \A s \in Scope : batch'[s] = NoState
    BY <2>1 DEF Exposed, NoStates
  <2>3. QED BY <1>1, <2>1, <2>2 DEF SavedTotalsInv, InStoreOrDropped, TotalsCover
<1>7. QED BY <1>3, <1>4, <1>5, <1>6 DEF Flush

\* Every step keeps what is known of the saved totals, while no scope comes back
\* and loads succeed.
LEMMA SavedTotalsStep ==
    ASSUME CoreInv, RoutesInv, SavedTotalsInv, [Next]_vars, ~MayReturn, ~LoadMayFail
    PROVE  SavedTotalsInv'
<1>0. /\ born \in [Scope -> Gen \cup {NoGen}] /\ exportTodo \in SUBSET CounterId /\ gen \in Gen
      /\ batch \in [Scope -> State \cup {NoState}] /\ table \in [Scope -> State \cup {NoState}]
  BY DEF RoutesInv, TypeOK, StoreTypeOK
<1>1. Exposed \subseteq CounterId /\ \A id \in CounterId : id[2] \in Scope
  BY <1>0 DEF Exposed, CounterId
<1>2. CASE Flush
  BY <1>2, FlushTotals
<1>3. CASE ObservePacket \/ (Sweep /\ UNCHANGED readerVars)
             \/ \E id \in CounterId : Snapshot(id) /\ UNCHANGED readerVars
  <2>1. /\ UNCHANGED <<batch, table, born, dropped, up, exportTodo>>
        /\ \A id \in CounterId, s \in Scope :
                 /\ TotalsCover(counters[id], batch[s]) => TotalsCover(counters'[id], batch[s])
                 /\ TotalsCover(counters[id], table[s]) => TotalsCover(counters'[id], table[s])
    BY <1>3, CountersGrow
  <2>2. Exposed' = Exposed
    BY <2>1 DEF Exposed
  <2>3. \A id \in Exposed' \cup exportTodo' : /\ InStoreOrDropped(id)'
                                              /\ TotalsCover(counters'[id], batch'[id[2]])
                                              /\ TotalsCover(counters'[id], table'[id[2]])
    BY <1>0, <1>1, <2>1, <2>2 DEF SavedTotalsInv, InStoreOrDropped
  <2>4. QED BY <2>1, <2>2, <2>3 DEF SavedTotalsInv
<1>4. CASE Updating
  <2>1. PICK c \in Catalog : UpdateNetworks(c)
    BY <1>4 DEF Updating
  <2>2. /\ up /\ MayFollow(c) /\ born' = BornWith(c)
        /\ dropped' = dropped \cup {s \in Scope : born[s] # NoGen /\ s \notin Scopes(c)}
        /\ UNCHANGED <<up, counters, batch, table, exportTodo>>
    BY <2>1 DEF UpdateNetworks, Update, countVars, flushVars
  <2>3. Scopes(c) \cap dropped = {}
    BY <2>2 DEF MayFollow
  <2>4. ASSUME NEW id \in Exposed'
        PROVE  /\ InStoreOrDropped(id)'
               /\ TotalsCover(counters'[id], batch'[id[2]])
               /\ TotalsCover(counters'[id], table'[id[2]])
    <3>1. PICK s \in Scope : id = <<born'[s], s>> /\ born'[s] # NoGen
      BY <2>4 DEF Exposed
    <3>2. s \in Scopes(c) /\ s \notin dropped
      BY <2>2, <2>3, <3>1 DEF BornWith
    <3>3. CASE born[s] # NoGen
      <4>1. born'[s] = born[s] /\ id \in Exposed
        BY <2>2, <3>1, <3>2, <3>3 DEF BornWith, Exposed
      <4>2. QED BY <2>2, <3>1, <4>1 DEF SavedTotalsInv, InStoreOrDropped
    <3>4. CASE born[s] = NoGen
      <4>1. batch[s] = NoState /\ table[s] = NoState
        BY <2>2, <3>2, <3>4 DEF SavedTotalsInv
      <4>2. QED BY <2>2, <3>1, <4>1 DEF TotalsCover, InStoreOrDropped
    <3>5. QED BY <3>3, <3>4
  <2>5. ASSUME NEW id \in exportTodo'
        PROVE  /\ InStoreOrDropped(id)'
               /\ TotalsCover(counters'[id], batch'[id[2]])
               /\ TotalsCover(counters'[id], table'[id[2]])
    <3>1. id \in exportTodo /\ id \in CounterId /\ InStoreOrDropped(id)
      BY <1>0, <2>2 DEF SavedTotalsInv
    <3>2. InStoreOrDropped(id)'
      BY <1>4, <3>1, KeptOrDropped
    <3>3. QED BY <2>2, <3>1, <3>2 DEF SavedTotalsInv
  <2>6. \A s \in Scope : batch'[s] # NoState \/ table'[s] # NoState => born'[s] # NoGen \/ s \in dropped'
    <3>1. \A s \in Scope : born[s] # NoGen => born'[s] # NoGen \/ s \in dropped'
      BY <2>2 DEF BornWith
    <3>2. QED BY <2>2, <3>1 DEF SavedTotalsInv
  <2>7. QED BY <2>2, <2>4, <2>5, <2>6 DEF SavedTotalsInv
<1>5. CASE Starting
  <2>1. PICK c \in Catalog, answer \in Sources, saved \in SavedAtStart : Start(c, answer, saved)
    BY <1>5 DEF Starting
  <2>2. saved = table
    BY DEF SavedAtStart
  <2>3. /\ ~up /\ up' /\ MayFollow(c)
        /\ born' = [s \in Scope |-> IF s \in Scopes(c) THEN 0 ELSE NoGen]
        /\ counters' = [id \in CounterId |->
                      IF id[1] = 0 /\ id[2] \in Scopes(c) /\ table[id[2]] # NoState
                      THEN Restored(newCounter, table[id[2]]) ELSE newCounter]
        /\ dropped' = dropped \cup {s \in Scope : table[s] # NoState /\ s \notin Scopes(c)}
        /\ UNCHANGED <<batch, table, exportTodo>>
    BY <2>1, <2>2 DEF Start, StoreStarts, flushVars
  <2>4. /\ batch' = NoStates /\ exportTodo' = {} /\ 0 # NoGen
        /\ \A s \in Scope : batch'[s] = NoState
    BY <2>3 DEF SavedTotalsInv, NoStates, NoGen
  <2>5. ASSUME NEW id \in Exposed'
        PROVE  /\ InStoreOrDropped(id)'
               /\ TotalsCover(counters'[id], batch'[id[2]])
               /\ TotalsCover(counters'[id], table'[id[2]])
    <3>1. PICK s \in Scope : id = <<born'[s], s>> /\ born'[s] # NoGen
      BY <2>5 DEF Exposed
    <3>2. s \in Scopes(c) /\ id = <<0, s>>
      BY <2>3, <3>1
    <3>3. id \in CounterId
      BY <3>2, BoundsAssumption DEF CounterId, Gen
    <3>4. table[s] # NoState => counters'[id] = Restored(newCounter, table[s])
      BY <2>3, <3>2, <3>3
    <3>5. table[s] # NoState => /\ Restored(newCounter, table[s]).unique = table[s].unique
                                /\ Restored(newCounter, table[s]).observations = table[s].observations
      BY DEF Restored, newCounter
    <3>6. TotalsCover(counters'[id], table'[s])
      BY <2>3, <3>4, <3>5, TotalsTyped DEF TotalsCover
    <3>7. QED BY <2>3, <2>4, <3>1, <3>2, <3>6 DEF TotalsCover, InStoreOrDropped
  <2>6. \A s \in Scope : table'[s] # NoState => born'[s] # NoGen \/ s \in dropped'
    BY <2>3, <2>4
  <2>7. QED BY <2>3, <2>4, <2>5, <2>6 DEF SavedTotalsInv
<1>6. CASE Crash
  <2>1. /\ up' = FALSE /\ born' = [s \in Scope |-> NoGen] /\ exportTodo' = {} /\ batch' = NoStates
    BY <1>6 DEF Crash, StoreCrashes
  <2>2. Exposed' = {} /\ \A s \in Scope : batch'[s] = NoState
    BY <2>1 DEF Exposed, NoStates
  <2>3. QED BY <2>1, <2>2 DEF SavedTotalsInv
<1>7. CASE UNCHANGED <<up, catalogVars, counters, batch, table, exportTodo>>
  <2>1. UNCHANGED <<up, born, dropped, counters, batch, table, exportTodo>>
    BY <1>7 DEF catalogVars
  <2>2. Exposed' = Exposed
    BY <2>1 DEF Exposed
  <2>3. QED BY <2>1, <2>2 DEF SavedTotalsInv, InStoreOrDropped
<1>8. ASSUME Connection \/ Fetching \/ ReadingPacket \/ Tick \/ UNCHANGED vars
      PROVE  UNCHANGED <<up, catalogVars, counters, batch, table, exportTodo>>
  <2> USE DEF storeVars, countVars, flushVars
  <2>1. CASE Connection
    BY <2>1 DEF Connection, Dial, DialFails, MarkAnalyzer, ReadFails, ConnectFailed
  <2>2. CASE Fetching
    BY <2>2 DEF Fetching, Fetch, FetchRoutes, FetchFails, ResolveSource, RefreshRoutes
  <2>3. CASE ReadingPacket
    BY <2>3 DEF ReadingPacket, ReadPacket
  <2>4. CASE Tick
    BY <2>4 DEF Tick
  <2>5. CASE UNCHANGED vars
    BY <2>5 DEF vars
  <2>6. QED BY <1>8, <2>1, <2>2, <2>3, <2>4, <2>5
<1>9. QED
  BY <1>2, <1>3, <1>4, <1>5, <1>6, <1>7, <1>8
     DEF Next, Updating, Starting, Fetching, ReadingPacket

\* Nothing is exported before the first start of the process.
LEMMA InitSavedTotals == Init => SavedTotalsInv
BY DEF Init, StoreInit, SavedTotalsInv, Exposed, NoStates, TotalsCover

\* Only a save changes the table, and the rows it writes cover those there are
\* (db.go).
LEMMA TableStep ==
    ASSUME SavedTotalsInv, CoreInv, RoutesInv, [Next]_vars, NEW s \in Scope, table[s] # NoState
    PROVE  /\ table'[s] # NoState
           /\ table'[s].unique >= table[s].unique
           /\ table'[s].observations >= table[s].observations
<1>1. table[s].unique \in Nat /\ table[s].observations \in Nat
  BY TotalsTyped
<1>2. CASE Save
  <2>1. table'[s] = IF batch[s] = NoState THEN table[s] ELSE batch[s]
    BY <1>2 DEF Save
  <2>2. batch[s] # NoState => TotalsCover(batch[s], table[s])
    BY DEF SavedTotalsInv
  <2>3. QED BY <1>1, <2>1, <2>2 DEF TotalsCover
<1>3. CASE ~Save
  <2> USE <1>3 DEF storeVars
  <2>1. table' = table
    <3>1. CASE Connection
      BY <3>1 DEF Connection, Dial, DialFails, MarkAnalyzer, ReadFails, ConnectFailed
    <3>2. CASE Fetching
      BY <3>2 DEF Fetching, Fetch, FetchRoutes, FetchFails, ResolveSource, RefreshRoutes
    <3>3. CASE Updating \/ Starting \/ ReadingPacket \/ ObservePacket
      BY <3>3 DEF Updating, UpdateNetworks, Update, Starting, Start, StoreStarts, ReadingPacket,
                  ReadPacket, ObservePacket
    <3>4. CASE Sweep \/ Flush
      BY <3>4 DEF Sweep, SweepStarts, SweepCounter, Flush, ExportStarts, ExportCounter, SaveFails
    <3>5. CASE (\E id \in CounterId : Snapshot(id)) \/ Crash \/ Tick \/ UNCHANGED vars
      BY <3>5 DEF Snapshot, Crash, StoreCrashes, Tick, vars
    <3>6. QED
      BY <3>1, <3>2, <3>3, <3>4, <3>5 DEF Next, Updating, Starting, Fetching, ReadingPacket
  <2>2. QED BY <1>1, <2>1
<1>4. QED BY <1>2, <1>3

\* While no scope comes back and loads succeed, saved totals never go back and no
\* saved row disappears, over crashes, failed saves and catalog updates between
\* the steps of an export (store.go, Export; db.go).
THEOREM DurableTotals ==
    ASSUME ~MayReturn, ~LoadMayFail
    PROVE  Spec => DurableTotalsAdvance
<1> DEFINE Advance == \A s \in Scope :
         table[s] # NoState
            => /\ table'[s] # NoState
               /\ table'[s].unique >= table[s].unique
               /\ table'[s].observations >= table[s].observations
           All == CoreInv /\ RoutesInv /\ SavedTotalsInv
<1>1. Init => All
  BY InitCore, InitRoutes, InitSavedTotals
<1>2. All /\ [Next]_vars => All'
  BY StepCore, RoutesStep, SavedTotalsStep
<1>3. All /\ [Next]_vars => [Advance]_vars
  BY TableStep
<1>4. QED BY <1>1, <1>2, <1>3, PTL DEF Spec, DurableTotalsAdvance

=============================================================================
