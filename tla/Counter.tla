------------------------------ MODULE Counter ------------------------------
(***************************************************************************)
(* One traffic counter (metrics.go): the totals of an analyzer or of a     *)
(* whole network, the two dedup layers behind them, the gauges of recently *)
(* heard observers and nodes, and the ring of per-second buckets behind    *)
(* the packet rate.  Every operator is one critical section of Counter.mu, *)
(* as a function of the counter; Store applies them to its counters.       *)
(***************************************************************************)
EXTENDS Integers

CONSTANTS
    Hash,         \* packet content hashes
    Observer,     \* observer ids
    NoObserver,   \* a packet without an observer id
    Node,         \* public keys of nodes
    PayloadType,
    NoType,       \* a packet without a payload type
    RateSecs,     \* rateWindowSecs
    MaxTime       \* bound: the clock

ASSUME ObserverAssumption == Observer \subseteq Node /\ NoObserver \notin Node
ASSUME NoTypeAssumption == NoType \notin PayloadType
ASSUME RateAssumption == RateSecs \in Nat \ {0}
ASSUME MaxTimeAssumption == MaxTime \in Nat \ {0}

Time == 0..MaxTime  \* 0: never

Event == [hash     : Hash,
          observer : Observer \cup {NoObserver},
          nodes    : SUBSET Node,
          type     : PayloadType \cup {NoType},
          at       : Time \ {0}]

ObsKey == (Observer \cup {NoObserver}) \X Hash
Slot   == 0..(RateSecs - 1)

\* rateWindow.
Rate == [buckets : [Slot -> Nat], last : Time, first : Time]

CounterValue ==
    [observations : Nat,
     unique       : Nat,
     types        : [PayloadType -> Nat],
     lastPacket   : Time,
     seenHash     : [Hash -> Time],      \* -> last heard
     seenObs      : [ObsKey -> Time],
     observers    : [Observer -> Time],
     nodes        : [Node -> Time],
     rate         : Rate]

\* CounterState: what is persisted of a counter.
State ==
    [observations : Nat,
     unique       : Nat,
     types        : [PayloadType -> Nat],
     lastPacket   : Time,
     observers    : [Observer -> Time],
     nodes        : [Node -> Time]]

newCounter ==
    [observations |-> 0,
     unique       |-> 0,
     types        |-> [p \in PayloadType |-> 0],
     lastPacket   |-> 0,
     seenHash     |-> [h \in Hash |-> 0],
     seenObs      |-> [k \in ObsKey |-> 0],
     observers    |-> [o \in Observer |-> 0],
     nodes        |-> [n \in Node |-> 0],
     rate         |-> [buckets |-> [s \in Slot |-> 0], last |-> 0, first |-> 0]]

-----------------------------------------------------------------------------
\* Mutant of advance: the slot of the current second is not cleared.
advanceShort(r, now) ==
    IF r.last = 0 THEN [r EXCEPT !.last = now]
    ELSE IF now <= r.last THEN r
    ELSE [r EXCEPT !.buckets = [s \in Slot |->
                                  IF \E t \in (r.last + 1)..(now - 1) : t % RateSecs = s
                                  THEN 0 ELSE @[s]],
                   !.last = now]

\* rateWindow.advance: the slots of the seconds after the last update are
\* cleared, all of them when the gap is as long as the ring.
advance(r, now) ==
    IF r.last = 0 THEN [r EXCEPT !.last = now]
    ELSE IF now <= r.last THEN r
    ELSE [r EXCEPT !.buckets = [s \in Slot |->
                                  IF \/ now - r.last >= RateSecs
                                     \/ \E t \in (r.last + 1)..now : t % RateSecs = s
                                  THEN 0 ELSE @[s]],
                   !.last = now]

add(r, now) ==
    LET a == advance(r, now)
    IN  [buckets |-> [a.buckets EXCEPT ![now % RateSecs] = @ + 1],
         last    |-> a.last,
         first   |-> IF a.first = 0 THEN now ELSE a.first]

-----------------------------------------------------------------------------
\* Mutant of Heard: a dedup entry keeps the time it was first heard.
HeardFirst(last, at) == IF last = 0 THEN at ELSE last

\* A dedup entry heard at a time: it is refreshed.
Heard(last, at) == at

\* Counter.Observe.
Observed(c, ev) ==
    LET key    == <<ev.observer, ev.hash>>
        newObs == c.seenObs[key] = 0
        isNew  == c.seenHash[ev.hash] = 0
        heard  == ev.nodes \cup ({ev.observer} \cap Observer)
    IN  [observations |-> IF newObs THEN c.observations + 1 ELSE c.observations,
         unique       |-> IF isNew THEN c.unique + 1 ELSE c.unique,
         types        |-> [p \in PayloadType |->
                             IF isNew /\ p = ev.type THEN c.types[p] + 1 ELSE c.types[p]],
         lastPacket   |-> ev.at,
         seenHash     |-> [c.seenHash EXCEPT ![ev.hash] = Heard(@, ev.at)],
         seenObs      |-> [c.seenObs EXCEPT ![key] = Heard(@, ev.at)],
         observers    |-> [o \in Observer |->
                             IF o = ev.observer THEN ev.at ELSE c.observers[o]],
         nodes        |-> [n \in Node |-> IF n \in heard THEN ev.at ELSE c.nodes[n]],
         rate         |-> IF isNew THEN add(c.rate, ev.at) ELSE c.rate]

Kept(last, now, ttl) == IF last = 0 \/ now - last > ttl THEN 0 ELSE last

\* Mutant of Swept: nodes are pruned with the dedup entries.
SweptNodesEarly(c, now, dedupWindow, observerTTL) ==
    [c EXCEPT !.seenHash  = [h \in Hash |-> Kept(@[h], now, dedupWindow)],
              !.seenObs   = [k \in ObsKey |-> Kept(@[k], now, dedupWindow)],
              !.observers = [o \in Observer |-> Kept(@[o], now, observerTTL)],
              !.nodes     = [n \in Node |-> Kept(@[n], now, dedupWindow)]]

\* Mutant of Swept: the observations are never forgotten.
SweptHashesOnly(c, now, dedupWindow, observerTTL) ==
    [c EXCEPT !.seenHash  = [h \in Hash |-> Kept(@[h], now, dedupWindow)],
              !.observers = [o \in Observer |-> Kept(@[o], now, observerTTL)],
              !.nodes     = [n \in Node |-> Kept(@[n], now, observerTTL)]]

\* Mutant of Swept: at the window's end an entry is forgotten as an observation
\* and kept as a packet.
SweptUnevenly(c, now, dedupWindow, observerTTL) ==
    [c EXCEPT !.seenHash  = [h \in Hash |-> Kept(@[h], now, dedupWindow + 1)],
              !.seenObs   = [k \in ObsKey |-> Kept(@[k], now, dedupWindow)],
              !.observers = [o \in Observer |-> Kept(@[o], now, observerTTL)],
              !.nodes     = [n \in Node |-> Kept(@[n], now, observerTTL)]]

\* Counter.sweep.
Swept(c, now, dedupWindow, observerTTL) ==
    [c EXCEPT !.seenHash  = [h \in Hash |-> Kept(@[h], now, dedupWindow)],
              !.seenObs   = [k \in ObsKey |-> Kept(@[k], now, dedupWindow)],
              !.observers = [o \in Observer |-> Kept(@[o], now, observerTTL)],
              !.nodes     = [n \in Node |-> Kept(@[n], now, observerTTL)]]

\* Counter.Snapshot: reading the rate advances the ring.
Snapshotted(c, now) == [c EXCEPT !.rate = advance(@, now)]

\* Counter.Export.
Exported(c) ==
    [observations |-> c.observations,
     unique       |-> c.unique,
     types        |-> c.types,
     lastPacket   |-> c.lastPacket,
     observers    |-> c.observers,
     nodes        |-> c.nodes]

\* Mutant of Restored: only the gauges are seeded.
RestoredGauges(c, st) ==
    [c EXCEPT !.observers = [o \in Observer |-> IF @[o] = 0 THEN st.observers[o] ELSE @[o]],
              !.nodes     = [n \in Node |-> IF st.nodes[n] # 0 THEN st.nodes[n] ELSE @[n]]]

\* Counter.Restore, on a counter that is still empty: the dedup maps and the
\* rate are not persisted.
Restored(c, st) ==
    [c EXCEPT !.observations = st.observations,
              !.unique       = st.unique,
              !.types        = st.types,
              !.lastPacket   = IF st.lastPacket > @ THEN st.lastPacket ELSE @,
              !.observers    = [o \in Observer |-> IF @[o] = 0 THEN st.observers[o] ELSE @[o]],
              !.nodes        = [n \in Node |-> IF st.nodes[n] # 0 THEN st.nodes[n] ELSE @[n]]]

-----------------------------------------------------------------------------
\* A packet counted as unique was counted as an observation, and a payload type
\* counts unique packets only.
TotalsOK(v) ==
    /\ v.unique <= v.observations
    /\ \A p \in PayloadType : v.types[p] <= v.unique

\* A hash is remembered exactly as long as the latest of its observations.
DedupOK(c) ==
    \A h \in Hash :
        /\ \A k \in ObsKey : k[2] = h => c.seenObs[k] <= c.seenHash[h]
        /\ c.seenHash[h] # 0 => \E k \in ObsKey : k[2] = h /\ c.seenObs[k] = c.seenHash[h]

\* An observer that is remembered is a node that is remembered.
GaugesOK(v) == \A o \in Observer : v.observers[o] <= v.nodes[o]

\* Nothing was heard after a time.
HeardUpTo(v, t) == \A o \in Observer : v.observers[o] <= t
SeenUpTo(c, t) ==
    /\ HeardUpTo(c, t)
    /\ \A h \in Hash : c.seenHash[h] <= t

\* A counter, and a saved counter, that heard up to a time.
CounterOK(c, t) == /\ c \in CounterValue
                   /\ TotalsOK(c)
                   /\ DedupOK(c)
                   /\ GaugesOK(c)
                   /\ SeenUpTo(c, t)

StateOK(v, t) == /\ v \in State
                 /\ TotalsOK(v)
                 /\ GaugesOK(v)
                 /\ HeardUpTo(v, t)
=============================================================================
