------------------------- MODULE LinkRegistryProofs -------------------------
(***************************************************************************)
(* Proofs about the link registry, for any nodes, paths, networks, window  *)
(* and bounds: its inductive invariant, that the directions of every tally *)
(* sum to its count, that networks and segments account for every event,   *)
(* that a packet is counted once per window, and the refinement of rows.   *)
(***************************************************************************)
EXTENDS LinkRegistry, FoldLemmas

-----------------------------------------------------------------------------
(* Tallies.                                                                *)

\* A hop is on one link (links.go, canonicalKey).
LEMMA KeyType == ASSUME NEW hop \in Hop PROVE canonicalKey(hop) \in Link
<1>1. PICK a \in Node, b \in Node : hop = <<a, b>>
  BY DEF Hop
<1>2. a # b /\ a \in Nat /\ b \in Nat
  BY <1>1, NodeAssumption DEF Hop
<1>3. CASE a < b
  BY <1>1, <1>2, <1>3 DEF canonicalKey, Link, Hop
<1>4. CASE ~(a < b)
  <2>1. b < a /\ canonicalKey(hop) = <<b, a>>
    BY <1>1, <1>2, <1>4 DEF canonicalKey
  <2>2. QED BY <2>1, <1>2 DEF Link, Hop
<1>5. QED BY <1>3, <1>4

\* Times are natural numbers, and 0 and the clock's values are times.
LEMMA TimeIsNat == Time \subseteq Nat /\ 0 \in Time
BY NatAssumption DEF Time

\* One more event is one more of its direction (links.go, observeLink).
LEMMA CountedIs ==
    ASSUME NEW t \in Tally, NEW hop, NEW low \in BOOLEAN
    PROVE  LET c == Counted(t, hop, low) IN
           /\ c \in Tally
           /\ c.count = t.count + 1 /\ c.first = t.first /\ c.last = t.last
           /\ TallyOK(t) => TallyOK(c)
<1>1. /\ t.count \in Nat /\ t.ab \in Nat /\ t.ba \in Nat /\ t.low \in Nat
      /\ t.first \in Time /\ t.last \in Time
  BY DEF Tally
<1> DEFINE c == Counted(t, hop, low)
<1>2. /\ c.count = t.count + 1 /\ c.first = t.first /\ c.last = t.last
      /\ c.ab = IF fromIsA(hop) THEN t.ab + 1 ELSE t.ab
      /\ c.ba = IF fromIsA(hop) THEN t.ba ELSE t.ba + 1
      /\ c.low = IF low THEN t.low + 1 ELSE t.low
  <2>1. c.count = t.count + 1 /\ c.first = t.first /\ c.last = t.last
    BY DEF Counted, Tally
  <2>2. c.ab = IF fromIsA(hop) THEN t.ab + 1 ELSE t.ab
    BY DEF Counted, Tally
  <2>3. c.ba = IF fromIsA(hop) THEN t.ba ELSE t.ba + 1
    BY DEF Counted, Tally
  <2>4. c.low = IF low THEN t.low + 1 ELSE t.low
    <3>1. CASE low = TRUE
      BY <3>1 DEF Counted, Tally
    <3>2. CASE low = FALSE
      BY <3>2 DEF Counted, Tally
    <3>3. QED BY <3>1, <3>2
  <2>5. QED BY <2>1, <2>2, <2>3, <2>4
<1>3. c \in Tally
  <2>1. ASSUME NEW n \in Nat, NEW x \in Nat, NEW y \in Nat, NEW z \in Nat
        PROVE  [t EXCEPT !.count = n, !.ab = x, !.ba = y, !.low = z] \in Tally
    BY DEF Tally
  <2> DEFINE ab  == IF fromIsA(hop) THEN t.ab + 1 ELSE t.ab
             ba  == IF fromIsA(hop) THEN t.ba ELSE t.ba + 1
             lows == IF low THEN t.low + 1 ELSE t.low
  <2>2. t.count + 1 \in Nat /\ ab \in Nat /\ ba \in Nat /\ lows \in Nat
    BY <1>1
  <2>3. c = [t EXCEPT !.count = t.count + 1, !.ab = ab, !.ba = ba, !.low = lows]
    BY DEF Counted
  <2> HIDE DEF c, ab, ba, lows
  <2>4. QED BY <2>1, <2>2, <2>3
<1> HIDE DEF c
<1>4. /\ c.count = t.count + 1 /\ c.first = t.first /\ c.last = t.last
      /\ c.ab + c.ba = t.ab + t.ba + 1
      /\ c.low = t.low \/ c.low = t.low + 1
  BY <1>1, <1>2
<1>5. TallyOK(t) => TallyOK(c)
  BY <1>1, <1>4 DEF TallyOK
<1>6. QED BY <1>3, <1>4, <1>5 DEF c

\* A network that is heard counts the event if it is new to it (links.go,
\* addNetwork and countNetwork).
LEMMA HeardOnIs ==
    ASSUME NEW t \in Tally, NEW hop, NEW low \in BOOLEAN, NEW at \in Time, NEW isNew \in BOOLEAN
    PROVE  LET c == HeardOn(t, hop, low, at, isNew) IN
           /\ c \in Tally
           /\ c.count = IF isNew THEN t.count + 1 ELSE t.count
           /\ c.first = IF t.last = 0 THEN at ELSE t.first
           /\ c.last = at
           /\ TallyOK(t) => TallyOK(c)
<1> DEFINE s == [t EXCEPT !.first = IF t.last = 0 THEN at ELSE @, !.last = at]
<1>1. /\ s \in Tally
      /\ s.count = t.count /\ s.ab = t.ab /\ s.ba = t.ba /\ s.low = t.low
      /\ s.first = (IF t.last = 0 THEN at ELSE t.first) /\ s.last = at
  BY DEF Tally
<1>2. TallyOK(t) => TallyOK(s)
  BY <1>1 DEF TallyOK
<1>3. HeardOn(t, hop, low, at, isNew) = IF isNew THEN Counted(s, hop, low) ELSE s
  BY DEF HeardOn
<1> HIDE DEF s
<1>4. QED BY <1>1, <1>2, <1>3, CountedIs

\* Merging adds the counts and widens the times (links.go, mergeNetwork).
LEMMA MergeTallyIs ==
    ASSUME NEW t \in Tally, NEW s \in Tally
    PROVE  LET m == MergeTally(t, s) IN
           /\ m \in Tally
           /\ m.count = t.count + s.count
           /\ m.last \in {t.last, s.last} /\ t.last <= m.last /\ s.last <= m.last
           /\ TallyOK(t) /\ TallyOK(s) => TallyOK(m)
           /\ m.first \in {t.first, s.first}
           /\ t.first # 0 => m.first <= t.first
           /\ s.first # 0 => m.first <= s.first
<1>1. /\ t.count \in Nat /\ t.ab \in Nat /\ t.ba \in Nat /\ t.low \in Nat
      /\ t.first \in Time /\ t.last \in Time
      /\ s.count \in Nat /\ s.ab \in Nat /\ s.ba \in Nat /\ s.low \in Nat
      /\ s.first \in Time /\ s.last \in Time
  BY DEF Tally
<1>2. t.first \in Nat /\ t.last \in Nat /\ s.first \in Nat /\ s.last \in Nat
  BY <1>1, TimeIsNat
<1> DEFINE m == MergeTally(t, s)
<1>3. /\ m.count = t.count + s.count /\ m.ab = t.ab + s.ab /\ m.ba = t.ba + s.ba
      /\ m.low = t.low + s.low
      /\ m.first = IF t.first = 0 \/ (s.first > 0 /\ s.first < t.first) THEN s.first ELSE t.first
      /\ m.last = IF t.last > s.last THEN t.last ELSE s.last
      /\ m = [count |-> m.count, ab |-> m.ab, ba |-> m.ba, low |-> m.low,
              first |-> m.first, last |-> m.last]
  BY DEF MergeTally, Greatest
<1> HIDE DEF m
<1>4. m \in Tally
  BY <1>1, <1>3 DEF Tally
<1>5. TallyOK(t) /\ TallyOK(s) => TallyOK(m)
  BY <1>1, <1>3 DEF TallyOK
<1>6. /\ m.last \in {t.last, s.last} /\ t.last <= m.last /\ s.last <= m.last
      /\ m.first \in {t.first, s.first}
      /\ t.first # 0 => m.first <= t.first
      /\ s.first # 0 => m.first <= s.first
  BY <1>2, <1>3
<1>7. QED BY <1>3, <1>4, <1>5, <1>6 DEF m

\* The upsert keeps the new counts and widens the times (db.go, SaveLinks).
LEMMA UpsertTallyIs ==
    ASSUME NEW t \in Tally, NEW s \in Tally
    PROVE  LET m == UpsertTally(s, t) IN
           /\ m \in Tally
           /\ m.count = t.count
           /\ m.last \in {t.last, s.last} /\ t.last <= m.last
           /\ TallyOK(t) => TallyOK(m)
           /\ Covers(t, s) => m.last = t.last /\ (t.first # 0 => m.first = t.first)
           /\ m.first <= t.first
<1>1. /\ t.count \in Nat /\ t.ab \in Nat /\ t.ba \in Nat /\ t.low \in Nat
      /\ t.first \in Time /\ t.last \in Time
      /\ s.first \in Time /\ s.last \in Time
  BY DEF Tally
<1>2. t.first \in Nat /\ t.last \in Nat /\ s.first \in Nat /\ s.last \in Nat
  BY <1>1, TimeIsNat
<1> DEFINE m == UpsertTally(s, t)
<1>3. /\ m.count = t.count /\ m.ab = t.ab /\ m.ba = t.ba /\ m.low = t.low
      /\ m.first = IF s.first = 0 THEN t.first
                   ELSE IF t.first < s.first THEN t.first ELSE s.first
      /\ m.last = IF t.last > s.last THEN t.last ELSE s.last
  BY DEF UpsertTally, Greatest, Least, Tally
<1>4. m \in Tally
  BY <1>1 DEF UpsertTally, Greatest, Least, Tally
<1> HIDE DEF m
<1>5. TallyOK(t) => TallyOK(m)
  BY <1>1, <1>3 DEF TallyOK
<1>6. /\ m.last \in {t.last, s.last} /\ t.last <= m.last /\ m.first <= t.first
      /\ Covers(t, s) => m.last = t.last /\ (t.first # 0 => m.first = t.first)
  BY <1>2, <1>3 DEF Covers
<1>7. QED BY <1>3, <1>4, <1>5, <1>6 DEF m

-----------------------------------------------------------------------------
(* Records.                                                                *)

\* A link heard for the first time (links.go, observeLink).
LEMMA NewRecordIs ==
    ASSUME NEW t \in Time
    PROVE  LET r == NewRecord(t) IN
           /\ r \in Record
           /\ r.tally.count = 0 /\ r.tally.last = 0
           /\ \A n \in NetworkID : r.networks[n] = ZeroTally
           /\ r.sources = [x \in RouteType |-> 0]
           /\ r.live.at = NoPos /\ r.live.count = 0 /\ r.segments = <<>>
           /\ RecordOK(r)
<1> DEFINE r == NewRecord(t)
<1>1. ZeroTally \in Tally /\ TallyOK(ZeroTally)
  BY TimeIsNat DEF ZeroTally, Tally, TallyOK
<1>2. /\ r.tally = [ZeroTally EXCEPT !.first = t]
      /\ r.networks = [n \in NetworkID |-> ZeroTally]
      /\ r.sources = [x \in RouteType |-> 0]
      /\ r.live = [at |-> NoPos, first |-> 0, count |-> 0]
      /\ r.segments = <<>>
      /\ r = [tally |-> r.tally, networks |-> r.networks, sources |-> r.sources,
              live |-> r.live, segments |-> r.segments]
  BY DEF NewRecord
<1> HIDE DEF r
<1>3. /\ r.tally \in Tally /\ r.tally.count = 0 /\ r.tally.last = 0 /\ TallyOK(r.tally)
  BY <1>1, <1>2, TimeIsNat DEF ZeroTally, Tally, TallyOK
<1>4. r.live \in [at : Geo, first : Time, count : Nat]
  BY <1>2, TimeIsNat DEF Geo
<1>5. r.networks \in [NetworkID -> Tally] /\ r.sources \in [RouteType -> Nat]
      /\ r.segments \in Seq(Segment)
  BY <1>1, <1>2
<1>6. r \in Record
  BY <1>2, <1>3, <1>4, <1>5 DEF Record
<1>7. QED BY <1>1, <1>2, <1>3, <1>6 DEF RecordOK, r

\* How a link is where it was heard at time t at positions g (links.go,
\* updatePosition): as before if they are unknown, ...
Located(o, n, g, t) ==
    \/ g = NoPos /\ n.live = o.live /\ n.segments = o.segments
    \* ... for the first time, ...
    \/ /\ g # NoPos /\ o.live.at = NoPos
       /\ n.live = Opened(g, t) /\ n.segments = o.segments
    \* ... after a move, ...
    \/ /\ g # NoPos /\ o.live.at # NoPos /\ Moved(o.live.at, g)
       /\ n.live = Opened(g, t) /\ n.segments = Append(o.segments, Frozen(o))
    \* ... or where it was.
    \/ /\ g # NoPos /\ o.live.at # NoPos
       /\ n.live = [o.live EXCEPT !.count = @ + 1] /\ n.segments = o.segments

\* Geometry does not touch the counters (links.go, updatePosition).
LEMMA PositionIs ==
    ASSUME NEW rec \in Record, NEW g \in Geo, NEW t \in Time
    PROVE  LET r == updatePosition(rec, g, t) IN
           /\ r \in Record
           /\ r.tally = rec.tally /\ r.networks = rec.networks /\ r.sources = rec.sources
           /\ g # NoPos => Located(rec, r, g, t)
<1> DEFINE Live == [at : Geo, first : Time, count : Nat]
<1>1. /\ rec.tally \in Tally /\ rec.live \in Live /\ rec.segments \in Seq(Segment)
  BY DEF Record
<1>2. Opened(g, t) \in Live
  BY DEF Opened
<1>3. Frozen(rec) \in Segment
  BY <1>1 DEF Frozen, Segment, Tally
<1>4. Append(rec.segments, Frozen(rec)) \in Seq(Segment)
  BY <1>1, <1>3
<1>5. [rec.live EXCEPT !.count = @ + 1] \in Live
  BY <1>1
<1>6. ASSUME NEW live \in Live, NEW segments \in Seq(Segment)
      PROVE  LET r == [rec EXCEPT !.segments = segments, !.live = live] IN
             /\ r \in Record
             /\ r.tally = rec.tally /\ r.networks = rec.networks /\ r.sources = rec.sources
             /\ r.live = live /\ r.segments = segments
  BY DEF Record
<1>7. ASSUME NEW live \in Live
      PROVE  LET r == [rec EXCEPT !.live = live] IN
             /\ r \in Record
             /\ r.tally = rec.tally /\ r.networks = rec.networks /\ r.sources = rec.sources
             /\ r.live = live /\ r.segments = rec.segments
  BY DEF Record
<1>8. [rec EXCEPT !.live.count = @ + 1] = [rec EXCEPT !.live = [rec.live EXCEPT !.count = @ + 1]]
  BY DEF Record
<1> HIDE DEF Live
<1>9. CASE rec.live.at = NoPos
  BY <1>2, <1>7, <1>9 DEF updatePosition, Located
<1>10. CASE rec.live.at # NoPos /\ Moved(rec.live.at, g)
  BY <1>2, <1>4, <1>6, <1>10 DEF updatePosition, Located
<1>11. CASE rec.live.at # NoPos /\ ~Moved(rec.live.at, g)
  BY <1>5, <1>7, <1>8, <1>11 DEF updatePosition, Located
<1>12. QED BY <1>9, <1>10, <1>11

\* A counted event (links.go, observeLink).
LEMMA AdvanceIs ==
    ASSUME NEW rec \in Record, NEW hop, NEW g \in Geo, NEW kind \in Kind, NEW t \in Time
    PROVE  LET r == Advance(rec, hop, g, kind, t) IN
           /\ r \in Record
           /\ r.networks = rec.networks
           /\ r.sources = [rec.sources EXCEPT ![kind[1]] = @ + 1]
           /\ Located(rec, r, g, t)
           /\ r.tally.count = rec.tally.count + 1
           /\ r.tally.first = rec.tally.first /\ r.tally.last = t
           /\ TallyOK(rec.tally) => TallyOK(r.tally)
<1>1. kind[1] \in RouteType /\ kind[2] \in BOOLEAN
  BY KindAssumption
<1> DEFINE placed == IF g = NoPos THEN rec ELSE updatePosition(rec, g, t)
           tally  == [Counted(rec.tally, hop, kind[2]) EXCEPT !.last = t]
           r      == Advance(rec, hop, g, kind, t)
<1>2. /\ placed \in Record
      /\ placed.tally = rec.tally /\ placed.networks = rec.networks
      /\ placed.sources = rec.sources
      /\ Located(rec, placed, g, t)
  BY PositionIs DEF Located
<1>3. Counted(rec.tally, hop, kind[2]) \in Tally /\ rec.tally \in Tally
  BY <1>1, CountedIs DEF Record
<1>4. /\ tally \in Tally /\ tally.last = t
      /\ tally.count = Counted(rec.tally, hop, kind[2]).count
      /\ tally.first = Counted(rec.tally, hop, kind[2]).first
      /\ TallyOK(Counted(rec.tally, hop, kind[2])) => TallyOK(tally)
  BY <1>3 DEF Tally, TallyOK
<1>5. r = [placed EXCEPT !.tally = [Counted(placed.tally, hop, kind[2]) EXCEPT !.last = t],
                         !.sources = [placed.sources EXCEPT ![kind[1]] = @ + 1]]
  BY <1>2 DEF Advance, Record
<1> HIDE DEF placed
<1>6. r = [placed EXCEPT !.tally = tally,
                         !.sources = [placed.sources EXCEPT ![kind[1]] = @ + 1]]
  BY <1>2, <1>5
<1>7. [placed.sources EXCEPT ![kind[1]] = @ + 1] \in [RouteType -> Nat]
  BY <1>1, <1>2 DEF Record
<1> HIDE DEF tally, r
<1>8. /\ r \in Record /\ r.networks = placed.networks /\ r.tally = tally
      /\ r.sources = [placed.sources EXCEPT ![kind[1]] = @ + 1]
      /\ r.live = placed.live /\ r.segments = placed.segments
  BY <1>2, <1>4, <1>6, <1>7 DEF Record
<1>9. Located(rec, r, g, t)
  BY <1>2, <1>8 DEF Located
<1>10. QED BY <1>1, <1>2, <1>3, <1>4, <1>8, <1>9, CountedIs DEF r

-----------------------------------------------------------------------------
(* The next hop of the packet's path.                                      *)

next  == canonicalKey(Head(hops))
entry == <<Head(hops), packet.hash>>
netEntry == <<Head(hops), packet.hash, packet.net>>

Old   == IF links[next] = NoLink THEN NewRecord(packet.at) ELSE links[next]
Heard == [Old EXCEPT !.networks[packet.net] =
            HeardOn(@, Head(hops), packet.kind[2], packet.at, netDedup[netEntry] = 0)]
New   == IF dedup[entry] # 0 THEN Heard
         ELSE Advance(Heard, Head(hops), Positions(Head(hops)), packet.kind, packet.at)

\* What observeLink makes of the record of the link (links.go, observeLink).
LEMMA ObserveLinkIs ==
    ASSUME TypeOK, ObserveLink
    PROVE  /\ hops # <<>> /\ packet \in Packet /\ Head(hops) \in Hop /\ next \in Link
           /\ Old \in Record /\ New \in Record
           /\ links' = [links EXCEPT ![next] = New]
           /\ RecordOK(Old) => RecordOK(New)
           /\ New.tally.count = IF dedup[entry] # 0 THEN Old.tally.count
                                ELSE Old.tally.count + 1
           /\ New.tally.first = Old.tally.first
           /\ New.tally.last = IF dedup[entry] # 0 THEN Old.tally.last ELSE packet.at
           /\ \A n \in NetworkID \ {packet.net} : New.networks[n] = Old.networks[n]
           /\ LET o == Old.networks[packet.net]
                  m == New.networks[packet.net] IN
              /\ m.count = IF netDedup[netEntry] = 0 THEN o.count + 1 ELSE o.count
              /\ m.first = IF o.last = 0 THEN packet.at ELSE o.first
              /\ m.last = packet.at
           /\ IF dedup[entry] # 0
              THEN New.sources = Old.sources /\ New.live = Old.live /\ New.segments = Old.segments
              ELSE /\ New.sources = [Old.sources EXCEPT ![packet.kind[1]] = @ + 1]
                   /\ Located(Old, New, Positions(Head(hops)), packet.at)
           /\ Positions(Head(hops)) \in Geo
<1>1. hops # <<>> /\ hops \in Seq(Hop) /\ packet \in Packet
  BY DEF ObserveLink, TypeOK
<1>2. Head(hops) \in Hop
  BY <1>1
<1>3. next \in Link
  BY <1>2, KeyType DEF next
<1>4. /\ packet.at \in Time /\ packet.net \in NetworkID /\ packet.hash \in Hash
      /\ packet.kind \in Kind /\ packet.kind[2] \in BOOLEAN
  BY <1>1, KindAssumption DEF Packet
<1>5. Old \in Record
  BY <1>3, <1>4, NewRecordIs DEF Old, TypeOK
<1>6. Positions(Head(hops)) \in Geo
  <2>1. PICK a \in Node, b \in Node : next = <<a, b>>
    BY <1>3 DEF Link, Hop
  <2>2. place[a] \in Position \cup {NoPos} /\ place[b] \in Position \cup {NoPos}
    BY <2>1 DEF TypeOK
  <2>3. Positions(Head(hops)) = IF place[a] = NoPos \/ place[b] = NoPos
                                THEN NoPos ELSE <<place[a], place[b]>>
    BY <2>1 DEF Positions, next
  <2>4. QED BY <2>2, <2>3 DEF Geo
<1> DEFINE o == Old.networks[packet.net]
           isNew == netDedup[netEntry] = 0
           m == HeardOn(o, Head(hops), packet.kind[2], packet.at, isNew)
<1>7. o \in Tally /\ isNew \in BOOLEAN
  BY <1>4, <1>5 DEF Record
<1> HIDE DEF o, isNew
<1>8. /\ m \in Tally
      /\ m.count = IF isNew THEN o.count + 1 ELSE o.count
      /\ m.first = IF o.last = 0 THEN packet.at ELSE o.first
      /\ m.last = packet.at
      /\ TallyOK(o) => TallyOK(m)
  BY <1>4, <1>7, HeardOnIs
<1>9. Heard = [Old EXCEPT !.networks = [Old.networks EXCEPT ![packet.net] = m]]
  BY <1>5 DEF Heard, Record, o, isNew
<1> HIDE DEF m
<1>10. /\ Heard \in Record
       /\ Heard.tally = Old.tally /\ Heard.sources = Old.sources
       /\ Heard.live = Old.live /\ Heard.segments = Old.segments
       /\ Heard.networks = [Old.networks EXCEPT ![packet.net] = m]
  BY <1>4, <1>5, <1>8, <1>9 DEF Record
<1>11. /\ New \in Record
       /\ New.networks = Heard.networks
       /\ New.tally.count = IF dedup[entry] # 0 THEN Old.tally.count ELSE Old.tally.count + 1
       /\ New.tally.first = Old.tally.first
       /\ New.tally.last = IF dedup[entry] # 0 THEN Old.tally.last ELSE packet.at
       /\ TallyOK(Old.tally) => TallyOK(New.tally)
       /\ IF dedup[entry] # 0
          THEN New.sources = Old.sources /\ New.live = Old.live /\ New.segments = Old.segments
          ELSE /\ New.sources = [Old.sources EXCEPT ![packet.kind[1]] = @ + 1]
               /\ Located(Heard, New, Positions(Head(hops)), packet.at)
  <2>1. CASE dedup[entry] # 0
    BY <2>1, <1>10 DEF New
  <2>2. CASE dedup[entry] = 0
    BY <2>2, <1>10, <1>4, <1>6, AdvanceIs DEF New
  <2>3. QED BY <2>1, <2>2
<1>12. links' = [links EXCEPT ![next] = New]
  BY DEF ObserveLink, New, Heard, Old, next, entry, netEntry
<1>13. /\ New.networks[packet.net] = m
       /\ \A n \in NetworkID \ {packet.net} : New.networks[n] = Old.networks[n]
  BY <1>4, <1>5, <1>10, <1>11 DEF Record
<1>14. RecordOK(Old) => RecordOK(New)
  BY <1>4, <1>8, <1>10, <1>11, <1>13 DEF RecordOK, o
<1>15. Located(Heard, New, Positions(Head(hops)), packet.at)
         => Located(Old, New, Positions(Head(hops)), packet.at)
  BY <1>10 DEF Located, Frozen
<1>16. QED BY <1>1, <1>2, <1>3, <1>5, <1>6, <1>8, <1>11, <1>12, <1>13, <1>14, <1>15 DEF o, isNew

-----------------------------------------------------------------------------
(* Merged and saved records.                                               *)

\* A live link that was persisted too (links.go, mergeRestoredLink).
LEMMA MergeIs ==
    ASSUME NEW rec \in Record, NEW saved \in Record
    PROVE  LET r == mergeRestoredLink(rec, saved) IN
           /\ r \in Record
           /\ r.tally = MergeTally(rec.tally, saved.tally)
           /\ \A n \in NetworkID : r.networks[n] = MergeTally(rec.networks[n], saved.networks[n])
           /\ RecordOK(rec) /\ RecordOK(saved) => RecordOK(r)
<1> DEFINE r == mergeRestoredLink(rec, saved)
           Live == [at : Geo, first : Time, count : Nat]
           open == IF rec.live.at # NoPos /\ saved.live.at # NoPos
                   THEN <<Frozen(saved)>> ELSE <<>>
<1>1. \A x \in {rec, saved} :
         /\ x.tally \in Tally /\ x.networks \in [NetworkID -> Tally]
         /\ x.sources \in [RouteType -> Nat] /\ x.live \in Live /\ x.segments \in Seq(Segment)
  BY DEF Record
<1>2. /\ r.tally = MergeTally(rec.tally, saved.tally)
      /\ r.networks = [n \in NetworkID |-> MergeTally(rec.networks[n], saved.networks[n])]
      /\ r.sources = [x \in RouteType |-> rec.sources[x] + saved.sources[x]]
      /\ r.live = IF rec.live.at = NoPos THEN saved.live ELSE rec.live
      /\ r.segments = rec.segments \o saved.segments \o open
      /\ r = [tally |-> r.tally, networks |-> r.networks, sources |-> r.sources,
              live |-> r.live, segments |-> r.segments]
  BY DEF mergeRestoredLink
<1>3. Frozen(saved) \in Segment
  BY <1>1 DEF Frozen, Segment, Tally
<1>4. open \in Seq(Segment)
  BY <1>3
<1> HIDE DEF r, open, Live
<1>5. r.segments \in Seq(Segment)
  BY <1>1, <1>2, <1>4
<1>6. r.tally \in Tally /\ r.networks \in [NetworkID -> Tally]
  BY <1>1, <1>2, MergeTallyIs
<1>7. r.sources \in [RouteType -> Nat]
  BY <1>1, <1>2
<1>8. r \in Record
  <2>1. r.live \in Live
    BY <1>1, <1>2
  <2>2. QED BY <2>1, <1>2, <1>5, <1>6, <1>7 DEF Record, Live
<1>9. \A n \in NetworkID : r.networks[n] = MergeTally(rec.networks[n], saved.networks[n])
  BY <1>2
<1>10. RecordOK(rec) /\ RecordOK(saved) => RecordOK(r)
  <2> SUFFICES ASSUME RecordOK(rec), RecordOK(saved) PROVE RecordOK(r)
    OBVIOUS
  <2>1. TallyOK(r.tally)
    BY <1>1, <1>2, MergeTallyIs DEF RecordOK
  <2>2. ASSUME NEW n \in NetworkID PROVE TallyOK(r.networks[n])
    <3>1. rec.networks[n] \in Tally /\ saved.networks[n] \in Tally
      BY <1>1
    <3>2. TallyOK(rec.networks[n]) /\ TallyOK(saved.networks[n])
      BY DEF RecordOK
    <3>3. QED BY <3>1, <3>2, <1>9, MergeTallyIs
  <2>3. QED BY <2>1, <2>2 DEF RecordOK
<1>11. QED BY <1>2, <1>8, <1>9, <1>10 DEF r

\* Its routes and segments (links.go, mergeRestoredLink).
LEMMA MergeKeeps ==
    ASSUME NEW rec \in Record, NEW saved \in Record
    PROVE  LET r == mergeRestoredLink(rec, saved) IN
           /\ r.sources = [x \in RouteType |-> rec.sources[x] + saved.sources[x]]
           /\ r.live = IF rec.live.at = NoPos THEN saved.live ELSE rec.live
           /\ r.segments = rec.segments \o saved.segments \o
                             IF rec.live.at # NoPos /\ saved.live.at # NoPos
                             THEN <<Frozen(saved)>> ELSE <<>>
BY DEF mergeRestoredLink

\* A restored row (links.go, Restore).
LEMMA RestoredIs ==
    ASSUME NEW rec \in Record \cup {NoLink}, NEW saved \in Record \cup {NoLink}
    PROVE  LET r == Restored(rec, saved) IN
           /\ r \in Record \cup {NoLink}
           /\ r = NoLink <=> rec = NoLink /\ saved = NoLink
           /\ (rec # NoLink => RecordOK(rec)) /\ (saved # NoLink => RecordOK(saved)) =>
                 (r # NoLink => RecordOK(r))
BY MergeIs, NoLinkAssumption DEF Restored

\* What saving a row makes of the row of the table (db.go, SaveLinks).
LEMMA UpsertIs ==
    ASSUME NEW old \in Record \cup {NoLink}, NEW new \in Record \cup {NoLink}
    PROVE  LET r == UpsertLink(old, new) IN
           /\ r \in Record \cup {NoLink}
           /\ r = NoLink <=> old = NoLink /\ new = NoLink
           /\ (old # NoLink => RecordOK(old)) /\ (new # NoLink => RecordOK(new)) =>
                 (r # NoLink => RecordOK(r))
           /\ old # NoLink /\ new # NoLink =>
                 /\ r.sources = new.sources /\ r.live = new.live
                 /\ r.segments = new.segments
                 /\ r.tally = UpsertTally(old.tally, new.tally)
                 /\ \A n \in NetworkID :
                       r.networks[n] = IF new.networks[n].count = 0 THEN old.networks[n]
                                       ELSE UpsertTally(old.networks[n], new.networks[n])
<1> DEFINE r == UpsertLink(old, new)
<1>1. CASE new = NoLink
  BY <1>1 DEF UpsertLink
<1>2. CASE new # NoLink /\ old = NoLink
  BY <1>2 DEF UpsertLink
<1>3. CASE new # NoLink /\ old # NoLink
  <2> DEFINE tally == UpsertTally(old.tally, new.tally)
             nets == [n \in NetworkID |-> IF new.networks[n].count = 0 THEN old.networks[n]
                                          ELSE UpsertTally(old.networks[n], new.networks[n])]
  <2>1. /\ old \in Record /\ new \in Record
        /\ old.tally \in Tally /\ new.tally \in Tally
        /\ \A n \in NetworkID : old.networks[n] \in Tally /\ new.networks[n] \in Tally
    BY <1>3 DEF Record
  <2>2. tally \in Tally /\ (TallyOK(new.tally) => TallyOK(tally))
    BY <2>1, UpsertTallyIs
  <2>3. ASSUME NEW n \in NetworkID
        PROVE  /\ nets[n] \in Tally
               /\ TallyOK(old.networks[n]) /\ TallyOK(new.networks[n]) => TallyOK(nets[n])
    BY <2>1, UpsertTallyIs
  <2>4. nets \in [NetworkID -> Tally]
    BY <2>3
  <2>5. r = [new EXCEPT !.tally = tally, !.networks = nets]
    BY <1>3 DEF UpsertLink
  <2> HIDE DEF r, tally
  <2>6. /\ r \in Record /\ r.tally = tally /\ r.networks = nets
        /\ r.sources = new.sources /\ r.live = new.live /\ r.segments = new.segments
    <3> HIDE DEF nets
    <3> QED BY <2>1, <2>2, <2>4, <2>5 DEF Record
  <2>7. RecordOK(old) /\ RecordOK(new) => RecordOK(r)
    <3> HIDE DEF nets
    <3> QED BY <2>2, <2>3, <2>6 DEF RecordOK
  <2>8. QED BY <1>3, <2>6, <2>7, NoLinkAssumption DEF r, tally
<1>4. QED BY <1>1, <1>2, <1>3

-----------------------------------------------------------------------------
(* The inductive invariant.                                                *)

\* Every step keeps the types (links.go).
LEMMA TypesStep == TypeOK /\ [Next]_vars => TypeOK'
<1> SUFFICES ASSUME TypeOK, [Next]_vars PROVE TypeOK'
  OBVIOUS
<1> USE DEF reader, registry, dedupVars, restoreVars, flushVars
<1>1. ASSUME NEW h \in Hash, NEW n \in NetworkID, NEW kind \in Kind, NEW path \in Path,
             NEW observer \in Node \cup {Invalid}, ObservePath(h, n, kind, path, observer)
      PROVE  TypeOK'
  <2>1. Len(path) \in Nat
    BY PathAssumption
  <2>2. hops' \in HopSeq(Len(path))
    BY <1>1 DEF ObservePath
  <2>3. PICK m \in 0..Len(path) : hops' \in [1..m -> Hop]
    BY <2>2 DEF HopSeq
  <2>4. hops' \in Seq(Hop)
    BY <2>1, <2>3
  <2>5. packet' \in Packet
    BY <1>1 DEF ObservePath, Packet, TypeOK
  <2>6. packets' \in 0..MaxPackets
    BY <1>1, NatAssumption DEF ObservePath, TypeOK
  <2>7. QED BY <1>1, <2>4, <2>5, <2>6 DEF ObservePath, TypeOK
<1>2. CASE ObserveLink
  <2>1. /\ hops # <<>> /\ packet \in Packet /\ next \in Link /\ New \in Record
        /\ links' = [links EXCEPT ![next] = New]
    BY <1>2, ObserveLinkIs
  <2>2. links' \in [Link -> Record \cup {NoLink}] /\ dirty' \in SUBSET Link
    BY <1>2, <2>1 DEF ObserveLink, TypeOK, next
  <2>3. packet.at \in Time
    BY <2>1 DEF Packet
  <2>4. dedup' \in [Hop \X Hash -> Time]
    BY <1>2, <2>3 DEF ObserveLink, TypeOK, Refreshed
  <2>5. netDedup' \in [Hop \X Hash \X NetworkID -> Time]
    BY <1>2, <2>3 DEF ObserveLink, TypeOK, Refreshed
  <2>6. heardAt' \in [Hop \X Hash -> Time]
    BY <1>2, <2>3 DEF ObserveLink, TypeOK
  <2>7. hops' \in Seq(Hop)
    BY <1>2, <2>1 DEF ObserveLink, TypeOK
  <2>8. UNCHANGED <<up, now, place, packet, restoreVars, flushVars, linksTable,
                    packets, crashes, loadFailed>>
    BY <1>2 DEF ObserveLink
  <2>9. QED BY <2>1, <2>2, <2>4, <2>5, <2>6, <2>7, <2>8 DEF TypeOK
<1>3. ASSUME NEW n \in Node, NEW p \in Position, MoveNode(n, p) PROVE TypeOK'
  BY <1>3 DEF MoveNode, TypeOK
<1>4. CASE LoadLinks
  BY <1>4 DEF LoadLinks, TypeOK
<1>5. CASE LoadLinksFails
  BY <1>5 DEF LoadLinksFails, TypeOK
<1>6. ASSUME NEW l \in Link, RestoreLink(l) PROVE TypeOK'
  <2>1. Restored(links[l], linksTable[l]) \in Record \cup {NoLink}
    BY RestoredIs DEF TypeOK
  <2>2. QED BY <1>6, <2>1 DEF RestoreLink, TypeOK
<1>7. CASE RestoreDone
  BY <1>7 DEF RestoreDone, TypeOK
<1>8. CASE TakeDirty
  BY <1>8 DEF TakeDirty, TypeOK
<1>9. CASE SaveLinks
  <2>1. \A l \in Link : UpsertLink(linksTable[l], linkBatch[l]) \in Record \cup {NoLink}
    BY UpsertIs DEF TypeOK
  <2>2. QED BY <1>9, <2>1 DEF SaveLinks, TypeOK, NoLinks
<1>10. CASE SaveLinksFails
  BY <1>10 DEF SaveLinksFails, TypeOK
<1>11. CASE Requeue
  BY <1>11 DEF Requeue, TypeOK, NoLinks
<1>12. CASE sweep
  <2>1. dedup' \in [Hop \X Hash -> Time] /\ netDedup' \in [Hop \X Hash \X NetworkID -> Time]
    BY <1>12, TimeIsNat DEF sweep, TypeOK
  <2>2. QED BY <1>12, <2>1 DEF sweep, TypeOK
<1>13. CASE Tick
  BY <1>13, NatAssumption DEF Tick, TypeOK, Time
<1>14. CASE Crash
  <2>1. /\ links' \in [Link -> Record \cup {NoLink}] /\ linkBatch' \in [Link -> Record \cup {NoLink}]
        /\ dedup' \in [Hop \X Hash -> Time] /\ heardAt' \in [Hop \X Hash -> Time]
        /\ netDedup' \in [Hop \X Hash \X NetworkID -> Time]
    BY <1>14, TimeIsNat DEF Crash, NoLinks, NoDedup, NoNetDedup
  <2>2. /\ up' = FALSE /\ hops' = <<>> /\ dirty' = {} /\ restore' = "done" /\ todo' = {}
        /\ linkFlush' = "idle" /\ loadFailed' = FALSE
        /\ UNCHANGED <<now, place, linksTable, packets>>
    BY <1>14 DEF Crash
  <2>3. crashes' \in 0..MaxCrashes
    BY <1>14, NatAssumption DEF Crash, TypeOK
  <2>4. up' \in BOOLEAN /\ loadFailed' \in BOOLEAN
    BY <2>2
  <2>5. hops' \in Seq(Hop) /\ (hops' # <<>> => packet' \in Packet)
    BY <2>2
  <2>6. dirty' \in SUBSET Link /\ todo' \in SUBSET Link
    BY <2>2
  <2>7. /\ restore' \in {"loading", "merging", "done"}
        /\ linkFlush' \in {"idle", "saving", "failed"}
    BY <2>2
  <2>8. /\ now' \in Time \ {0} /\ place' \in [Node -> Position \cup {NoPos}]
        /\ linksTable' \in [Link -> Record \cup {NoLink}] /\ packets' \in 0..MaxPackets
    BY <2>2 DEF TypeOK
  <2>9. QED BY <2>1, <2>3, <2>4, <2>5, <2>6, <2>7, <2>8 DEF TypeOK
<1>15. CASE Start
  BY <1>15 DEF Start, TypeOK
<1>16. CASE UNCHANGED vars
  BY <1>16 DEF vars, TypeOK
<1>17. QED
  BY <1>1, <1>2, <1>3, <1>4, <1>5, <1>6, <1>7, <1>8, <1>9, <1>10, <1>11, <1>12, <1>13,
     <1>14, <1>15, <1>16 DEF Next, Reader, Restore, FlushLoop

\* Every step keeps the directions of every record (links.go:127).
LEMMA DirectionsStep == TypeOK /\ DirectionsSum /\ [Next]_vars => DirectionsSum'
<1> DEFINE OK(f) == \A l \in Link : f[l] # NoLink => RecordOK(f[l])
<1>1. DirectionsSum <=> OK(links) /\ OK(linkBatch) /\ OK(linksTable)
  BY DEF DirectionsSum
<1>2. DirectionsSum' <=> OK(links') /\ OK(linkBatch') /\ OK(linksTable')
  BY DEF DirectionsSum
<1> SUFFICES ASSUME TypeOK, OK(links), OK(linkBatch), OK(linksTable), [Next]_vars
             PROVE  OK(links') /\ OK(linkBatch') /\ OK(linksTable')
  BY <1>1, <1>2
<1> USE DEF registry, flushVars
<1>3. /\ links \in [Link -> Record \cup {NoLink}] /\ linkBatch \in [Link -> Record \cup {NoLink}]
      /\ linksTable \in [Link -> Record \cup {NoLink}]
  BY DEF TypeOK
<1>4. CASE ObserveLink
  <2>1. /\ links' = [links EXCEPT ![next] = New] /\ next \in Link
        /\ RecordOK(Old) => RecordOK(New)
        /\ packet.at \in Time
    BY <1>4, ObserveLinkIs DEF Packet
  <2>2. RecordOK(Old)
    BY <2>1, NewRecordIs DEF Old
  <2>3. OK(links')
    BY <1>3, <2>1, <2>2
  <2>4. QED BY <1>4, <2>3 DEF ObserveLink
<1>5. ASSUME NEW l \in Link, RestoreLink(l) PROVE OK(links') /\ OK(linkBatch') /\ OK(linksTable')
  <2>1. links' = [links EXCEPT ![l] = Restored(links[l], linksTable[l])]
    BY <1>5 DEF RestoreLink
  <2>2. Restored(links[l], linksTable[l]) # NoLink => RecordOK(Restored(links[l], linksTable[l]))
    BY <1>3, RestoredIs
  <2>3. OK(links')
    BY <1>3, <2>1, <2>2
  <2>4. QED BY <1>5, <2>3 DEF RestoreLink
<1>6. CASE TakeDirty
  BY <1>6 DEF TakeDirty
<1>7. CASE SaveLinks
  <2>1. \A l \in Link : linksTable'[l] = UpsertLink(linksTable[l], linkBatch[l])
    BY <1>7 DEF SaveLinks
  <2>2. OK(linksTable')
    BY <1>3, <2>1, UpsertIs
  <2>3. QED BY <1>7, <2>2 DEF SaveLinks, NoLinks
<1>8. CASE Requeue
  BY <1>8 DEF Requeue, NoLinks
<1>9. CASE Crash
  BY <1>9 DEF Crash, NoLinks
<1>10. ASSUME NEW h \in Hash, NEW n \in NetworkID, NEW kind \in Kind, NEW path \in Path,
              NEW observer \in Node \cup {Invalid}, ObservePath(h, n, kind, path, observer)
       PROVE  UNCHANGED <<links, linkBatch, linksTable>>
  BY <1>10 DEF ObservePath
<1>11. ASSUME NEW n \in Node, NEW p \in Position, MoveNode(n, p)
       PROVE  UNCHANGED <<links, linkBatch, linksTable>>
  BY <1>11 DEF MoveNode
<1>12. LoadLinks \/ LoadLinksFails \/ RestoreDone \/ SaveLinksFails \/ sweep \/ Tick \/ Start
          \/ UNCHANGED vars
       => UNCHANGED <<links, linkBatch, linksTable>>
  BY DEF LoadLinks, LoadLinksFails, RestoreDone, SaveLinksFails, sweep, Tick, Start, vars
<1>13. UNCHANGED <<links, linkBatch, linksTable>> => OK(links') /\ OK(linkBatch') /\ OK(linksTable')
  OBVIOUS
<1>14. QED
  BY <1>4, <1>5, <1>6, <1>7, <1>8, <1>9, <1>10, <1>11, <1>12, <1>13
     DEF Next, Reader, Restore, FlushLoop

\* Every step keeps the flush in order (main.go, linkRestoreDone).
LEMMA FlushStep == TypeOK /\ DedupInv /\ FlushInv /\ [Next]_vars => FlushInv'
<1> SUFFICES ASSUME TypeOK, DedupInv, FlushInv, [Next]_vars PROVE FlushInv'
  OBVIOUS
<1> USE DEF reader, registry, dedupVars, restoreVars, flushVars, FlushInv
<1>1. /\ links \in [Link -> Record \cup {NoLink}] /\ linksTable \in [Link -> Record \cup {NoLink}]
      /\ linkBatch \in [Link -> Record \cup {NoLink}] /\ up \in BOOLEAN /\ dirty \subseteq Link
  BY DEF TypeOK
<1>2. ASSUME NEW h \in Hash, NEW n \in NetworkID, NEW kind \in Kind, NEW path \in Path,
             NEW observer \in Node \cup {Invalid}, ObservePath(h, n, kind, path, observer)
      PROVE  FlushInv'
  BY <1>2 DEF ObservePath
<1>3. CASE ObserveLink
  <2>1. /\ hops # <<>> /\ next \in Link /\ New \in Record
        /\ links' = [links EXCEPT ![next] = New]
    BY <1>3, ObserveLinkIs
  <2>2. up
    BY <2>1 DEF DedupInv
  <2>3. dirty' = dirty \cup {next}
    BY <1>3 DEF ObserveLink, next
  <2>4. UNCHANGED <<up, restoreVars, flushVars, linksTable>>
    BY <1>3 DEF ObserveLink
  <2>5. \A l \in Link : links'[l] = NoLink => links[l] = NoLink /\ l # next
    BY <1>1, <2>1, NoLinkAssumption
  <2>6. QED BY <2>2, <2>3, <2>4, <2>5
<1>4. ASSUME NEW n \in Node, NEW p \in Position, MoveNode(n, p) PROVE FlushInv'
  BY <1>4 DEF MoveNode
<1>5. CASE LoadLinks
  BY <1>5 DEF LoadLinks
<1>6. CASE LoadLinksFails
  BY <1>6 DEF LoadLinksFails
<1>7. ASSUME NEW l \in Link, RestoreLink(l) PROVE FlushInv'
  <2>1. links' = [links EXCEPT ![l] = Restored(links[l], linksTable[l])]
    BY <1>7 DEF RestoreLink
  <2>2. \A k \in Link : links'[k] = NoLink => links[k] = NoLink
    BY <1>1, <2>1, RestoredIs
  <2>3. up /\ restore = "merging" /\ todo' \subseteq todo
    BY <1>7 DEF RestoreLink
  <2>4. UNCHANGED <<up, dirty, restore, flushVars, linksTable>>
    BY <1>7 DEF RestoreLink
  <2>5. QED BY <2>2, <2>3, <2>4
<1>8. CASE RestoreDone
  BY <1>8 DEF RestoreDone
<1>9. CASE TakeDirty
  BY <1>9, <1>1 DEF TakeDirty
<1>10. CASE SaveLinks
  BY <1>10 DEF SaveLinks, NoLinks
<1>11. CASE SaveLinksFails
  BY <1>11 DEF SaveLinksFails
<1>12. CASE Requeue
  BY <1>12 DEF Requeue, NoLinks
<1>13. CASE sweep
  BY <1>13 DEF sweep
<1>14. CASE Tick
  BY <1>14 DEF Tick
<1>15. CASE Crash
  BY <1>15 DEF Crash, NoLinks
<1>16. CASE Start
  BY <1>16 DEF Start
<1>17. CASE UNCHANGED vars
  BY <1>17 DEF vars
<1>18. QED
  BY <1>2, <1>3, <1>4, <1>5, <1>6, <1>7, <1>8, <1>9, <1>10, <1>11, <1>12, <1>13,
     <1>14, <1>15, <1>16, <1>17 DEF Next, Reader, Restore, FlushLoop

\* Every step of the first process leaves its table empty until its restore is
\* over (main.go, linkRestoreDone).
LEMMA FirstLifeStep == TypeOK /\ FlushInv /\ FirstLifeInv /\ [Next]_vars => FirstLifeInv'
<1> SUFFICES ASSUME TypeOK, FlushInv, FirstLifeInv, [Next]_vars PROVE FirstLifeInv'
  OBVIOUS
<1> USE DEF reader, registry, dedupVars, restoreVars, flushVars, FirstLifeInv
<1>1. ASSUME NEW h \in Hash, NEW n \in NetworkID, NEW kind \in Kind, NEW path \in Path,
             NEW observer \in Node \cup {Invalid}, ObservePath(h, n, kind, path, observer)
      PROVE  FirstLifeInv'
  BY <1>1 DEF ObservePath
<1>2. ASSUME NEW n \in Node, NEW p \in Position, MoveNode(n, p) PROVE FirstLifeInv'
  BY <1>2 DEF MoveNode
<1>3. ASSUME NEW l \in Link, RestoreLink(l) PROVE FirstLifeInv'
  BY <1>3 DEF RestoreLink
<1>4. CASE SaveLinks
  BY <1>4 DEF SaveLinks, FlushInv
<1>5. CASE Crash
  BY <1>5 DEF Crash, TypeOK
<1>6. ObserveLink \/ LoadLinks \/ LoadLinksFails \/ RestoreDone \/ TakeDirty \/ SaveLinksFails
         \/ Requeue \/ sweep \/ Tick \/ Start \/ UNCHANGED vars
      => FirstLifeInv'
  BY DEF ObserveLink, LoadLinks, LoadLinksFails, RestoreDone, TakeDirty, SaveLinksFails,
         Requeue, sweep, Tick, Start, vars
<1>7. QED
  BY <1>1, <1>2, <1>3, <1>4, <1>5, <1>6 DEF Next, Reader, Restore, FlushLoop

\* The time up to which entries and tallies may have been heard (links.go, now
\* of ObservePathCtx).
Latest == IF hops = <<>> THEN now ELSE packet.at

ReaderInv == hops # <<>> => up /\ packet.at <= now

\* The entry of hash x for hop h, and the network entries behind it.
EntryInv(h, x) ==
    /\ dedup[<<h, x>>] <= Latest
    /\ dedup[<<h, x>>] # 0 => links[canonicalKey(h)] # NoLink
    /\ \A n \in NetworkID :
          /\ netDedup[<<h, x, n>>] <= dedup[<<h, x>>]
          /\ netDedup[<<h, x, n>>] # 0 => links[canonicalKey(h)].networks[n].count > 0

\* The parts of the dedup invariant (links.go, observeLink).
LEMMA DedupParts == DedupInv <=> ReaderInv /\ \A h \in Hop, x \in Hash : EntryInv(h, x)
BY DEF DedupInv, ReaderInv, EntryInv, Latest

\* Nothing is heard later than the packet that is being handled (links.go).
LEMMA LatestStep ==
    ASSUME TypeOK, ReaderInv, [Next]_vars
    PROVE  /\ ReaderInv'
           /\ Latest \in Nat \ {0} /\ Latest' \in Nat \ {0} /\ Latest <= Latest'
<1> USE DEF reader, registry, dedupVars, restoreVars, flushVars
<1>1. TypeOK'
  BY TypesStep
<1>2. /\ now \in Nat \ {0} /\ now' \in Nat \ {0}
      /\ hops # <<>> => packet.at \in Nat \ {0}
      /\ hops' # <<>> => packet'.at \in Nat \ {0}
  BY <1>1, TimeIsNat DEF TypeOK, Packet
<1>3. Latest \in Nat \ {0} /\ Latest' \in Nat \ {0}
  BY <1>2 DEF Latest
<1>4. ASSUME NEW h \in Hash, NEW n \in NetworkID, NEW kind \in Kind, NEW path \in Path,
             NEW observer \in Node \cup {Invalid}, ObservePath(h, n, kind, path, observer)
      PROVE  ReaderInv' /\ Latest <= Latest'
  <2>1. hops = <<>> /\ hops' # <<>> /\ packet'.at = now /\ now' = now /\ up /\ up' = up
    BY <1>4 DEF ObservePath
  <2>2. QED BY <2>1, <1>2 DEF ReaderInv, Latest
<1>5. CASE ObserveLink
  <2>1. hops # <<>> /\ packet' = packet /\ now' = now /\ up' = up
    BY <1>5 DEF ObserveLink
  <2>2. QED BY <2>1, <1>2 DEF ReaderInv, Latest
<1>6. ASSUME NEW n \in Node, NEW p \in Position, MoveNode(n, p) PROVE UNCHANGED <<up, now, packet, hops>>
  BY <1>6 DEF MoveNode
<1>7. ASSUME NEW l \in Link, RestoreLink(l) PROVE UNCHANGED <<up, now, packet, hops>>
  BY <1>7 DEF RestoreLink
<1>8. LoadLinks \/ LoadLinksFails \/ RestoreDone \/ FlushLoop \/ sweep \/ UNCHANGED vars
      => UNCHANGED <<up, now, packet, hops>>
  BY DEF LoadLinks, LoadLinksFails, RestoreDone, FlushLoop, TakeDirty, SaveLinks, SaveLinksFails,
         Requeue, sweep, vars
<1>9. CASE Tick
  <2>1. now' = now + 1 /\ UNCHANGED <<up, packet, hops>>
    BY <1>9 DEF Tick
  <2>2. QED BY <2>1, <1>2 DEF ReaderInv, Latest
<1>10. CASE Crash
  <2>1. hops' = <<>> /\ now' = now
    BY <1>10 DEF Crash
  <2>2. QED BY <2>1, <1>2 DEF ReaderInv, Latest
<1>11. CASE Start
  <2>1. up' /\ UNCHANGED <<now, packet, hops>>
    BY <1>11 DEF Start
  <2>2. QED BY <2>1, <1>2 DEF ReaderInv, Latest
<1>12. UNCHANGED <<up, now, packet, hops>> => ReaderInv' /\ Latest <= Latest'
  BY <1>2 DEF ReaderInv, Latest
<1>13. ReaderInv' /\ Latest <= Latest'
  BY <1>4, <1>5, <1>6, <1>7, <1>8, <1>9, <1>10, <1>11, <1>12 DEF Next, Reader, Restore
<1>14. QED BY <1>3, <1>13

\* A packet's entry is at its time, and its link and network have counted it
\* (links.go, observeLink).
LEMMA ObserveEntries ==
    ASSUME TypeOK, DedupInv, ObserveLink, NEW h \in Hop, NEW x \in Hash
    PROVE  EntryInv(h, x)'
<1>1. /\ hops # <<>> /\ packet \in Packet /\ Head(hops) \in Hop /\ next \in Link
      /\ Old \in Record /\ New \in Record
      /\ links' = [links EXCEPT ![next] = New]
      /\ \A n \in NetworkID \ {packet.net} : New.networks[n] = Old.networks[n]
      /\ New.networks[packet.net].count =
           IF netDedup[netEntry] = 0 THEN Old.networks[packet.net].count + 1
           ELSE Old.networks[packet.net].count
  BY ObserveLinkIs
<1>2. /\ dedup' = [dedup EXCEPT ![entry] = packet.at]
      /\ netDedup' = [netDedup EXCEPT ![netEntry] = packet.at]
  BY DEF ObserveLink, Refreshed, entry, netEntry
<1>3. /\ packet.at \in Nat \ {0} /\ packet.hash \in Hash /\ packet.net \in NetworkID
      /\ Latest = packet.at /\ Latest <= Latest'
  BY <1>1, TimeIsNat, DedupParts, LatestStep DEF Packet, Latest, Next, Reader
<1>4. /\ dedup \in [Hop \X Hash -> Time] /\ netDedup \in [Hop \X Hash \X NetworkID -> Time]
      /\ links \in [Link -> Record \cup {NoLink}]
  BY DEF TypeOK
<1> DEFINE d == <<h, x>>
           l == canonicalKey(h)
<1>5. d \in Hop \X Hash /\ dedup[d] \in Nat /\ l \in Link
  BY <1>4, KeyType, TimeIsNat
<1>6. dedup[d] <= Latest /\ (dedup[d] # 0 => links[l] # NoLink)
  BY DedupParts DEF EntryInv
<1>7. dedup'[d] = IF d = entry THEN packet.at ELSE dedup[d]
  BY <1>2, <1>4, <1>5
<1>8. d = entry => l = next /\ h = Head(hops) /\ x = packet.hash
  BY DEF entry, next
<1>9. links'[l] = IF l = next THEN New ELSE links[l]
  BY <1>1, <1>4, <1>5
<1>10. dedup'[d] <= Latest'
  BY <1>3, <1>5, <1>6, <1>7, LatestStep, DedupParts DEF Next, Reader
<1>11. dedup'[d] # 0 => links'[l] # NoLink
  BY <1>1, <1>6, <1>7, <1>8, <1>9, NoLinkAssumption
<1>12. ASSUME NEW n \in NetworkID
       PROVE  /\ netDedup'[<<h, x, n>>] <= dedup'[d]
              /\ netDedup'[<<h, x, n>>] # 0 => links'[l].networks[n].count > 0
  <2> DEFINE nd == <<h, x, n>>
  <2>1. nd \in Hop \X Hash \X NetworkID /\ netDedup[nd] \in Nat
    BY <1>4, TimeIsNat
  <2>2. netDedup[nd] <= dedup[d] /\ (netDedup[nd] # 0 => links[l].networks[n].count > 0)
    BY DedupParts DEF EntryInv
  <2>3. netDedup'[nd] = IF nd = netEntry THEN packet.at ELSE netDedup[nd]
    BY <1>2, <1>4, <2>1
  <2>4. nd = netEntry <=> d = entry /\ n = packet.net
    BY DEF netEntry, entry
  <2>5. netDedup'[nd] <= dedup'[d]
    BY <1>3, <1>5, <1>6, <1>7, <2>1, <2>2, <2>3, <2>4
  <2>6. netDedup[nd] # 0 => links[l] # NoLink
    BY <1>5, <1>6, <2>1, <2>2
  <2>7. links[l] # NoLink /\ l = next => Old = links[l]
    BY DEF Old
  <2>8. Old.networks[n].count \in Nat
    BY <1>1 DEF Record, Tally
  <2>9. New.networks[n].count = IF n = packet.net /\ netDedup[netEntry] = 0
                                THEN Old.networks[n].count + 1 ELSE Old.networks[n].count
    BY <1>1
  <2>10. netDedup'[nd] # 0 => links'[l].networks[n].count > 0
    <3>1. CASE nd = netEntry
      BY <3>1, <1>8, <1>9, <2>2, <2>4, <2>6, <2>7, <2>8, <2>9
    <3>2. CASE nd # netEntry /\ l = next
      BY <3>2, <1>9, <2>2, <2>3, <2>6, <2>7, <2>8, <2>9
    <3>3. CASE nd # netEntry /\ l # next
      BY <3>3, <1>9, <2>2, <2>3
    <3>4. QED BY <3>1, <3>2, <3>3
  <2>11. QED BY <2>5, <2>10
<1>13. QED BY <1>10, <1>11, <1>12 DEF EntryInv

\* Entries outlive nothing they rest on (links.go, sweep and Restore).
LEMMA DedupStep == TypeOK /\ DedupInv /\ [Next]_vars => DedupInv'
<1> SUFFICES ASSUME TypeOK, DedupInv, [Next]_vars PROVE DedupInv'
  OBVIOUS
<1> USE DEF reader, registry, dedupVars, restoreVars, flushVars
<1>1. /\ ReaderInv' /\ \A h \in Hop, x \in Hash : EntryInv(h, x)
      /\ Latest \in Nat /\ Latest' \in Nat /\ Latest <= Latest'
  BY DedupParts, LatestStep
<1>2. DedupInv' <=> ReaderInv' /\ \A h \in Hop, x \in Hash : EntryInv(h, x)'
  BY DEF DedupInv, ReaderInv, EntryInv, Latest
<1> SUFFICES ASSUME NEW h \in Hop, NEW x \in Hash PROVE EntryInv(h, x)'
  BY <1>1, <1>2
<1> DEFINE d == <<h, x>>
           l == canonicalKey(h)
<1>3. /\ l \in Link /\ d \in Hop \X Hash
      /\ \A n \in NetworkID : <<h, x, n>> \in Hop \X Hash \X NetworkID
  BY KeyType
<1>4. /\ dedup \in [Hop \X Hash -> Time] /\ netDedup \in [Hop \X Hash \X NetworkID -> Time]
      /\ links \in [Link -> Record \cup {NoLink}] /\ linksTable \in [Link -> Record \cup {NoLink}]
      /\ dedup[d] \in Nat /\ now \in Nat
      /\ \A n \in NetworkID : netDedup[<<h, x, n>>] \in Nat
  BY <1>3, TimeIsNat DEF TypeOK
<1>5. /\ dedup[d] <= Latest
      /\ dedup[d] # 0 => links[l] # NoLink
      /\ \A n \in NetworkID :
            /\ netDedup[<<h, x, n>>] <= dedup[d]
            /\ netDedup[<<h, x, n>>] # 0 => links[l].networks[n].count > 0
  BY <1>1 DEF EntryInv
<1>6. UNCHANGED <<dedup, netDedup, links>> => EntryInv(h, x)'
  <2>1. dedup[d] <= Latest'
    BY <1>1, <1>4, <1>5
  <2>2. QED BY <2>1, <1>5 DEF EntryInv
<1>7. CASE ObserveLink
  BY <1>7, ObserveEntries
<1>8. ASSUME NEW k \in Link, RestoreLink(k) PROVE EntryInv(h, x)'
  <2>1. /\ links' = [links EXCEPT ![k] = Restored(links[k], linksTable[k])]
        /\ UNCHANGED <<dedup, netDedup>>
    BY <1>8 DEF RestoreLink
  <2>2. CASE dedup[d] = 0
    <3>1. \A n \in NetworkID : netDedup[<<h, x, n>>] = 0
      BY <2>2, <1>4, <1>5
    <3>2. QED BY <3>1, <2>1, <2>2, <1>1, <1>5 DEF EntryInv
  <2>3. CASE dedup[d] # 0 /\ k # l
    <3>1. links'[l] = links[l]
      BY <2>1, <2>3, <1>3, <1>4
    <3>2. dedup[d] <= Latest'
      BY <1>1, <1>4, <1>5
    <3>3. QED BY <3>1, <3>2, <2>1, <1>5 DEF EntryInv
  <2>4. CASE dedup[d] # 0 /\ k = l
    <3>1. links[l] # NoLink /\ links[l] \in Record
      BY <2>4, <1>3, <1>4, <1>5
    <3>2. /\ links'[l] = Restored(links[l], linksTable[l]) /\ links'[l] # NoLink
          /\ links'[l] \in Record
      BY <3>1, <2>1, <2>4, <1>3, <1>4, RestoredIs
    <3>3. ASSUME NEW n \in NetworkID PROVE links'[l].networks[n].count >= links[l].networks[n].count
      <4>1. links[l].networks[n] \in Tally /\ links[l].networks[n].count \in Nat
        BY <3>1 DEF Record, Tally
      <4>2. CASE linksTable[l] = NoLink
        BY <4>1, <4>2, <3>2 DEF Restored
      <4>3. CASE linksTable[l] # NoLink
        <5>1. linksTable[l] \in Record
          BY <4>3, <1>3, <1>4
        <5>2. links'[l].networks[n] = MergeTally(links[l].networks[n], linksTable[l].networks[n])
          BY <4>3, <5>1, <3>1, <3>2, MergeIs DEF Restored
        <5>3. linksTable[l].networks[n] \in Tally /\ linksTable[l].networks[n].count \in Nat
          BY <5>1 DEF Record, Tally
        <5>4. QED BY <4>1, <5>2, <5>3, MergeTallyIs
      <4>4. QED BY <4>2, <4>3
    <3>4. dedup[d] <= Latest'
      BY <1>1, <1>4, <1>5
    <3>5. ASSUME NEW n \in NetworkID, netDedup[<<h, x, n>>] # 0 PROVE links'[l].networks[n].count > 0
      <4>1. links[l].networks[n].count \in Nat /\ links'[l].networks[n].count \in Nat
        BY <3>1, <3>2 DEF Record, Tally
      <4>2. QED BY <4>1, <3>3, <3>5, <1>5
    <3>6. QED BY <3>2, <3>4, <3>5, <2>1, <1>5 DEF EntryInv
  <2>5. QED BY <2>2, <2>3, <2>4
<1>9. CASE sweep
  <2>1. /\ dedup'[d] = IF Fresh(dedup[d]) THEN dedup[d] ELSE 0
        /\ \A n \in NetworkID : netDedup'[<<h, x, n>>] =
              IF Fresh(netDedup[<<h, x, n>>]) THEN netDedup[<<h, x, n>>] ELSE 0
        /\ UNCHANGED links
    BY <1>9, <1>3 DEF sweep
  <2>2. dedup'[d] <= Latest' /\ dedup'[d] \in Nat
    BY <2>1, <1>1, <1>4, <1>5
  <2>3. ASSUME NEW n \in NetworkID PROVE netDedup'[<<h, x, n>>] <= dedup'[d]
    BY <2>1, <1>4, <1>5, NatAssumption DEF Fresh
  <2>4. QED BY <2>1, <2>2, <2>3, <1>5 DEF EntryInv
<1>10. CASE Crash
  <2>1. dedup'[d] = 0 /\ \A n \in NetworkID : netDedup'[<<h, x, n>>] = 0
    BY <1>10, <1>3 DEF Crash, NoDedup, NoNetDedup
  <2>2. QED BY <2>1, <1>1 DEF EntryInv
<1>11. ASSUME NEW g \in Hash, NEW n \in NetworkID, NEW kind \in Kind, NEW path \in Path,
              NEW observer \in Node \cup {Invalid}, ObservePath(g, n, kind, path, observer)
       PROVE  UNCHANGED <<dedup, netDedup, links>>
  BY <1>11 DEF ObservePath
<1>12. ASSUME NEW n \in Node, NEW p \in Position, MoveNode(n, p)
       PROVE  UNCHANGED <<dedup, netDedup, links>>
  BY <1>12 DEF MoveNode
<1>13. LoadLinks \/ LoadLinksFails \/ RestoreDone \/ FlushLoop \/ Tick \/ Start \/ UNCHANGED vars
       => UNCHANGED <<dedup, netDedup, links>>
  BY DEF LoadLinks, LoadLinksFails, RestoreDone, FlushLoop, TakeDirty, SaveLinks, SaveLinksFails,
         Requeue, Tick, Start, vars
<1>14. QED
  BY <1>6, <1>7, <1>8, <1>9, <1>10, <1>11, <1>12, <1>13 DEF Next, Reader, Restore

\* What a network's tally, and a record, heard up to time t looks like.
TallyBy(tally, t) ==
    /\ tally.last <= t
    /\ tally.count = 0 => tally = ZeroTally
    /\ tally.last = 0 => tally.count = 0

RecordBy(rec, t) ==
    /\ rec.tally.last <= t
    /\ \A n \in NetworkID : TallyBy(rec.networks[n], t)

\* TimesInv says so of every record (links.go, observeLink).
LEMMA TimesParts ==
    TimesInv <=> \A l \in Link : /\ links[l] # NoLink => RecordBy(links[l], Latest)
                                 /\ linkBatch[l] # NoLink => RecordBy(linkBatch[l], Latest)
                                 /\ linksTable[l] # NoLink => RecordBy(linksTable[l], Latest)
BY DEF TimesInv, TimesOK, RecordBy, TallyBy, Latest

\* Time only makes it easier (links.go).
LEMMA LaterIs ==
    ASSUME NEW rec \in Record, NEW t \in Nat, NEW u \in Nat, t <= u, RecordBy(rec, t)
    PROVE  RecordBy(rec, u)
<1>1. rec.tally.last \in Nat /\ \A n \in NetworkID : rec.networks[n].last \in Nat
  BY TimeIsNat DEF Record, Tally
<1>2. QED BY <1>1 DEF RecordBy, TallyBy

\* Merging keeps it (links.go, mergeRestoredLink).
LEMMA MergedTimes ==
    ASSUME NEW rec \in Record, NEW saved \in Record, NEW t \in Nat,
           RecordBy(rec, t), RecordBy(saved, t)
    PROVE  RecordBy(mergeRestoredLink(rec, saved), t)
<1> DEFINE r == mergeRestoredLink(rec, saved)
<1>1. /\ r.tally = MergeTally(rec.tally, saved.tally)
      /\ \A n \in NetworkID : r.networks[n] = MergeTally(rec.networks[n], saved.networks[n])
  BY MergeIs
<1> HIDE DEF r
<1>2. rec.tally \in Tally /\ saved.tally \in Tally
  BY DEF Record
<1>3. r.tally.last \in {rec.tally.last, saved.tally.last}
  BY <1>1, <1>2, MergeTallyIs
<1>4. r.tally.last <= t
  BY <1>3 DEF RecordBy
<1>5. ASSUME NEW n \in NetworkID PROVE TallyBy(r.networks[n], t)
  <2> DEFINE a == rec.networks[n]
             b == saved.networks[n]
             m == MergeTally(a, b)
  <2>1. a \in Tally /\ b \in Tally
    BY DEF Record
  <2>2. TallyBy(a, t) /\ TallyBy(b, t)
    BY DEF RecordBy
  <2>3. /\ m.count = a.count + b.count /\ m.last \in {a.last, b.last}
        /\ a.last <= m.last /\ b.last <= m.last
    BY <2>1, MergeTallyIs
  <2>4. MergeTally(ZeroTally, ZeroTally) = ZeroTally
    BY DEF MergeTally, ZeroTally, Greatest
  <2>5. /\ a.count \in Nat /\ b.count \in Nat /\ a.last \in Nat /\ b.last \in Nat
    BY <2>1, TimeIsNat DEF Tally
  <2> HIDE DEF a, b, m
  <2>6. m.last <= t
    BY <2>2, <2>3 DEF TallyBy
  <2>7. m.count = 0 => m = ZeroTally
    <3>1. m.count = 0 => a.count = 0 /\ b.count = 0
      BY <2>3, <2>5
    <3>2. QED BY <3>1, <2>2, <2>4 DEF TallyBy, m
  <2>8. m.last = 0 => m.count = 0
    <3>1. m.last = 0 => a.last = 0 /\ b.last = 0
      BY <2>3, <2>5
    <3>2. QED BY <3>1, <2>2, <2>3 DEF TallyBy
  <2>9. QED BY <1>1, <2>6, <2>7, <2>8 DEF TallyBy, a, b, m
<1>6. QED BY <1>4, <1>5 DEF RecordBy, r

\* Saving keeps it (db.go, SaveLinks).
LEMMA SavedTimes ==
    ASSUME NEW old \in Record \cup {NoLink}, NEW new \in Record \cup {NoLink}, NEW t \in Nat,
           old # NoLink => RecordBy(old, t), new # NoLink => RecordBy(new, t),
           UpsertLink(old, new) # NoLink
    PROVE  RecordBy(UpsertLink(old, new), t)
<1>1. CASE new = NoLink \/ old = NoLink
  BY <1>1 DEF UpsertLink
<1>2. CASE new # NoLink /\ old # NoLink
  <2> DEFINE r == UpsertLink(old, new)
  <2>1. /\ r.tally = UpsertTally(old.tally, new.tally)
        /\ \A n \in NetworkID :
              r.networks[n] = IF new.networks[n].count = 0 THEN old.networks[n]
                              ELSE UpsertTally(old.networks[n], new.networks[n])
    BY <1>2, UpsertIs
  <2> HIDE DEF r
  <2>2. old.tally \in Tally /\ new.tally \in Tally
    BY <1>2 DEF Record
  <2>3. r.tally.last \in {old.tally.last, new.tally.last}
    BY <2>1, <2>2, UpsertTallyIs
  <2>4. r.tally.last <= t
    BY <1>2, <2>3 DEF RecordBy
  <2>5. ASSUME NEW n \in NetworkID PROVE TallyBy(r.networks[n], t)
    <3> DEFINE a == old.networks[n]
               b == new.networks[n]
               m == UpsertTally(a, b)
    <3>1. a \in Tally /\ b \in Tally
      BY <1>2 DEF Record
    <3>2. TallyBy(a, t) /\ TallyBy(b, t)
      BY <1>2 DEF RecordBy
    <3>3. m.count = b.count /\ m.last \in {a.last, b.last} /\ b.last <= m.last
      BY <3>1, UpsertTallyIs
    <3>4. b.count \in Nat /\ b.last \in Nat /\ a.last \in Nat
      BY <3>1, TimeIsNat DEF Tally
    <3>5. CASE b.count = 0
      BY <3>5, <3>2, <2>1
    <3>6. CASE b.count # 0
      <4>1. m.last <= t
        BY <3>2, <3>3 DEF TallyBy
      <4>2. m.last # 0
        BY <3>2, <3>3, <3>4, <3>6 DEF TallyBy
      <4>3. QED BY <4>1, <4>2, <3>3, <3>6, <2>1 DEF TallyBy
    <3>7. QED BY <3>5, <3>6
  <2>6. QED BY <2>4, <2>5 DEF RecordBy, r
<1>3. QED BY <1>1, <1>2

\* No step makes a record know the future, or list a silent network (links.go).
LEMMA TimesStep == TypeOK /\ DedupInv /\ TimesInv /\ [Next]_vars => TimesInv'
<1> SUFFICES ASSUME TypeOK, DedupInv, TimesInv, [Next]_vars PROVE TimesInv'
  OBVIOUS
<1> USE DEF reader, registry, dedupVars, restoreVars, flushVars
<1> DEFINE By(f, t) == \A l \in Link : f[l] # NoLink => RecordBy(f[l], t)
<1>1. /\ Latest \in Nat \ {0} /\ Latest' \in Nat /\ Latest <= Latest'
  BY DedupParts, LatestStep
<1>2. By(links, Latest) /\ By(linkBatch, Latest) /\ By(linksTable, Latest)
  BY TimesParts
<1>3. /\ links \in [Link -> Record \cup {NoLink}] /\ linkBatch \in [Link -> Record \cup {NoLink}]
      /\ linksTable \in [Link -> Record \cup {NoLink}]
      /\ links' \in [Link -> Record \cup {NoLink}] /\ linkBatch' \in [Link -> Record \cup {NoLink}]
      /\ linksTable' \in [Link -> Record \cup {NoLink}]
  BY TypesStep DEF TypeOK
<1>4. TimesInv' <=> By(links', Latest') /\ By(linkBatch', Latest') /\ By(linksTable', Latest')
  BY DEF TimesInv, TimesOK, RecordBy, TallyBy, Latest
<1> SUFFICES By(links', Latest) /\ By(linkBatch', Latest) /\ By(linksTable', Latest)
  BY <1>1, <1>3, <1>4, LaterIs
<1>5. CASE ObserveLink
  <2>1. /\ hops # <<>> /\ packet \in Packet /\ next \in Link /\ Old \in Record /\ New \in Record
        /\ links' = [links EXCEPT ![next] = New]
        /\ New.tally.last = IF dedup[entry] # 0 THEN Old.tally.last ELSE packet.at
        /\ \A n \in NetworkID \ {packet.net} : New.networks[n] = Old.networks[n]
        /\ New.networks[packet.net].count =
             IF netDedup[netEntry] = 0 THEN Old.networks[packet.net].count + 1
             ELSE Old.networks[packet.net].count
        /\ New.networks[packet.net].last = packet.at
        /\ Head(hops) \in Hop
    BY <1>5, ObserveLinkIs
  <2>2. Latest = packet.at
    BY <2>1 DEF Latest
  <2>3. RecordBy(Old, Latest)
    <3>1. CASE links[next] = NoLink
      <4>1. packet.at \in Time
        BY <2>1 DEF Packet
      <4>2. Old = NewRecord(packet.at) /\ Old.tally.last = 0
            /\ \A n \in NetworkID : Old.networks[n] = ZeroTally
        BY <3>1, <4>1, NewRecordIs DEF Old
      <4>3. QED BY <4>2, <1>1 DEF RecordBy, TallyBy, ZeroTally
    <3>2. CASE links[next] # NoLink
      BY <3>2, <2>1, <1>2 DEF Old
    <3>3. QED BY <3>1, <3>2
  <2>4. packet.net \in NetworkID /\ packet.hash \in Hash
    BY <2>1 DEF Packet
  <2>5. New.networks[packet.net].count # 0
    <3>1. Old.networks[packet.net].count \in Nat
      BY <2>1, <2>4 DEF Record, Tally
    <3>2. CASE netDedup[netEntry] = 0
      BY <3>1, <3>2, <2>1
    <3>3. CASE netDedup[netEntry] # 0
      <4>1. EntryInv(Head(hops), packet.hash)
        BY <2>1, <2>4, DedupParts
      <4>2. /\ netDedup[netEntry] <= dedup[entry] /\ links[next].networks[packet.net].count > 0
            /\ dedup[entry] # 0 => links[next] # NoLink
        BY <4>1, <3>3, <2>4 DEF EntryInv, netEntry, entry, next
      <4>3. netDedup[netEntry] \in Nat /\ dedup[entry] \in Nat
        BY <2>1, <2>4, TimeIsNat DEF TypeOK, netEntry, entry
      <4>4. Old = links[next]
        BY <4>2, <4>3, <3>3 DEF Old
      <4>5. QED BY <4>2, <4>4, <3>1, <3>3, <2>1
    <3>4. QED BY <3>2, <3>3
  <2>6. RecordBy(New, Latest)
    <3>1. New.tally.last <= Latest
      BY <2>1, <2>2, <2>3, <1>1 DEF RecordBy
    <3>2. TallyBy(New.networks[packet.net], Latest)
      BY <2>1, <2>2, <2>5, <1>1 DEF TallyBy
    <3>3. \A n \in NetworkID \ {packet.net} : TallyBy(New.networks[n], Latest)
      BY <2>1, <2>3 DEF RecordBy
    <3>4. QED BY <3>1, <3>2, <3>3 DEF RecordBy
  <2>7. By(links', Latest)
    BY <1>2, <1>3, <2>1, <2>6
  <2>8. QED BY <1>2, <1>5, <2>7 DEF ObserveLink
<1>6. ASSUME NEW k \in Link, RestoreLink(k)
      PROVE  By(links', Latest) /\ By(linkBatch', Latest) /\ By(linksTable', Latest)
  <2>1. /\ links' = [links EXCEPT ![k] = Restored(links[k], linksTable[k])]
        /\ UNCHANGED <<linkBatch, linksTable>>
    BY <1>6 DEF RestoreLink
  <2>2. ASSUME Restored(links[k], linksTable[k]) # NoLink
        PROVE  RecordBy(Restored(links[k], linksTable[k]), Latest)
    <3>1. CASE links[k] = NoLink \/ linksTable[k] = NoLink
      BY <3>1, <2>2, <1>2 DEF Restored
    <3>2. CASE links[k] # NoLink /\ linksTable[k] # NoLink
      <4>1. links[k] \in Record /\ linksTable[k] \in Record
        BY <3>2, <1>3
      <4>2. RecordBy(links[k], Latest) /\ RecordBy(linksTable[k], Latest)
        BY <3>2, <1>2
      <4>3. QED BY <3>2, <4>1, <4>2, <1>1, MergedTimes DEF Restored
    <3>3. QED BY <3>1, <3>2
  <2>3. By(links', Latest)
    BY <1>2, <1>3, <2>1, <2>2
  <2>4. QED BY <1>2, <2>1, <2>3
<1>7. CASE TakeDirty
  BY <1>2, <1>7 DEF TakeDirty
<1>8. CASE SaveLinks
  <2>1. \A l \in Link : linksTable'[l] = UpsertLink(linksTable[l], linkBatch[l])
    BY <1>8 DEF SaveLinks
  <2>2. By(linksTable', Latest)
    BY <1>1, <1>2, <1>3, <2>1, SavedTimes
  <2>3. QED BY <1>2, <1>8, <2>2 DEF SaveLinks, NoLinks
<1>9. CASE Requeue
  BY <1>2, <1>9 DEF Requeue, NoLinks
<1>10. CASE Crash
  BY <1>2, <1>10 DEF Crash, NoLinks
<1>11. ASSUME NEW h \in Hash, NEW n \in NetworkID, NEW kind \in Kind, NEW path \in Path,
              NEW observer \in Node \cup {Invalid}, ObservePath(h, n, kind, path, observer)
       PROVE  UNCHANGED <<links, linkBatch, linksTable>>
  BY <1>11 DEF ObservePath
<1>12. ASSUME NEW n \in Node, NEW p \in Position, MoveNode(n, p)
       PROVE  UNCHANGED <<links, linkBatch, linksTable>>
  BY <1>12 DEF MoveNode
<1>13. LoadLinks \/ LoadLinksFails \/ RestoreDone \/ SaveLinksFails \/ sweep \/ Tick \/ Start
          \/ UNCHANGED vars
       => UNCHANGED <<links, linkBatch, linksTable>>
  BY DEF LoadLinks, LoadLinksFails, RestoreDone, SaveLinksFails, sweep, Tick, Start, vars
<1>14. UNCHANGED <<links, linkBatch, linksTable>>
       => By(links', Latest) /\ By(linkBatch', Latest) /\ By(linksTable', Latest)
  BY <1>2
<1>15. QED
  BY <1>5, <1>6, <1>7, <1>8, <1>9, <1>10, <1>11, <1>12, <1>13, <1>14
     DEF Next, Reader, Restore, FlushLoop

-----------------------------------------------------------------------------
(* Versions.                                                               *)

\* A restored row is a later version of the persisted one (links.go, Restore).
LEMMA RestoredCovers ==
    ASSUME NEW rec \in Record \cup {NoLink}, NEW saved \in Record
    PROVE  RecordCovers(Restored(rec, saved), saved)
<1>1. saved # NoLink /\ saved.tally \in Tally /\ \A n \in NetworkID : saved.networks[n] \in Tally
  BY NoLinkAssumption DEF Record
<1>2. ASSUME NEW t \in Tally PROVE Covers(t, t)
  <2>1. t.count \in Nat /\ t.first \in Nat /\ t.last \in Nat
    BY TimeIsNat DEF Tally
  <2>2. QED BY <2>1 DEF Covers
<1>3. ASSUME NEW t \in Tally, NEW s \in Tally PROVE Covers(MergeTally(t, s), s)
  <2>1. t.count \in Nat /\ s.count \in Nat
    BY DEF Tally
  <2>2. QED BY <2>1, MergeTallyIs DEF Covers
<1>4. CASE rec = NoLink
  BY <1>1, <1>2, <1>4 DEF Restored, RecordCovers
<1>5. CASE rec # NoLink
  <2>1. rec \in Record /\ Restored(rec, saved) = mergeRestoredLink(rec, saved)
    BY <1>1, <1>5 DEF Restored
  <2>2. rec.tally \in Tally /\ \A n \in NetworkID : rec.networks[n] \in Tally
    BY <2>1 DEF Record
  <2>3. QED BY <1>1, <1>3, <2>1, <2>2, MergeIs DEF RecordCovers
<1>6. QED BY <1>4, <1>5

\* The next event makes a later version of the record (links.go, observeLink).
LEMMA ObserveCovers ==
    ASSUME TypeOK, ObserveLink, NEW s \in Record, RecordBy(s, Latest), RecordCovers(Old, s)
    PROVE  RecordCovers(New, s)
<1>1. /\ hops # <<>> /\ packet \in Packet /\ Old \in Record /\ New \in Record
      /\ New.tally.count = IF dedup[entry] # 0 THEN Old.tally.count ELSE Old.tally.count + 1
      /\ New.tally.first = Old.tally.first
      /\ New.tally.last = IF dedup[entry] # 0 THEN Old.tally.last ELSE packet.at
      /\ \A n \in NetworkID \ {packet.net} : New.networks[n] = Old.networks[n]
      /\ New.networks[packet.net].count =
           IF netDedup[netEntry] = 0 THEN Old.networks[packet.net].count + 1
           ELSE Old.networks[packet.net].count
      /\ New.networks[packet.net].first =
           IF Old.networks[packet.net].last = 0 THEN packet.at ELSE Old.networks[packet.net].first
      /\ New.networks[packet.net].last = packet.at
  BY ObserveLinkIs
<1>2. Latest = packet.at /\ packet.net \in NetworkID
  BY <1>1 DEF Latest, Packet
<1>3. /\ s.tally.count \in Nat /\ Old.tally.count \in Nat
      /\ s.tally.last <= packet.at /\ Covers(Old.tally, s.tally)
  BY <1>1, <1>2 DEF Record, Tally, RecordBy, RecordCovers
<1>4. Covers(New.tally, s.tally)
  BY <1>1, <1>3 DEF Covers
<1>5. Covers(New.networks[packet.net], s.networks[packet.net])
  <2> DEFINE o == Old.networks[packet.net]
             b == s.networks[packet.net]
  <2>1. /\ o.count \in Nat /\ o.last \in Nat /\ b.count \in Nat /\ b.last \in Nat
    BY <1>1, <1>2, TimeIsNat DEF Record, Tally
  <2>2. Covers(o, b) /\ TallyBy(b, packet.at)
    BY <1>2 DEF RecordCovers, RecordBy
  <2>3. o.last = 0 => b.first = 0
    <3>1. o.last = 0 => b.last = 0
      BY <2>1, <2>2 DEF Covers
    <3>2. b.last = 0 => b = ZeroTally
      BY <2>2 DEF TallyBy
    <3>3. QED BY <3>1, <3>2 DEF ZeroTally
  <2>4. QED BY <1>1, <2>1, <2>2, <2>3 DEF Covers, TallyBy
<1>6. ASSUME NEW n \in NetworkID PROVE Covers(New.networks[n], s.networks[n])
  BY <1>1, <1>5 DEF RecordCovers
<1>7. QED BY <1>4, <1>6 DEF RecordCovers

\* What is shown stays a later version of what is saved (db.go, SaveLinks).
LEMMA SavedCovers ==
    ASSUME NEW rec \in Record, NEW old \in Record \cup {NoLink}, NEW new \in Record,
           RecordCovers(rec, new),
           old # NoLink => RecordCovers(rec, old) /\ RecordCovers(new, old)
    PROVE  RecordCovers(rec, UpsertLink(old, new))
<1>1. new # NoLink
  BY NoLinkAssumption
<1>2. CASE old = NoLink
  BY <1>1, <1>2 DEF UpsertLink
<1>3. CASE old # NoLink
  <2> DEFINE r == UpsertLink(old, new)
  <2>1. /\ r.tally = UpsertTally(old.tally, new.tally)
        /\ \A n \in NetworkID :
              r.networks[n] = IF new.networks[n].count = 0 THEN old.networks[n]
                              ELSE UpsertTally(old.networks[n], new.networks[n])
    BY <1>1, <1>3, UpsertIs
  <2> HIDE DEF r
  <2>2. ASSUME NEW t \in Tally, NEW a \in Tally, NEW b \in Tally,
               Covers(t, b), Covers(b, a)
        PROVE  Covers(t, UpsertTally(a, b))
    <3> DEFINE m == UpsertTally(a, b)
    <3>1. /\ m \in Tally /\ m.count = b.count /\ m.last = b.last /\ m.first <= b.first
          /\ b.first # 0 => m.first = b.first
      BY <2>2, UpsertTallyIs
    <3> HIDE DEF m
    <3>2. m.first \in Nat /\ b.first \in Nat
      BY <3>1, TimeIsNat DEF Tally
    <3>3. Covers(t, m)
      BY <2>2, <3>1, <3>2 DEF Covers
    <3>4. QED BY <3>3 DEF m
  <2>3. /\ rec.tally \in Tally /\ old.tally \in Tally /\ new.tally \in Tally
        /\ \A n \in NetworkID : /\ rec.networks[n] \in Tally /\ old.networks[n] \in Tally
                                /\ new.networks[n] \in Tally
    BY <1>3 DEF Record
  <2>4. Covers(rec.tally, r.tally)
    BY <1>3, <2>1, <2>2, <2>3 DEF RecordCovers
  <2>5. ASSUME NEW n \in NetworkID PROVE Covers(rec.networks[n], r.networks[n])
    BY <1>3, <2>1, <2>2, <2>3 DEF RecordCovers
  <2>6. QED BY <2>4, <2>5 DEF RecordCovers, r
<1>4. QED BY <1>2, <1>3

\* The versions of link l (links.go and main.go).
VersionAt(l) ==
    /\ linkBatch[l] # NoLink => RecordCovers(links[l], linkBatch[l])
    /\ linksTable[l] # NoLink =>
        /\ up => Shown[l] # NoLink /\ RecordCovers(Shown[l], linksTable[l])
        /\ linkBatch[l] # NoLink => RecordCovers(linkBatch[l], linksTable[l])

\* Every step but the failure of a load keeps the versions apart: what is
\* shown is later than what is written, and that than what is saved.
LEMMA VersionsStep ==
    TypeOK /\ DedupInv /\ TimesInv /\ FlushInv /\ (~loadFailed => VersionsInv) /\ [Next]_vars
      => (~loadFailed' => VersionsInv')
<1> SUFFICES ASSUME TypeOK, DedupInv, TimesInv, FlushInv, ~loadFailed => VersionsInv, [Next]_vars,
                    ~loadFailed', NEW l \in Link
             PROVE  VersionAt(l)'
  BY DEF VersionsInv, VersionAt
<1> USE DEF reader, registry, dedupVars, restoreVars, flushVars
<1>1. /\ links \in [Link -> Record \cup {NoLink}] /\ linkBatch \in [Link -> Record \cup {NoLink}]
      /\ linksTable \in [Link -> Record \cup {NoLink}]
  BY DEF TypeOK
<1>2. TypeOK'
  BY TypesStep
<1>3. links' \in [Link -> Record \cup {NoLink}] /\ linksTable' \in [Link -> Record \cup {NoLink}]
  BY <1>2 DEF TypeOK
<1>4. /\ Shown[l] = IF Unmerged(l) THEN Restored(links[l], linksTable[l]) ELSE links[l]
      /\ Shown'[l] = IF Unmerged(l)' THEN Restored(links'[l], linksTable'[l]) ELSE links'[l]
  BY DEF Shown
<1>5. Unmerged(l)' /\ linksTable'[l] # NoLink =>
         Shown'[l] # NoLink /\ RecordCovers(Shown'[l], linksTable'[l])
  BY <1>3, <1>4, RestoredIs, RestoredCovers
<1>6. CASE Crash
  BY <1>6 DEF Crash, NoLinks, VersionAt
<1>7. ~Crash => ~loadFailed /\ ~LoadLinksFails
  BY DEF Next, Reader, Restore, FlushLoop, ObservePath, ObserveLink, MoveNode, LoadLinks,
         LoadLinksFails, RestoreLink, RestoreDone, TakeDirty, SaveLinks, SaveLinksFails, Requeue,
         sweep, Tick, Start, vars
<1> SUFFICES ASSUME ~Crash PROVE VersionAt(l)'
  BY <1>6
<1>8. VersionAt(l)
  BY <1>7 DEF VersionsInv, VersionAt
<1>9. UNCHANGED <<up, links, linkBatch, linksTable, restore, todo>> => VersionAt(l)'
  <2> SUFFICES ASSUME UNCHANGED <<up, links, linkBatch, linksTable, restore, todo>> PROVE VersionAt(l)'
    OBVIOUS
  <2>1. Unmerged(l)' <=> Unmerged(l)
    BY DEF Unmerged
  <2>2. Shown'[l] = Shown[l]
    BY <2>1, <1>4
  <2>3. QED BY <2>2, <1>8 DEF VersionAt
<1>10. CASE ObserveLink
  <2>1. /\ hops # <<>> /\ next \in Link /\ Old \in Record /\ New \in Record
        /\ links' = [links EXCEPT ![next] = New]
    BY <1>10, ObserveLinkIs
  <2>2. UNCHANGED <<up, linkBatch, linksTable, restore, todo>> /\ up
    BY <1>10, <2>1 DEF ObserveLink, DedupInv
  <2>3. Unmerged(l)' <=> Unmerged(l)
    BY <2>2 DEF Unmerged
  <2>4. CASE l # next
    <3>1. links'[l] = links[l]
      BY <1>1, <2>1, <2>4
    <3>2. Shown'[l] = Shown[l]
      BY <1>4, <2>2, <2>3, <3>1
    <3>3. QED BY <3>1, <3>2, <2>2, <1>8 DEF VersionAt
  <2>5. CASE l = next
    <3>1. links'[l] = New
      BY <1>1, <2>1, <2>5
    <3>2. links[l] # NoLink => Old = links[l]
      BY <2>5 DEF Old
    <3>3. ASSUME NEW s \in Record, RecordBy(s, Latest), links[l] # NoLink, RecordCovers(links[l], s)
          PROVE  RecordCovers(links'[l], s)
      BY <1>10, <3>1, <3>2, <3>3, ObserveCovers
    <3>4. /\ linkBatch[l] # NoLink => linkBatch[l] \in Record /\ RecordBy(linkBatch[l], Latest)
          /\ linksTable[l] # NoLink => linksTable[l] \in Record /\ RecordBy(linksTable[l], Latest)
      BY <1>1, TimesParts
    <3>5. linkBatch[l] # NoLink => RecordCovers(links'[l], linkBatch[l])
      BY <1>8, <3>3, <3>4 DEF VersionAt, FlushInv
    <3>6. linksTable[l] # NoLink /\ ~Unmerged(l) =>
             Shown'[l] # NoLink /\ RecordCovers(Shown'[l], linksTable[l])
      <4> SUFFICES ASSUME linksTable[l] # NoLink, ~Unmerged(l)
                   PROVE  Shown'[l] # NoLink /\ RecordCovers(Shown'[l], linksTable[l])
        OBVIOUS
      <4>1. links[l] # NoLink /\ RecordCovers(links[l], linksTable[l])
        BY <1>4, <1>8, <2>2 DEF VersionAt
      <4>2. RecordCovers(links'[l], linksTable[l])
        BY <4>1, <3>3, <3>4
      <4>3. Shown'[l] = New
        BY <1>4, <2>3, <3>1
      <4>4. QED BY <4>2, <4>3, <3>1, <2>1, NoLinkAssumption
    <3>7. QED BY <1>5, <1>8, <2>2, <2>3, <3>5, <3>6 DEF VersionAt
  <2>6. QED BY <2>4, <2>5
<1>11. CASE LoadLinks
  <2>1. /\ Unmerged(l)' <=> linksTable[l] # NoLink
        /\ UNCHANGED <<up, links, linkBatch, linksTable>>
    BY <1>11 DEF LoadLinks, Unmerged
  <2>2. QED BY <1>5, <1>8, <2>1 DEF VersionAt
<1>12. ASSUME NEW k \in Link, RestoreLink(k) PROVE VersionAt(l)'
  <2>1. /\ links' = [links EXCEPT ![k] = Restored(links[k], linksTable[k])]
        /\ restore = "merging" /\ k \in todo /\ todo' = todo \ {k}
        /\ UNCHANGED <<up, linkBatch, linksTable, restore>>
    BY <1>12 DEF RestoreLink
  <2>2. linkBatch[l] = NoLink
    BY <2>1 DEF FlushInv, NoLinks
  <2>3. Shown'[l] = Shown[l]
    <3>1. CASE k = l
      BY <3>1, <1>1, <1>4, <2>1 DEF Unmerged
    <3>2. CASE k # l
      BY <3>2, <1>1, <1>4, <2>1 DEF Unmerged
    <3>3. QED BY <3>1, <3>2
  <2>4. QED BY <1>8, <2>1, <2>2, <2>3 DEF VersionAt
<1>13. CASE RestoreDone
  <2>1. /\ ~Unmerged(l) /\ ~Unmerged(l)'
        /\ UNCHANGED <<up, links, linkBatch, linksTable>>
    BY <1>13 DEF RestoreDone, Unmerged
  <2>2. Shown'[l] = Shown[l]
    BY <1>4, <2>1
  <2>3. QED BY <1>8, <2>1, <2>2 DEF VersionAt
<1>14. CASE TakeDirty
  <2>1. /\ up /\ ~Unmerged(l) /\ ~Unmerged(l)'
        /\ linkBatch' = [k \in Link |-> IF k \in dirty THEN links[k] ELSE NoLink]
        /\ UNCHANGED <<up, links, linksTable>>
    BY <1>14 DEF TakeDirty, Unmerged
  <2>2. Shown'[l] = links[l] /\ Shown[l] = links[l]
    BY <1>4, <2>1
  <2>3. linkBatch'[l] # NoLink => linkBatch'[l] = links[l]
    BY <2>1
  <2>4. links[l] # NoLink => RecordCovers(links[l], links[l])
    BY <1>1, RestoredCovers, NoLinkAssumption DEF Restored
  <2>5. QED BY <1>8, <2>1, <2>2, <2>3, <2>4 DEF VersionAt
<1>15. CASE SaveLinks
  <2>1. /\ linksTable' = [k \in Link |-> UpsertLink(linksTable[k], linkBatch[k])]
        /\ linkBatch' = NoLinks /\ linkFlush = "saving"
        /\ UNCHANGED <<up, links, restore, todo>>
    BY <1>15 DEF SaveLinks
  <2>2. ~Unmerged(l) /\ ~Unmerged(l)'
    BY <2>1 DEF FlushInv, Unmerged
  <2>3. Shown'[l] = links[l] /\ Shown[l] = links[l] /\ links'[l] = links[l] /\ linkBatch'[l] = NoLink
    BY <1>4, <2>1, <2>2 DEF NoLinks
  <2>4. CASE linkBatch[l] = NoLink
    <3>1. linksTable'[l] = linksTable[l]
      BY <2>1, <2>4 DEF UpsertLink
    <3>2. QED BY <1>8, <2>1, <2>3, <3>1 DEF VersionAt
  <2>5. CASE linkBatch[l] # NoLink /\ up
    <3>1. links[l] # NoLink /\ links[l] \in Record /\ linkBatch[l] \in Record
      BY <1>1, <2>5 DEF FlushInv
    <3>2. RecordCovers(links[l], UpsertLink(linksTable[l], linkBatch[l]))
      BY <1>1, <1>8, <2>3, <2>5, <3>1, SavedCovers DEF VersionAt
    <3>3. QED BY <2>1, <2>3, <3>1, <3>2 DEF VersionAt
  <2>6. CASE linkBatch[l] # NoLink /\ ~up
    BY <2>1, <2>6 DEF FlushInv
  <2>7. QED BY <2>4, <2>5, <2>6
<1>16. CASE Requeue
  <2>1. linkBatch'[l] = NoLink /\ UNCHANGED <<up, links, linksTable, restore, todo>>
    BY <1>16 DEF Requeue, NoLinks
  <2>2. Unmerged(l)' <=> Unmerged(l)
    BY <2>1 DEF Unmerged
  <2>3. Shown'[l] = Shown[l]
    BY <1>4, <2>1, <2>2
  <2>4. QED BY <1>8, <2>1, <2>3 DEF VersionAt
<1>17. CASE Start
  <2>1. Unmerged(l)' /\ UNCHANGED <<links, linkBatch, linksTable>>
    BY <1>17 DEF Start, Unmerged
  <2>2. linkBatch[l] = NoLink
    BY <1>17 DEF Start, FlushInv, NoLinks
  <2>3. QED BY <1>5, <2>1, <2>2 DEF VersionAt
<1>18. ASSUME NEW h \in Hash, NEW n \in NetworkID, NEW kind \in Kind, NEW path \in Path,
              NEW observer \in Node \cup {Invalid}, ObservePath(h, n, kind, path, observer)
       PROVE  UNCHANGED <<up, links, linkBatch, linksTable, restore, todo>>
  BY <1>18 DEF ObservePath
<1>19. ASSUME NEW n \in Node, NEW p \in Position, MoveNode(n, p)
       PROVE  UNCHANGED <<up, links, linkBatch, linksTable, restore, todo>>
  BY <1>19 DEF MoveNode
<1>20. SaveLinksFails \/ sweep \/ Tick \/ UNCHANGED vars
       => UNCHANGED <<up, links, linkBatch, linksTable, restore, todo>>
  BY DEF SaveLinksFails, sweep, Tick, vars
<1>21. QED
  BY <1>7, <1>9, <1>10, <1>11, <1>12, <1>13, <1>14, <1>15, <1>16, <1>17, <1>18, <1>19, <1>20
     DEF Next, Reader, Restore, FlushLoop

-----------------------------------------------------------------------------
(* What the parts of a record add up to.                                   *)

Countings(rec) == [n \in NetworkID |-> rec.networks[n].count]
Sharing(segs)  == [i \in DOMAIN segs |-> segs[i].count]

\* The parts that are added up.
LEMMA PartsTyped ==
    ASSUME NEW rec \in Record
    PROVE  /\ rec.tally \in Tally /\ rec.tally.count \in Nat
           /\ \A x \in RouteType : rec.sources[x] \in Nat
           /\ \A n \in NetworkID : rec.networks[n] \in Tally /\ Countings(rec)[n] \in Nat
           /\ rec.live.count \in Nat
           /\ Len(rec.segments) \in Nat /\ DOMAIN rec.segments = 1..Len(rec.segments)
           /\ \A i \in 1..Len(rec.segments) : Sharing(rec.segments)[i] \in Nat
<1>1. /\ rec.tally \in Tally /\ rec.tally.count \in Nat
      /\ \A x \in RouteType : rec.sources[x] \in Nat
      /\ rec.live.count \in Nat
      /\ rec.networks \in [NetworkID -> Tally] /\ rec.segments \in Seq(Segment)
  BY DEF Record, Tally
<1>2. \A n \in NetworkID : rec.networks[n] \in Tally /\ rec.networks[n].count \in Nat
  BY <1>1 DEF Tally
<1>3. /\ Len(rec.segments) \in Nat /\ DOMAIN rec.segments = 1..Len(rec.segments)
      /\ \A i \in 1..Len(rec.segments) : rec.segments[i] \in Segment
  BY <1>1
<1>4. \A i \in 1..Len(rec.segments) : rec.segments[i].count \in Nat
  BY <1>3 DEF Segment
<1>5. \A n \in NetworkID : Countings(rec)[n] \in Nat
  BY <1>2 DEF Countings
<1>6. \A i \in 1..Len(rec.segments) : Sharing(rec.segments)[i] \in Nat
  BY <1>3, <1>4 DEF Sharing
<1>7. QED BY <1>1, <1>2, <1>3, <1>5, <1>6

\* The sums in question.
LEMMA SumsTyped ==
    ASSUME NEW rec \in Record
    PROVE  /\ SumFunction(rec.sources) = SumFunctionOnSet(rec.sources, RouteType)
           /\ SumFunction(Countings(rec)) = SumFunctionOnSet(Countings(rec), NetworkID)
           /\ SumFunction(Sharing(rec.segments))
                = SumFunctionOnSet(Sharing(rec.segments), 1..Len(rec.segments))
           /\ SumFunction(rec.sources) \in Nat
           /\ SumFunction(Countings(rec)) \in Nat
           /\ SumFunction(Sharing(rec.segments)) \in Nat
<1>1. /\ DOMAIN rec.sources = RouteType
      /\ DOMAIN Countings(rec) = NetworkID
      /\ DOMAIN Sharing(rec.segments) = 1..Len(rec.segments)
  BY DEF Record, Countings, Sharing
<1>2. IsFiniteSet(RouteType) /\ IsFiniteSet(NetworkID) /\ IsFiniteSet(1..Len(rec.segments))
  BY FiniteAssumption, PartsTyped, FS_Interval
<1>3. /\ SumFunctionOnSet(rec.sources, RouteType) \in Nat
      /\ SumFunctionOnSet(Countings(rec), NetworkID) \in Nat
      /\ SumFunctionOnSet(Sharing(rec.segments), 1..Len(rec.segments)) \in Nat
  <2>1. SumFunctionOnSet(rec.sources, RouteType) \in Nat
    BY <1>2, PartsTyped, SumOfMore
  <2>2. SumFunctionOnSet(Countings(rec), NetworkID) \in Nat
    BY <1>2, PartsTyped, SumOfMore
  <2>3. SumFunctionOnSet(Sharing(rec.segments), 1..Len(rec.segments)) \in Nat
    <3>1. \A i \in 1..Len(rec.segments) : Sharing(rec.segments)[i] \in Nat
      BY PartsTyped
    <3>2. QED BY <1>2, <3>1, SumOfMore
  <2>4. QED BY <2>1, <2>2, <2>3
<1>4. QED BY <1>1, <1>3 DEF SumFunction

\* A link heard for the first time has counted nothing (links.go, observeLink).
LEMMA NewRecordAddsUp ==
    ASSUME NEW t \in Time
    PROVE  EventsOK(NewRecord(t)) /\ SegmentsOK(NewRecord(t))
<1> DEFINE r == NewRecord(t)
<1>1. /\ r \in Record /\ r.tally.count = 0
      /\ \A n \in NetworkID : r.networks[n] = ZeroTally
      /\ r.sources = [x \in RouteType |-> 0]
      /\ r.live.count = 0 /\ r.segments = <<>>
  BY NewRecordIs
<1> HIDE DEF r
<1>2. SumFunction(r.sources) = 0
  <2>1. SumFunctionOnSet(r.sources, RouteType) = 0
    BY <1>1, FiniteAssumption, SumOfZeros
  <2>2. QED BY <1>1, <2>1, SumsTyped
<1>3. SumFunction(Countings(r)) \in Nat
  BY <1>1, SumsTyped
<1>4. SumFunction(Sharing(r.segments)) = 0
  <2>1. Len(r.segments) = 0
    BY <1>1
  <2>2. 1..Len(r.segments) = {}
    BY <2>1
  <2>3. QED BY <1>1, <2>2, SumsTyped, SumOfNothing
<1>5. QED BY <1>1, <1>2, <1>3, <1>4 DEF EventsOK, SegmentsOK, Countings, Sharing, r

\* A segment that is appended adds its events (links.go, updatePosition).
LEMMA SharingAppended ==
    ASSUME NEW segs \in Seq(Segment), NEW x \in Segment
    PROVE  SumFunction(Sharing(Append(segs, x))) = SumFunction(Sharing(segs)) + x.count
<1> DEFINE n == Len(segs)
           more == Append(segs, x)
<1>1. /\ n \in Nat /\ DOMAIN segs = 1..n /\ DOMAIN more = 1..(n + 1)
      /\ \A i \in 1..n : segs[i] \in Segment /\ more[i] = segs[i]
      /\ more[n + 1] = x
  OBVIOUS
<1>2. x.count \in Nat /\ \A i \in 1..n : segs[i].count \in Nat
  BY <1>1 DEF Segment
<1> HIDE DEF n, more
<1>3. /\ DOMAIN Sharing(segs) = 1..n /\ DOMAIN Sharing(more) = 1..(n + 1)
      /\ \A i \in 1..n : Sharing(segs)[i] \in Nat /\ Sharing(more)[i] = Sharing(segs)[i]
      /\ Sharing(more)[n + 1] = x.count
  BY <1>1, <1>2 DEF Sharing
<1>4. SumFunctionOnSet(Sharing(more), 1..(n + 1))
        = SumFunctionOnSet(Sharing(segs), 1..n) + Sharing(more)[n + 1]
  BY <1>1, <1>2, <1>3, SumOfAppended
<1>5. QED BY <1>3, <1>4 DEF SumFunction, more

\* Joined histories share the events of both (links.go, mergeRestoredLink).
LEMMA SharingJoined ==
    ASSUME NEW s \in Seq(Segment), NEW t \in Seq(Segment)
    PROVE  SumFunction(Sharing(s \o t)) = SumFunction(Sharing(s)) + SumFunction(Sharing(t))
<1> DEFINE m == Len(s)
           n == Len(t)
           u == s \o t
<1>1. /\ m \in Nat /\ n \in Nat
      /\ DOMAIN s = 1..m /\ DOMAIN t = 1..n /\ DOMAIN u = 1..(m + n)
      /\ \A i \in 1..m : s[i] \in Segment /\ u[i] = s[i]
      /\ \A i \in 1..n : t[i] \in Segment /\ u[m + i] = t[i]
  OBVIOUS
<1>2. /\ \A i \in 1..m : s[i].count \in Nat
      /\ \A i \in 1..n : t[i].count \in Nat
  BY <1>1 DEF Segment
<1> HIDE DEF m, n, u
<1>3. DOMAIN Sharing(s) = 1..m /\ DOMAIN Sharing(t) = 1..n /\ DOMAIN Sharing(u) = 1..(m + n)
  BY <1>1 DEF Sharing
<1>4. \A i \in 1..m : Sharing(s)[i] \in Nat /\ Sharing(u)[i] = Sharing(s)[i]
  <2>1. \A i \in 1..m : i \in 1..(m + n)
    BY <1>1
  <2>2. QED BY <1>1, <1>2, <2>1 DEF Sharing
<1>5. \A i \in 1..n : Sharing(t)[i] \in Nat /\ Sharing(u)[m + i] = Sharing(t)[i]
  <2>1. \A i \in 1..n : m + i \in 1..(m + n)
    BY <1>1
  <2>2. QED BY <1>1, <1>2, <2>1 DEF Sharing
<1>6. SumFunctionOnSet(Sharing(u), 1..(m + n))
        = SumFunctionOnSet(Sharing(s), 1..m) + SumFunctionOnSet(Sharing(t), 1..n)
  BY <1>1, <1>4, <1>5, SumOfJoined
<1>7. QED BY <1>3, <1>6 DEF SumFunction, u

\* An event that a link counts is in one segment at most (links.go,
\* updatePosition).
LEMMA LocatedAddsUp ==
    ASSUME NEW o \in Record, NEW n \in Record, NEW g, NEW t,
           Located(o, n, g, t), n.tally.count = o.tally.count + 1, SegmentsOK(o)
    PROVE  SegmentsOK(n)
<1> DEFINE S(r) == SumFunction(Sharing(r.segments))
<1>1. /\ o.live.count \in Nat /\ n.live.count \in Nat /\ o.tally.count \in Nat
      /\ S(o) \in Nat /\ S(n) \in Nat
      /\ o.segments \in Seq(Segment)
  BY PartsTyped, SumsTyped DEF Record
<1>2. o.live.count + S(o) <= o.tally.count
  BY DEF SegmentsOK, Sharing
<1>3. n.live.count + S(n) <= o.live.count + S(o) + 1
  <2>1. CASE g = NoPos /\ n.live = o.live /\ n.segments = o.segments
    BY <1>1, <2>1
  <2>2. CASE n.live = Opened(g, t) /\ n.segments = o.segments
    BY <1>1, <2>2 DEF Opened
  <2>3. CASE n.live = Opened(g, t) /\ n.segments = Append(o.segments, Frozen(o))
    <3>1. Frozen(o) \in Segment /\ Frozen(o).count = o.live.count
      BY DEF Frozen, Segment, Record, Tally
    <3>2. S(n) = S(o) + o.live.count
      BY <1>1, <2>3, <3>1, SharingAppended
    <3>3. n.live.count = 1
      BY <2>3 DEF Opened
    <3>4. QED BY <1>1, <3>2, <3>3
  <2>4. CASE n.live = [o.live EXCEPT !.count = @ + 1] /\ n.segments = o.segments
    <3>1. n.live.count = o.live.count + 1
      BY <2>4 DEF Record
    <3>2. QED BY <1>1, <2>4, <3>1
  <2>5. QED BY <2>1, <2>2, <2>3, <2>4 DEF Located
<1> HIDE DEF S
<1>4. \A a, b, c, d, e \in Nat : a + b <= c + d + 1 /\ c + d <= e => a + b <= e + 1
  OBVIOUS
<1>5. \A r \in Record : S(r) \in Nat
  BY SumsTyped DEF S, Record
<1>6. n.live.count + S(n) <= o.tally.count + 1
  BY <1>1, <1>2, <1>3, <1>4, <1>5
<1>7. n.live.count + S(n) <= n.tally.count
  BY <1>6
<1>8. QED BY <1>7 DEF S, SegmentsOK, Sharing

\* A merged link adds up as its two sides do (links.go, mergeRestoredLink).
LEMMA MergeAddsUp ==
    ASSUME NEW rec \in Record, NEW saved \in Record
    PROVE  LET r == mergeRestoredLink(rec, saved) IN
           /\ EventsOK(rec) /\ EventsOK(saved) => EventsOK(r)
           /\ SegmentsOK(rec) /\ SegmentsOK(saved) => SegmentsOK(r)
<1> DEFINE r == mergeRestoredLink(rec, saved)
           both == rec.segments \o saved.segments
           open == rec.live.at # NoPos /\ saved.live.at # NoPos
           S(segs) == SumFunction(Sharing(segs))
<1>1. /\ r \in Record
      /\ r.tally = MergeTally(rec.tally, saved.tally)
      /\ \A n \in NetworkID : r.networks[n] = MergeTally(rec.networks[n], saved.networks[n])
  BY MergeIs
<1>2. /\ r.sources = [x \in RouteType |-> rec.sources[x] + saved.sources[x]]
      /\ r.live = IF rec.live.at = NoPos THEN saved.live ELSE rec.live
      /\ r.segments = both \o IF open THEN <<Frozen(saved)>> ELSE <<>>
  BY MergeKeeps
<1> HIDE DEF r
<1>3. /\ rec.tally.count \in Nat /\ saved.tally.count \in Nat
      /\ r.tally.count = rec.tally.count + saved.tally.count
  BY <1>1, PartsTyped, MergeTallyIs
<1>4. ASSUME EventsOK(rec), EventsOK(saved) PROVE EventsOK(r)
  <2>1. SumFunction(r.sources) = SumFunction(rec.sources) + SumFunction(saved.sources)
    <3>1. \A x \in RouteType : /\ rec.sources[x] \in Nat /\ saved.sources[x] \in Nat
                               /\ r.sources[x] = rec.sources[x] + saved.sources[x]
      BY <1>2, PartsTyped
    <3>2. SumFunctionOnSet(r.sources, RouteType) = SumFunctionOnSet(rec.sources, RouteType)
                                                    + SumFunctionOnSet(saved.sources, RouteType)
      BY <3>1, FiniteAssumption, SumOfSums
    <3>3. QED BY <1>1, <3>2, SumsTyped
  <2>2. SumFunction(Countings(r)) = SumFunction(Countings(rec)) + SumFunction(Countings(saved))
    <3>1. \A n \in NetworkID : /\ Countings(rec)[n] \in Nat /\ Countings(saved)[n] \in Nat
                               /\ Countings(r)[n] = Countings(rec)[n] + Countings(saved)[n]
      <4>1. \A n \in NetworkID : rec.networks[n] \in Tally /\ saved.networks[n] \in Tally
                                 /\ Countings(rec)[n] \in Nat /\ Countings(saved)[n] \in Nat
        BY PartsTyped
      <4>2. \A n \in NetworkID : r.networks[n].count = rec.networks[n].count + saved.networks[n].count
        BY <1>1, <4>1, MergeTallyIs
      <4>3. QED BY <4>1, <4>2 DEF Countings
    <3>2. SumFunctionOnSet(Countings(r), NetworkID) = SumFunctionOnSet(Countings(rec), NetworkID)
                                                    + SumFunctionOnSet(Countings(saved), NetworkID)
      BY <3>1, FiniteAssumption, SumOfSums
    <3>3. QED BY <1>1, <3>2, SumsTyped
  <2>3. /\ rec.tally.count = SumFunction(rec.sources) /\ saved.tally.count = SumFunction(saved.sources)
        /\ rec.tally.count <= SumFunction(Countings(rec))
        /\ saved.tally.count <= SumFunction(Countings(saved))
    BY <1>4 DEF EventsOK, Countings
  <2>4. SumFunction(Countings(rec)) \in Nat /\ SumFunction(Countings(saved)) \in Nat
    BY SumsTyped
  <2>5. /\ r.tally.count = SumFunction(r.sources)
        /\ r.tally.count <= SumFunction(Countings(r))
    BY <1>3, <2>1, <2>2, <2>3, <2>4
  <2>6. QED BY <2>5 DEF EventsOK, Countings
<1>5. ASSUME SegmentsOK(rec), SegmentsOK(saved) PROVE SegmentsOK(r)
  <2>1. /\ rec.segments \in Seq(Segment) /\ saved.segments \in Seq(Segment)
        /\ both \in Seq(Segment)
        /\ rec.live.count \in Nat /\ saved.live.count \in Nat
    BY PartsTyped DEF Record
  <2>2. S(both) = S(rec.segments) + S(saved.segments)
    BY <2>1, SharingJoined
  <2>3. /\ S(rec.segments) \in Nat /\ S(saved.segments) \in Nat
        /\ rec.live.count + S(rec.segments) <= rec.tally.count
        /\ saved.live.count + S(saved.segments) <= saved.tally.count
    BY <1>5, SumsTyped DEF SegmentsOK, Sharing
  <2> DEFINE i == rec.live.count
             j == saved.live.count
             x == S(rec.segments)
             y == S(saved.segments)
             m == rec.tally.count
             n == saved.tally.count
  <2>4. /\ i \in Nat /\ j \in Nat /\ x \in Nat /\ y \in Nat /\ m \in Nat /\ n \in Nat
        /\ i + x <= m /\ j + y <= n
        /\ r.tally.count = m + n /\ S(both) = x + y
    BY <1>3, <2>1, <2>2, <2>3
  <2> HIDE DEF both, i, j, x, y, m, n, S
  <2>5. /\ i + x + y + j <= m + n
        /\ i + x + y <= m + n /\ j + x + y <= m + n
    BY <2>4
  <2>6. CASE open
    <3>1. Frozen(saved) \in Segment /\ Frozen(saved).count = saved.live.count
      BY DEF Frozen, Segment, Record, Tally
    <3>2. r.segments = Append(both, Frozen(saved))
      BY <1>2, <2>1, <2>6, <3>1
    <3>3. S(r.segments) = S(both) + saved.live.count
      BY <2>1, <3>1, <3>2, SharingAppended DEF S
    <3>4. r.live.count = i /\ saved.live.count = j
      BY <1>2, <2>6 DEF i, j
    <3>5. r.live.count + S(r.segments) <= r.tally.count
      BY <2>4, <2>5, <3>3, <3>4
    <3>6. QED BY <3>5 DEF S, SegmentsOK, Sharing
  <2>7. CASE ~open
    <3>1. r.segments = both
      BY <1>2, <2>1, <2>7
    <3>2. r.live.count \in {i, j}
      BY <1>2 DEF i, j
    <3>3. r.live.count + S(r.segments) <= r.tally.count
      BY <2>4, <2>5, <3>1, <3>2
    <3>4. QED BY <3>3 DEF S, SegmentsOK, Sharing
  <2>8. QED BY <2>6, <2>7
<1>6. QED BY <1>4, <1>5 DEF r

\* A saved row adds up as the row that was saved: networks it does not list keep
\* what they had counted (db.go, SaveLinks).
LEMMA UpsertAddsUp ==
    ASSUME NEW old \in Record, NEW new \in Record
    PROVE  LET r == UpsertLink(old, new) IN
           /\ EventsOK(new) => EventsOK(r)
           /\ SegmentsOK(new) => SegmentsOK(r)
<1> DEFINE r == UpsertLink(old, new)
<1>1. /\ r \in Record
      /\ r.sources = new.sources /\ r.live = new.live /\ r.segments = new.segments
      /\ r.tally = UpsertTally(old.tally, new.tally)
      /\ \A n \in NetworkID :
            r.networks[n] = IF new.networks[n].count = 0 THEN old.networks[n]
                            ELSE UpsertTally(old.networks[n], new.networks[n])
  BY UpsertIs, NoLinkAssumption
<1> HIDE DEF r
<1>2. r.tally.count = new.tally.count
  BY <1>1, PartsTyped, UpsertTallyIs
<1>3. SumFunction(Countings(new)) <= SumFunction(Countings(r))
  <2>1. ASSUME NEW n \in NetworkID
        PROVE  /\ Countings(new)[n] \in Nat /\ Countings(r)[n] \in Nat
               /\ Countings(new)[n] <= Countings(r)[n]
    <3>1. /\ old.networks[n] \in Tally /\ new.networks[n] \in Tally
          /\ Countings(new)[n] \in Nat /\ Countings(r)[n] \in Nat
      BY <1>1, PartsTyped
    <3>2. new.networks[n].count # 0 => r.networks[n].count = new.networks[n].count
      BY <1>1, <3>1, UpsertTallyIs
    <3>3. Countings(new)[n] = new.networks[n].count /\ Countings(r)[n] = r.networks[n].count
      BY DEF Countings
    <3>4. QED BY <3>1, <3>2, <3>3
  <2>2. SumFunctionOnSet(Countings(new), NetworkID) <= SumFunctionOnSet(Countings(r), NetworkID)
    BY <2>1, FiniteAssumption, SumOfLarger
  <2>3. QED BY <1>1, <2>2, SumsTyped
<1>4. /\ new.tally.count \in Nat
      /\ SumFunction(Countings(new)) \in Nat /\ SumFunction(Countings(r)) \in Nat
  BY <1>1, PartsTyped, SumsTyped
<1>5. EventsOK(new) => EventsOK(r)
  <2>1. EventsOK(new) => /\ r.tally.count = SumFunction(r.sources)
                         /\ r.tally.count <= SumFunction(Countings(r))
    BY <1>1, <1>2, <1>3, <1>4 DEF EventsOK, Countings
  <2>2. QED BY <2>1 DEF EventsOK, Countings
<1>6. SegmentsOK(new) => SegmentsOK(r)
  BY <1>1, <1>2 DEF SegmentsOK
<1>7. QED BY <1>5, <1>6 DEF r

\* An event the link counts is new to the packet's network, which counts it too
\* (links.go, observeLink).
LEMMA ObserveAddsUp ==
    ASSUME TypeOK, DedupInv, ObserveLink, EventsOK(Old), SegmentsOK(Old)
    PROVE  EventsOK(New) /\ SegmentsOK(New)
<1> DEFINE net == packet.net
           route == packet.kind[1]
<1>1. /\ packet \in Packet /\ Head(hops) \in Hop
      /\ Old \in Record /\ New \in Record
      /\ New.tally.count = IF dedup[entry] # 0 THEN Old.tally.count ELSE Old.tally.count + 1
      /\ \A n \in NetworkID \ {net} : New.networks[n] = Old.networks[n]
      /\ New.networks[net].count = IF netDedup[netEntry] = 0 THEN Old.networks[net].count + 1
                                   ELSE Old.networks[net].count
      /\ IF dedup[entry] # 0
         THEN New.sources = Old.sources /\ New.live = Old.live /\ New.segments = Old.segments
         ELSE /\ New.sources = [Old.sources EXCEPT ![route] = @ + 1]
              /\ Located(Old, New, Positions(Head(hops)), packet.at)
  BY ObserveLinkIs
<1>2. net \in NetworkID /\ route \in RouteType /\ packet.hash \in Hash
  BY <1>1, KindAssumption DEF Packet
<1>3. dedup[entry] = 0 => netDedup[netEntry] = 0
  <2>1. netDedup[netEntry] <= dedup[entry]
    BY <1>1, <1>2 DEF DedupInv, entry, netEntry
  <2>2. netDedup[netEntry] \in Nat
    BY <1>1, <1>2, TimeIsNat DEF TypeOK, netEntry
  <2>3. QED BY <2>1, <2>2
<1> HIDE DEF net, route
<1>4. /\ Old.tally.count \in Nat
      /\ Old.tally.count = SumFunction(Old.sources)
      /\ Old.tally.count <= SumFunction(Countings(Old))
      /\ SumFunction(Countings(Old)) \in Nat /\ SumFunction(Countings(New)) \in Nat
  BY <1>1, PartsTyped, SumsTyped DEF EventsOK, Countings
<1>5. SumFunction(Countings(New)) = SumFunction(Countings(Old))
                                     + IF netDedup[netEntry] = 0 THEN 1 ELSE 0
  <2> DEFINE f == Countings(Old)
             g == Countings(New)
  <2>1. /\ \A n \in NetworkID : f[n] \in Nat /\ g[n] \in Nat
        /\ \A n \in NetworkID \ {net} : g[n] = f[n]
        /\ g[net] = IF netDedup[netEntry] = 0 THEN f[net] + 1 ELSE f[net]
    <3>1. \A n \in NetworkID : f[n] \in Nat /\ g[n] \in Nat
      BY <1>1, PartsTyped
    <3>2. \A n \in NetworkID : f[n] = Old.networks[n].count /\ g[n] = New.networks[n].count
      BY DEF Countings
    <3>3. QED BY <1>1, <1>2, <3>1, <3>2
  <2> HIDE DEF f, g
  <2>2. SumFunctionOnSet(g, NetworkID) + f[net] = SumFunctionOnSet(f, NetworkID) + g[net]
    BY <1>2, <2>1, FiniteAssumption, SumUpdated
  <2>3. SumFunctionOnSet(g, NetworkID) \in Nat /\ SumFunctionOnSet(f, NetworkID) \in Nat
    BY <2>1, FiniteAssumption, SumOfMore
  <2>4. SumFunctionOnSet(g, NetworkID) = SumFunctionOnSet(f, NetworkID)
                                         + IF netDedup[netEntry] = 0 THEN 1 ELSE 0
    BY <1>2, <2>1, <2>2, <2>3
  <2>5. QED BY <1>1, <2>4, SumsTyped DEF f, g
<1>6. dedup[entry] = 0 => SumFunction(New.sources) = SumFunction(Old.sources) + 1
  <2> SUFFICES ASSUME dedup[entry] = 0
               PROVE  SumFunction(New.sources) = SumFunction(Old.sources) + 1
    OBVIOUS
  <2> DEFINE f == Old.sources
             g == New.sources
  <2>1. f \in [RouteType -> Nat] /\ g = [f EXCEPT ![route] = @ + 1]
    BY <1>1 DEF Record
  <2> HIDE DEF f, g
  <2>2. /\ \A x \in RouteType : f[x] \in Nat /\ g[x] \in Nat
        /\ \A x \in RouteType \ {route} : g[x] = f[x]
        /\ g[route] = f[route] + 1
    BY <1>2, <2>1
  <2>3. SumFunctionOnSet(g, RouteType) + f[route] = SumFunctionOnSet(f, RouteType) + g[route]
    BY <1>2, <2>2, FiniteAssumption, SumUpdated
  <2>4. SumFunctionOnSet(g, RouteType) \in Nat /\ SumFunctionOnSet(f, RouteType) \in Nat
    BY <2>2, FiniteAssumption, SumOfMore
  <2>5. SumFunctionOnSet(g, RouteType) = SumFunctionOnSet(f, RouteType) + 1
    BY <1>2, <2>2, <2>3, <2>4
  <2>6. QED BY <1>1, <2>5, SumsTyped DEF f, g
<1>7. /\ New.tally.count = SumFunction(New.sources)
      /\ New.tally.count <= SumFunction(Countings(New))
  BY <1>1, <1>3, <1>4, <1>5, <1>6
<1>8. EventsOK(New)
  BY <1>7 DEF EventsOK, Countings
<1>9. SegmentsOK(New)
  <2>1. CASE dedup[entry] # 0
    BY <1>1, <2>1 DEF SegmentsOK
  <2>2. CASE dedup[entry] = 0
    BY <1>1, <2>2, LocatedAddsUp
  <2>3. QED BY <2>1, <2>2
<1>10. QED BY <1>8, <1>9

\* Wherever a record is, it adds up (links.go).
AddsUp(f) == \A l \in Link : f[l] # NoLink => EventsOK(f[l]) /\ SegmentsOK(f[l])

AddUpInv == AddsUp(links) /\ AddsUp(linkBatch) /\ AddsUp(linksTable)

\* Every step keeps it (links.go).
LEMMA AddUpStep == TypeOK /\ DedupInv /\ AddUpInv /\ [Next]_vars => AddUpInv'
<1> SUFFICES ASSUME TypeOK, DedupInv, AddUpInv, [Next]_vars PROVE AddUpInv'
  OBVIOUS
<1> USE DEF registry, flushVars
<1>1. /\ links \in [Link -> Record \cup {NoLink}] /\ linkBatch \in [Link -> Record \cup {NoLink}]
      /\ linksTable \in [Link -> Record \cup {NoLink}]
  BY DEF TypeOK
<1>2. AddsUp(links) /\ AddsUp(linkBatch) /\ AddsUp(linksTable)
  BY DEF AddUpInv
<1>3. AddUpInv' <=> AddsUp(links') /\ AddsUp(linkBatch') /\ AddsUp(linksTable')
  BY DEF AddUpInv
<1>4. AddsUp(NoLinks)
  BY DEF AddsUp, NoLinks
<1>5. UNCHANGED <<links, linkBatch, linksTable>> => AddUpInv'
  BY <1>2, <1>3
<1>6. CASE ObserveLink
  <2>1. /\ links' = [links EXCEPT ![next] = New] /\ next \in Link /\ packet.at \in Time
    BY <1>6, ObserveLinkIs DEF Packet
  <2>2. EventsOK(Old) /\ SegmentsOK(Old)
    BY <1>2, <2>1, NewRecordAddsUp DEF Old, AddsUp
  <2>3. EventsOK(New) /\ SegmentsOK(New)
    BY <1>6, <2>2, ObserveAddsUp
  <2>4. AddsUp(links')
    BY <1>1, <1>2, <2>1, <2>3 DEF AddsUp
  <2>5. QED BY <1>2, <1>3, <1>6, <2>4 DEF ObserveLink
<1>7. ASSUME NEW l \in Link, RestoreLink(l) PROVE AddUpInv'
  <2>1. links' = [links EXCEPT ![l] = Restored(links[l], linksTable[l])]
    BY <1>7 DEF RestoreLink
  <2>2. Restored(links[l], linksTable[l]) # NoLink =>
           EventsOK(Restored(links[l], linksTable[l])) /\ SegmentsOK(Restored(links[l], linksTable[l]))
    BY <1>1, <1>2, MergeAddsUp DEF Restored, AddsUp
  <2>3. AddsUp(links')
    BY <1>1, <1>2, <2>1, <2>2 DEF AddsUp
  <2>4. QED BY <1>2, <1>3, <1>7, <2>3 DEF RestoreLink
<1>8. CASE TakeDirty
  <2>1. AddsUp(linkBatch')
    BY <1>2, <1>8 DEF TakeDirty, AddsUp
  <2>2. QED BY <1>2, <1>3, <1>8, <2>1 DEF TakeDirty
<1>9. CASE SaveLinks
  <2>1. \A l \in Link : linksTable'[l] = UpsertLink(linksTable[l], linkBatch[l])
    BY <1>9 DEF SaveLinks
  <2>2. ASSUME NEW l \in Link, linksTable'[l] # NoLink
        PROVE  EventsOK(linksTable'[l]) /\ SegmentsOK(linksTable'[l])
    <3>1. CASE linkBatch[l] = NoLink
      BY <1>2, <2>1, <2>2, <3>1 DEF UpsertLink, AddsUp
    <3>2. CASE linkBatch[l] # NoLink /\ linksTable[l] = NoLink
      BY <1>2, <2>1, <3>2 DEF UpsertLink, AddsUp
    <3>3. CASE linkBatch[l] # NoLink /\ linksTable[l] # NoLink
      <4>1. linkBatch[l] \in Record /\ linksTable[l] \in Record
        BY <1>1, <3>3
      <4>2. EventsOK(linkBatch[l]) /\ SegmentsOK(linkBatch[l])
        BY <1>2, <3>3 DEF AddsUp
      <4>3. QED BY <2>1, <4>1, <4>2, UpsertAddsUp
    <3>4. QED BY <3>1, <3>2, <3>3
  <2>3. AddsUp(linksTable')
    BY <2>2 DEF AddsUp
  <2>4. QED BY <1>2, <1>3, <1>4, <1>9, <2>3 DEF SaveLinks
<1>10. CASE Requeue
  BY <1>2, <1>3, <1>4, <1>10 DEF Requeue
<1>11. CASE Crash
  BY <1>2, <1>3, <1>4, <1>11 DEF Crash
<1>12. ASSUME NEW h \in Hash, NEW n \in NetworkID, NEW kind \in Kind, NEW path \in Path,
              NEW observer \in Node \cup {Invalid}, ObservePath(h, n, kind, path, observer)
       PROVE  AddUpInv'
  BY <1>5, <1>12 DEF ObservePath
<1>13. ASSUME NEW n \in Node, NEW p \in Position, MoveNode(n, p) PROVE AddUpInv'
  BY <1>5, <1>13 DEF MoveNode
<1>14. LoadLinks \/ LoadLinksFails \/ RestoreDone \/ SaveLinksFails \/ sweep \/ Tick \/ Start
          \/ UNCHANGED vars
       => UNCHANGED <<links, linkBatch, linksTable>>
  BY DEF LoadLinks, LoadLinksFails, RestoreDone, SaveLinksFails, sweep, Tick, Start, vars
<1>15. QED
  BY <1>5, <1>6, <1>7, <1>8, <1>9, <1>10, <1>11, <1>12, <1>13, <1>14
     DEF Next, Reader, Restore, FlushLoop

-----------------------------------------------------------------------------
(* The segments of the first process.                                      *)

\* The segments of a record and its current one are where the link was.
LEMMA HistoryIs ==
    ASSUME NEW rec \in Record
    PROVE  LET h == Append(rec.segments, rec.live)
               n == Len(rec.segments) IN
           /\ n \in Nat /\ DOMAIN rec.segments = 1..n /\ Len(h) = n + 1
           /\ \A i \in 1..n : h[i] = rec.segments[i] /\ rec.segments[i] \in Segment
           /\ h[n + 1] = rec.live
<1>1. rec.segments \in Seq(Segment)
  BY DEF Record
<1>2. rec.segments \in Seq(Segment \cup {rec.live})
  BY <1>1
<1>3. QED BY <1>1, <1>2

\* Where the link was before it was at segment i of a record, or at its current
\* one.
AtOf(rec, i) == IF i <= Len(rec.segments) THEN rec.segments[i].at ELSE rec.live.at

StartOf(rec, i) == IF i <= Len(rec.segments) THEN rec.segments[i].first ELSE rec.live.first

\* A history in order, segment by segment.
LEMMA InOrderIs ==
    ASSUME NEW rec \in Record
    PROVE  InOrder(rec) <=>
             /\ \A i \in 1..Len(rec.segments) :
                   /\ Moved(AtOf(rec, i), AtOf(rec, i + 1))
                   /\ rec.segments[i].first <= rec.segments[i].last
                   /\ rec.segments[i].last <= StartOf(rec, i + 1)
             /\ rec.segments # <<>> => rec.live.at # NoPos
             /\ rec.live.at # NoPos => rec.live.first <= rec.tally.last
<1> DEFINE segs == rec.segments
           n == Len(segs)
           h == Append(segs, rec.live)
           start(i) == IF i = n THEN rec.live.first ELSE segs[i + 1].first
<1>1. /\ n \in Nat /\ DOMAIN segs = 1..n /\ Len(h) = n + 1
      /\ \A i \in 1..n : h[i] = segs[i] /\ segs[i] \in Segment
      /\ h[n + 1] = rec.live
  BY HistoryIs
<1>2. InOrder(rec) <=>
        /\ \A i \in 1..(Len(h) - 1) : Moved(h[i].at, h[i + 1].at)
        /\ \A i \in DOMAIN segs : segs[i].first <= segs[i].last /\ segs[i].last <= start(i)
        /\ segs # <<>> => rec.live.at # NoPos
        /\ rec.live.at # NoPos => rec.live.first <= rec.tally.last
  BY DEF InOrder, Moves
<1> HIDE DEF h
<1>3. 1..(Len(h) - 1) = 1..n
  BY <1>1
<1>4. ASSUME NEW i \in 1..n
      PROVE  /\ AtOf(rec, i) = h[i].at /\ AtOf(rec, i + 1) = h[i + 1].at
             /\ StartOf(rec, i + 1) = start(i)
  <2>1. CASE i = n
    BY <1>1, <2>1 DEF AtOf, StartOf
  <2>2. CASE i # n
    <3>1. i + 1 \in 1..n
      BY <1>1, <2>2
    <3>2. QED BY <1>1, <2>2, <3>1 DEF AtOf, StartOf
  <2>3. QED BY <2>1, <2>2
<1> HIDE DEF start, n
<1>5. (\A i \in 1..n : Moved(h[i].at, h[i + 1].at))
        <=> \A i \in 1..n : Moved(AtOf(rec, i), AtOf(rec, i + 1))
  BY <1>4
<1>6. (\A i \in 1..n : segs[i].first <= segs[i].last /\ segs[i].last <= start(i))
        <=> \A i \in 1..n : /\ segs[i].first <= segs[i].last
                            /\ segs[i].last <= StartOf(rec, i + 1)
  BY <1>4
<1>7. QED BY <1>1, <1>2, <1>3, <1>5, <1>6 DEF n

\* A link heard for the first time has been nowhere (links.go, observeLink).
LEMMA NewRecordInOrder == ASSUME NEW t \in Time PROVE InOrder(NewRecord(t))
<1> DEFINE r == NewRecord(t)
<1>1. r \in Record /\ r.live.at = NoPos /\ r.segments = <<>>
  BY NewRecordIs
<1> HIDE DEF r
<1>2. Len(r.segments) = 0
  BY <1>1
<1>3. 1..Len(r.segments) = {}
  BY <1>2
<1>4. QED BY <1>1, <1>3, InOrderIs DEF r

\* A link heard at t, not before it was last heard, freezes its current segment
\* only if it has moved, and then as of the last time it was heard there
\* (links.go, updatePosition).
LEMMA LocatedInOrder ==
    ASSUME NEW o \in Record, NEW n \in Record, NEW g, NEW t \in Time,
           Located(o, n, g, t), o.tally.last <= t, n.tally.last = t, InOrder(o)
    PROVE  InOrder(n)
<1> DEFINE k == Len(o.segments)
<1>1. /\ o.live.first \in Nat /\ n.live.first \in Nat /\ o.tally.last \in Nat /\ t \in Nat
      /\ o.segments \in Seq(Segment)
  BY TimeIsNat DEF Record, Tally
<1>2. /\ \A i \in 1..k : /\ Moved(AtOf(o, i), AtOf(o, i + 1))
                         /\ o.segments[i].first <= o.segments[i].last
                         /\ o.segments[i].last <= StartOf(o, i + 1)
      /\ o.segments # <<>> => o.live.at # NoPos
      /\ o.live.at # NoPos => o.live.first <= o.tally.last
  BY InOrderIs
<1>3. ASSUME n.segments = o.segments,
             n.live.at = o.live.at /\ n.live.first = o.live.first
      PROVE  InOrder(n)
  <2>1. \A i \in 1..(k + 1) : AtOf(n, i) = AtOf(o, i) /\ StartOf(n, i) = StartOf(o, i)
    BY <1>3 DEF AtOf, StartOf
  <2>2. \A i \in 1..k : i \in 1..(k + 1) /\ i + 1 \in 1..(k + 1)
    BY <1>1
  <2>3. n.live.at # NoPos => n.live.first <= n.tally.last
    BY <1>1, <1>2, <1>3
  <2> HIDE DEF k
  <2>4. \A i \in 1..k : /\ Moved(AtOf(n, i), AtOf(n, i + 1))
                        /\ n.segments[i].first <= n.segments[i].last
                        /\ n.segments[i].last <= StartOf(n, i + 1)
    BY <1>2, <1>3, <2>1, <2>2
  <2>5. QED BY <1>2, <1>3, <2>3, <2>4, InOrderIs DEF k
<1>4. CASE n.live = o.live /\ n.segments = o.segments
  BY <1>3, <1>4
<1>5. CASE n.live = [o.live EXCEPT !.count = @ + 1] /\ n.segments = o.segments
  <2>1. n.live.at = o.live.at /\ n.live.first = o.live.first
    BY <1>5 DEF Record
  <2>2. QED BY <1>3, <1>5, <2>1
<1>6. CASE o.live.at = NoPos /\ n.live = Opened(g, t) /\ n.segments = o.segments
  <2>1. n.segments = <<>> /\ Len(n.segments) = 0
    BY <1>1, <1>2, <1>6
  <2>2. 1..Len(n.segments) = {}
    BY <2>1
  <2>3. n.live.first = t
    BY <1>6 DEF Opened
  <2>4. QED BY <1>1, <2>1, <2>2, <2>3, InOrderIs
<1>7. CASE /\ g # NoPos /\ o.live.at # NoPos /\ Moved(o.live.at, g)
           /\ n.live = Opened(g, t) /\ n.segments = Append(o.segments, Frozen(o))
  <2>1. /\ Frozen(o) \in Segment
        /\ Frozen(o).at = o.live.at /\ Frozen(o).first = o.live.first
        /\ Frozen(o).last = o.tally.last
    BY DEF Frozen, Segment, Record, Tally
  <2>2. /\ k \in Nat /\ Len(n.segments) = k + 1
        /\ \A i \in 1..k : n.segments[i] = o.segments[i]
        /\ n.segments[k + 1] = Frozen(o)
    BY <1>1, <1>7, <2>1
  <2>3. n.live.at = g /\ n.live.first = t
    BY <1>7 DEF Opened
  <2> HIDE DEF k
  <2>4. ASSUME NEW i \in 1..(k + 1)
        PROVE  AtOf(n, i) = AtOf(o, i) /\ StartOf(n, i) = StartOf(o, i)
    <3>1. CASE i \in 1..k
      BY <2>2, <3>1 DEF AtOf, StartOf, k
    <3>2. CASE i = k + 1
      BY <2>1, <2>2, <3>2 DEF AtOf, StartOf, k
    <3>3. QED BY <2>2, <3>1, <3>2
  <2>5. AtOf(n, k + 2) = g /\ StartOf(n, k + 2) = t
    BY <2>2, <2>3 DEF AtOf, StartOf
  <2>6. AtOf(o, k + 1) = o.live.at
    BY <2>2 DEF AtOf, k
  <2>7. ASSUME NEW i \in 1..(k + 1)
        PROVE  /\ Moved(AtOf(n, i), AtOf(n, i + 1))
               /\ n.segments[i].first <= n.segments[i].last
               /\ n.segments[i].last <= StartOf(n, i + 1)
    <3>1. CASE i \in 1..k
      <4>1. i \in 1..(k + 1) /\ i + 1 \in 1..(k + 1)
        BY <2>2, <3>1
      <4>2. /\ Moved(AtOf(o, i), AtOf(o, i + 1))
            /\ o.segments[i].first <= o.segments[i].last
            /\ o.segments[i].last <= StartOf(o, i + 1)
        BY <1>2, <3>1 DEF k
      <4>3. QED BY <2>2, <2>4, <3>1, <4>1, <4>2
    <3>2. CASE i = k + 1
      <4>1. i + 1 = k + 2
        BY <2>2, <3>2
      <4>2. Moved(AtOf(n, i), AtOf(n, i + 1))
        BY <1>7, <2>4, <2>5, <2>6, <3>2, <4>1
      <4>3. o.live.first <= o.tally.last
        BY <1>2, <1>7
      <4>4. QED BY <2>1, <2>2, <2>5, <3>2, <4>1, <4>2, <4>3
    <3>3. QED BY <2>2, <3>1, <3>2
  <2>8. n.live.at # NoPos /\ n.live.first <= n.tally.last
    BY <1>1, <1>7, <2>3
  <2>9. QED BY <2>2, <2>7, <2>8, InOrderIs
<1>8. QED BY <1>4, <1>5, <1>6, <1>7 DEF Located

\* Every step keeps the segments in order until the process restarts (links.go).
LEMMA InOrderStep ==
    ASSUME TypeOK, TimesInv, FlushInv, FirstLifeInv, SegmentsInOrder, [Next]_vars
    PROVE  SegmentsInOrder'
<1> USE DEF registry
<1>1. links \in [Link -> Record \cup {NoLink}] /\ crashes \in Nat
  BY NatAssumption DEF TypeOK
<1>2. UNCHANGED <<links, crashes>> => SegmentsInOrder'
  BY DEF SegmentsInOrder
<1>3. CASE ObserveLink
  <2> SUFFICES ASSUME crashes = 0 PROVE \A l \in Link : links'[l] # NoLink => InOrder(links'[l])
    BY <1>3 DEF SegmentsInOrder, ObserveLink
  <2>1. /\ hops # <<>> /\ packet \in Packet /\ next \in Link
        /\ Old \in Record /\ New \in Record
        /\ links' = [links EXCEPT ![next] = New]
        /\ New.tally.last = IF dedup[entry] # 0 THEN Old.tally.last ELSE packet.at
        /\ IF dedup[entry] # 0
           THEN New.sources = Old.sources /\ New.live = Old.live /\ New.segments = Old.segments
           ELSE Located(Old, New, Positions(Head(hops)), packet.at)
    BY <1>3, ObserveLinkIs
  <2>2. packet.at \in Time /\ packet.at \in Nat
    BY <2>1, TimeIsNat DEF Packet
  <2>3. InOrder(Old)
    BY <2>1, <2>2, NewRecordInOrder DEF Old, SegmentsInOrder
  <2>4. Old.tally.last <= packet.at
    <3>1. CASE links[next] = NoLink
      BY <2>2, <3>1, NewRecordIs DEF Old
    <3>2. CASE links[next] # NoLink
      BY <2>1, <3>2 DEF Old, TimesInv, TimesOK
    <3>3. QED BY <3>1, <3>2
  <2>5. InOrder(New)
    <3>1. CASE dedup[entry] # 0
      BY <2>1, <2>3, <3>1 DEF InOrder, Moves
    <3>2. CASE dedup[entry] = 0
      BY <2>1, <2>2, <2>3, <2>4, <3>2, LocatedInOrder
    <3>3. QED BY <3>1, <3>2
  <2>6. QED BY <1>1, <2>1, <2>5 DEF SegmentsInOrder
<1>4. ASSUME NEW l \in Link, RestoreLink(l) PROVE crashes # 0 /\ crashes' = crashes
  <2>1. restore = "merging" /\ l \in todo /\ crashes' = crashes
    BY <1>4 DEF RestoreLink
  <2>2. linksTable[l] # NoLink
    BY <2>1 DEF FlushInv
  <2>3. QED BY <2>1, <2>2 DEF FirstLifeInv, NoLinks
<1>5. CASE Crash
  BY <1>1, <1>5 DEF Crash, SegmentsInOrder
<1>6. ASSUME NEW h \in Hash, NEW n \in NetworkID, NEW kind \in Kind, NEW path \in Path,
             NEW observer \in Node \cup {Invalid}, ObservePath(h, n, kind, path, observer)
      PROVE  UNCHANGED <<links, crashes>>
  BY <1>6 DEF ObservePath
<1>7. ASSUME NEW n \in Node, NEW p \in Position, MoveNode(n, p)
      PROVE  UNCHANGED <<links, crashes>>
  BY <1>7 DEF MoveNode
<1>8. LoadLinks \/ LoadLinksFails \/ RestoreDone \/ FlushLoop \/ sweep \/ Tick \/ Start
         \/ UNCHANGED vars
      => UNCHANGED <<links, crashes>>
  BY DEF LoadLinks, LoadLinksFails, RestoreDone, FlushLoop, TakeDirty, SaveLinks,
         SaveLinksFails, Requeue, sweep, Tick, Start, vars
<1>9. QED
  BY <1>2, <1>3, <1>4, <1>5, <1>6, <1>7, <1>8 DEF Next, Reader, Restore, SegmentsInOrder

-----------------------------------------------------------------------------
(* The theorems.                                                           *)

\* Nothing is kept before the first start (main.go).
LEMMA InitOK == Init => LinksInv
<1> SUFFICES ASSUME Init PROVE LinksInv
  OBVIOUS
<1> USE DEF Init
<1>1. TypeOK
  <2>1. /\ links \in [Link -> Record \cup {NoLink}] /\ linkBatch \in [Link -> Record \cup {NoLink}]
        /\ linksTable \in [Link -> Record \cup {NoLink}]
    BY DEF NoLinks
  <2>2. /\ dedup \in [Hop \X Hash -> Time] /\ heardAt \in [Hop \X Hash -> Time]
        /\ netDedup \in [Hop \X Hash \X NetworkID -> Time]
    BY TimeIsNat DEF NoDedup, NoNetDedup
  <2>3. now \in Time \ {0} /\ packets \in 0..MaxPackets /\ crashes \in 0..MaxCrashes
    BY NatAssumption DEF Time
  <2>4. place \in [Node -> Position \cup {NoPos}] /\ hops \in Seq(Hop)
        /\ (hops # <<>> => packet \in Packet)
    OBVIOUS
  <2>5. /\ up \in BOOLEAN /\ loadFailed \in BOOLEAN /\ dirty \in SUBSET Link /\ todo \in SUBSET Link
    OBVIOUS
  <2>6. restore \in {"loading", "merging", "done"} /\ linkFlush \in {"idle", "saving", "failed"}
    OBVIOUS
  <2>7. QED BY <2>1, <2>2, <2>3, <2>4, <2>5, <2>6 DEF TypeOK
<1>2. DirectionsSum
  BY DEF DirectionsSum, NoLinks
<1>3. DedupInv
  BY KeyType DEF DedupInv, NoDedup, NoNetDedup
<1>4. TimesInv
  BY DEF TimesInv, NoLinks
<1>5. FlushInv
  BY DEF FlushInv, NoLinks
<1>6. VersionsInv
  BY DEF VersionsInv, NoLinks
<1>7. FirstLifeInv
  BY DEF FirstLifeInv
<1>8. QED BY <1>1, <1>2, <1>3, <1>4, <1>5, <1>6, <1>7 DEF LinksInv

\* The inductive invariant of the link registry (links.go).
THEOREM Invariance == Spec => []LinksInv
<1>1. LinksInv /\ [Next]_vars => LinksInv'
  BY TypesStep, DirectionsStep, DedupStep, TimesStep, FlushStep,
     FirstLifeStep, VersionsStep DEF LinksInv
<1>2. QED BY InitOK, <1>1, PTL DEF Spec

\* The directions of every tally sum to its count, wherever the record is
\* (links.go:127).
THEOREM Directions == Spec => []DirectionsSum
<1>1. LinksInv => DirectionsSum
  BY DEF LinksInv
<1>2. QED BY Invariance, <1>1, PTL

\* Wherever a link's record is, it adds up (links.go).
LEMMA AddUpInvariant == Spec => []AddUpInv
<1>1. Init => AddUpInv
  BY DEF Init, AddUpInv, AddsUp, NoLinks
<1>2. LinksInv => TypeOK /\ DedupInv
  BY DEF LinksInv
<1>3. QED BY Invariance, AddUpStep, <1>1, <1>2, PTL DEF Spec

\* Every event a link has counted is of one route type and was counted by some
\* network, in the registry, on the way to the table and in it, through merges,
\* sweeps and restarts (links.go, observeLink, sweep and mergeRestoredLink).
THEOREM EventsHaveNetworks == Spec => []EveryEventHasANetwork
<1>1. AddUpInv => EveryEventHasANetwork
  BY DEF AddUpInv, AddsUp, EveryEventHasANetwork
<1>2. QED BY AddUpInvariant, <1>1, PTL

\* No event of a link is in two of its segments, whatever moves, merges and
\* restarts there were (links.go, updatePosition and mergeRestoredLink).
THEOREM SegmentsShare == Spec => []SegmentsShareEvents
<1>1. AddUpInv => SegmentsShareEvents
  BY DEF AddUpInv, AddsUp, SegmentsShareEvents
<1>2. QED BY AddUpInvariant, <1>1, PTL

\* Until the process restarts, a link's segments are the moves of its endpoints,
\* oldest first, and none is open when the next one starts (links.go,
\* updatePosition before the counters advance).
THEOREM FirstSegmentsInOrder == Spec => []SegmentsInOrder
<1>1. Init => SegmentsInOrder
  BY DEF Init, SegmentsInOrder, NoLinks
<1>2. LinksInv => TypeOK /\ TimesInv /\ FlushInv /\ FirstLifeInv
  BY DEF LinksInv
<1>3. QED BY Invariance, InOrderStep, <1>1, <1>2, PTL DEF Spec

\* An entry says when the packet was last heard on the hop; where there is none
\* that was never or longer ago than the window (links.go, sweep).
HeardInv ==
    \A d \in Hop \X Hash :
        IF dedup[d] # 0 THEN heardAt[d] = dedup[d]
                        ELSE heardAt[d] = 0 \/ now - heardAt[d] > Window

\* Sweeping forgets a packet only when its window is over (links.go, sweep).
LEMMA HeardStep == TypeOK /\ HeardInv /\ [Next]_vars => HeardInv'
<1> SUFFICES ASSUME TypeOK, HeardInv, [Next]_vars, NEW d \in Hop \X Hash
             PROVE  IF dedup'[d] # 0 THEN heardAt'[d] = dedup'[d]
                    ELSE heardAt'[d] = 0 \/ now' - heardAt'[d] > Window
  BY DEF HeardInv
<1> USE DEF reader, registry, dedupVars, restoreVars, flushVars
<1>1. /\ dedup \in [Hop \X Hash -> Time] /\ heardAt \in [Hop \X Hash -> Time]
      /\ dedup[d] \in Nat /\ heardAt[d] \in Nat /\ now \in Nat /\ Window \in Nat
  BY TimeIsNat, NatAssumption DEF TypeOK
<1>2. IF dedup[d] # 0 THEN heardAt[d] = dedup[d] ELSE heardAt[d] = 0 \/ now - heardAt[d] > Window
  BY DEF HeardInv
<1>3. CASE ObserveLink
  <2>1. /\ dedup' = [dedup EXCEPT ![entry] = packet.at]
        /\ heardAt' = [heardAt EXCEPT ![entry] = packet.at] /\ now' = now
    BY <1>3 DEF ObserveLink, Refreshed, entry
  <2>2. packet.at # 0
    BY <1>3, ObserveLinkIs DEF Packet
  <2>3. QED BY <1>1, <1>2, <2>1, <2>2
<1>4. CASE sweep
  <2>1. /\ dedup'[d] = (IF Fresh(dedup[d]) THEN dedup[d] ELSE 0) /\ UNCHANGED <<now, heardAt>>
    BY <1>4 DEF sweep
  <2>2. Fresh(dedup[d]) <=> dedup[d] # 0 /\ now - dedup[d] <= Window
    BY DEF Fresh
  <2>3. QED BY <1>1, <1>2, <2>1, <2>2
<1>5. CASE Tick
  <2>1. now' = now + 1 /\ UNCHANGED <<dedup, heardAt>>
    BY <1>5 DEF Tick
  <2>2. QED BY <1>1, <1>2, <2>1
<1>6. CASE Crash
  BY <1>6 DEF Crash, NoDedup
<1>7. ASSUME NEW h \in Hash, NEW n \in NetworkID, NEW kind \in Kind, NEW path \in Path,
             NEW observer \in Node \cup {Invalid}, ObservePath(h, n, kind, path, observer)
      PROVE  UNCHANGED <<now, dedup, heardAt>>
  BY <1>7 DEF ObservePath
<1>8. ASSUME NEW n \in Node, NEW p \in Position, MoveNode(n, p) PROVE UNCHANGED <<now, dedup, heardAt>>
  BY <1>8 DEF MoveNode
<1>9. ASSUME NEW l \in Link, RestoreLink(l) PROVE UNCHANGED <<now, dedup, heardAt>>
  BY <1>9 DEF RestoreLink
<1>10. LoadLinks \/ LoadLinksFails \/ RestoreDone \/ FlushLoop \/ Start \/ UNCHANGED vars
       => UNCHANGED <<now, dedup, heardAt>>
  BY DEF LoadLinks, LoadLinksFails, RestoreDone, FlushLoop, TakeDirty, SaveLinks, SaveLinksFails,
         Requeue, Start, vars
<1>11. QED
  BY <1>2, <1>3, <1>4, <1>5, <1>6, <1>7, <1>8, <1>9, <1>10 DEF Next, Reader, Restore

\* A hop of a path is counted only if its packet was not heard on it within the
\* window (links.go, observeLink).
LEMMA OnceStep ==
    ASSUME TypeOK, HeardInv, [Next]_vars,
           up', hops # <<>>, hops' = Tail(hops), links[next] # NoLink,
           links'[next].tally.count > links[next].tally.count
    PROVE  heardAt[entry] = 0 \/ now - heardAt[entry] > Window
<1> USE DEF reader, registry, dedupVars, restoreVars, flushVars
<1>1. hops' # hops
  <2>1. hops \in Seq(Hop)
    BY DEF TypeOK
  <2>2. Len(Tail(hops)) = Len(hops) - 1 /\ Len(hops) \in Nat
    BY <2>1
  <2>3. ASSUME Tail(hops) = hops PROVE FALSE
    <3>1. Len(hops) = Len(hops) - 1
      BY <2>2, <2>3
    <3>2. QED BY <2>2, <3>1
  <2>4. QED BY <2>3
<1>2. ObserveLink
  <2>1. ASSUME NEW h \in Hash, NEW n \in NetworkID, NEW kind \in Kind, NEW path \in Path,
               NEW observer \in Node \cup {Invalid}, ObservePath(h, n, kind, path, observer)
        PROVE  FALSE
    BY <2>1 DEF ObservePath
  <2>2. ASSUME NEW n \in Node, NEW p \in Position, MoveNode(n, p) PROVE FALSE
    BY <2>2, <1>1 DEF MoveNode
  <2>3. ASSUME NEW l \in Link, RestoreLink(l) PROVE FALSE
    BY <2>3, <1>1 DEF RestoreLink
  <2>4. ~(LoadLinks \/ LoadLinksFails \/ RestoreDone \/ FlushLoop \/ sweep \/ Tick \/ Start
            \/ UNCHANGED vars)
    BY <1>1 DEF LoadLinks, LoadLinksFails, RestoreDone, FlushLoop, TakeDirty, SaveLinks,
         SaveLinksFails, Requeue, sweep, Tick, Start, vars
  <2>5. ~Crash
    BY DEF Crash
  <2>6. QED BY <2>1, <2>2, <2>3, <2>4, <2>5 DEF Next, Reader, Restore
<1>3. /\ packet \in Packet /\ Head(hops) \in Hop /\ next \in Link
      /\ links' = [links EXCEPT ![next] = New]
      /\ New.tally.count = IF dedup[entry] # 0 THEN Old.tally.count ELSE Old.tally.count + 1
      /\ Old \in Record
  BY <1>2, ObserveLinkIs
<1>4. links'[next] = New /\ Old = links[next]
  BY <1>3 DEF TypeOK, Old
<1>5. Old.tally.count \in Nat
  BY <1>3 DEF Record, Tally
<1>6. dedup[entry] = 0
  BY <1>3, <1>4, <1>5
<1>7. entry \in Hop \X Hash
  BY <1>3 DEF Packet, entry
<1>8. QED BY <1>6, <1>7 DEF HeardInv

\* A packet heard again within the window is not counted again, however often it
\* is repeated and on whatever network (links.go, observeLink).
THEOREM OncePerWindow == Spec => CountsOncePerWindow
<1> DEFINE A == up' /\ hops # <<>> /\ hops' = Tail(hops) =>
                  LET l == canonicalKey(Head(hops))
                      last == heardAt[<<Head(hops), packet.hash>>]
                  IN  links[l] # NoLink /\ links'[l].tally.count > links[l].tally.count =>
                          last = 0 \/ now - last > Window
<1>1. Init => HeardInv
  BY DEF Init, HeardInv, NoDedup
<1>2. LinksInv => TypeOK
  BY DEF LinksInv
<1>3. TypeOK /\ HeardInv /\ [Next]_vars => A
  BY OnceStep DEF next, entry
<1>4. Spec => [][A]_vars
  BY Invariance, <1>1, <1>2, <1>3, HeardStep, PTL DEF Spec
<1>5. QED BY <1>4 DEF CountsOncePerWindow

\* The upsert of a later version writes that version (db.go, SaveLinks).
LEMMA UpsertWrites ==
    ASSUME NEW old \in Record \cup {NoLink}, NEW new \in Record, NEW t \in Nat,
           RecordBy(new, t), old # NoLink => RecordBy(old, t) /\ RecordCovers(new, old)
    PROVE  UpsertLink(old, new) = new
<1>1. new # NoLink
  BY NoLinkAssumption
<1>2. CASE old = NoLink
  BY <1>1, <1>2 DEF UpsertLink
<1>3. CASE old # NoLink
  <2>1. ASSUME NEW a \in Tally, NEW b \in Tally, Covers(b, a) PROVE UpsertTally(a, b) = b
    <3>1. a.first \in Nat /\ b.first \in Nat /\ a.last \in Nat /\ b.last \in Nat
      BY TimeIsNat DEF Tally
    <3>2. Greatest(b.last, a.last) = b.last
      BY <2>1, <3>1 DEF Covers, Greatest
    <3>3. (IF a.first = 0 THEN b.first ELSE Least(b.first, a.first)) = b.first
      BY <2>1, <3>1 DEF Covers, Least
    <3>4. UpsertTally(a, b) = [b EXCEPT !.first = b.first, !.last = b.last]
      BY <3>2, <3>3 DEF UpsertTally
    <3>5. QED BY <3>4 DEF Tally
  <2>2. /\ new.tally \in Tally /\ old.tally \in Tally
        /\ new.networks \in [NetworkID -> Tally]
        /\ \A n \in NetworkID : new.networks[n] \in Tally /\ old.networks[n] \in Tally
    BY <1>3 DEF Record
  <2>3. UpsertTally(old.tally, new.tally) = new.tally
    BY <1>3, <2>1, <2>2 DEF RecordCovers
  <2> DEFINE nets == [n \in NetworkID |-> IF new.networks[n].count = 0 THEN old.networks[n]
                                          ELSE UpsertTally(old.networks[n], new.networks[n])]
  <2>4. ASSUME NEW n \in NetworkID PROVE nets[n] = new.networks[n]
    <3>1. CASE new.networks[n].count = 0
      <4>1. old.networks[n].count \in Nat /\ old.networks[n].count <= 0
        BY <1>3, <2>2, <3>1 DEF RecordCovers, Covers, Tally
      <4>2. old.networks[n] = ZeroTally /\ new.networks[n] = ZeroTally
        BY <1>3, <3>1, <4>1 DEF RecordBy, TallyBy
      <4>3. QED BY <3>1, <4>2
    <3>2. CASE new.networks[n].count # 0
      BY <1>3, <2>1, <2>2, <3>2 DEF RecordCovers
    <3>3. QED BY <3>1, <3>2
  <2>5. nets = new.networks
    BY <2>2, <2>4
  <2>6. UpsertLink(old, new) = [new EXCEPT !.tally = UpsertTally(old.tally, new.tally), !.networks = nets]
    BY <1>1, <1>3 DEF UpsertLink
  <2>7. UpsertLink(old, new) = [new EXCEPT !.tally = new.tally, !.networks = new.networks]
    BY <2>3, <2>5, <2>6
  <2>8. QED BY <2>7 DEF Record
<1>4. QED BY <1>2, <1>3

rowVars == <<up, links, dirty, linkFlush, linkBatch, linksTable, restore, todo>>

\* What is shown of a link (links.go, Restore).
LEMMA ShownIs ==
    /\ Shown = [l \in Link |-> IF Unmerged(l) THEN Restored(links[l], linksTable[l]) ELSE links[l]]
    /\ Shown' = [l \in Link |-> IF Unmerged(l)' THEN Restored(links'[l], linksTable'[l])
                                ELSE links'[l]]
BY DEF Shown

\* Every step of the link registry is one of the write-behind protocol, or
\* leaves its rows alone, unless a load fails (links.go and main.go).
LEMMA RowsStep ==
    ASSUME LinksInv, TypeOK', [Next]_vars, ~loadFailed'
    PROVE  Rows!Next \/ UNCHANGED Rows!vars
<1> USE DEF reader, registry, dedupVars, restoreVars, flushVars
<1>1. TypeOK /\ DedupInv /\ TimesInv /\ FlushInv
  BY DEF LinksInv
<1>2. /\ links \in [Link -> Record \cup {NoLink}] /\ linkBatch \in [Link -> Record \cup {NoLink}]
      /\ linksTable \in [Link -> Record \cup {NoLink}] /\ dirty \in SUBSET Link
      /\ links' \in [Link -> Record \cup {NoLink}] /\ linksTable' \in [Link -> Record \cup {NoLink}]
      /\ dirty' \in SUBSET Link
  BY <1>1 DEF TypeOK
<1>3. /\ \A l \in Link : Shown[l] = IF Unmerged(l) THEN Restored(links[l], linksTable[l]) ELSE links[l]
      /\ \A l \in Link : Shown'[l] = IF Unmerged(l)' THEN Restored(links'[l], linksTable'[l])
                                     ELSE links'[l]
      /\ \E f : Shown = [l \in Link |-> f[l]]
      /\ \E f : Shown' = [l \in Link |-> f[l]]
  <2>1. \E f : Shown = [l \in Link |-> f[l]]
    <3>1. Shown = [l \in Link |-> Shown[l]]
      BY ShownIs
    <3>2. QED BY <3>1
  <2>2. \E f : Shown' = [l \in Link |-> f[l]]
    <3>1. Shown' = [l \in Link |-> Shown'[l]]
      BY ShownIs
    <3>2. QED BY <3>1
  <2>3. QED BY <2>1, <2>2, ShownIs
<1>4. /\ (\A l \in Link : Shown'[l] = Shown[l]) => Shown' = Shown
      /\ \A g : (\A l \in Link : Shown'[l] = g[l]) => Shown' = [l \in Link |-> g[l]]
  <2>1. /\ Shown = [l \in Link |-> Shown[l]]
        /\ Shown' = [l \in Link |-> Shown'[l]]
    BY ShownIs
  <2>2. QED BY <2>1
<1>5. /\ Shown' \in Rows!Rows
      /\ \A l \in Link : Shown'[l] = NoLink => links'[l] = NoLink
  <2>1. \A l \in Link : Shown'[l] \in Record \cup {NoLink} /\ (Shown'[l] = NoLink => links'[l] = NoLink)
    <3> SUFFICES ASSUME NEW l \in Link
                 PROVE  Shown'[l] \in Record \cup {NoLink} /\ (Shown'[l] = NoLink => links'[l] = NoLink)
      OBVIOUS
    <3>1. links'[l] \in Record \cup {NoLink} /\ linksTable'[l] \in Record \cup {NoLink}
      BY <1>2
    <3>2. Shown'[l] = IF Unmerged(l)' THEN Restored(links'[l], linksTable'[l]) ELSE links'[l]
      BY <1>3
    <3>3. CASE Unmerged(l)'
      <4>1. Shown'[l] = Restored(links'[l], linksTable'[l])
        BY <3>2, <3>3
      <4>2. QED BY <3>1, <4>1, RestoredIs
    <3>4. CASE ~Unmerged(l)'
      BY <3>1, <3>2, <3>4
    <3>5. QED BY <3>3, <3>4
  <2>2. Shown' = [l \in Link |-> Shown'[l]]
    BY ShownIs
  <2>3. QED BY <2>1, <2>2 DEF Rows!Rows
<1>6. CASE UNCHANGED rowVars
  <2>1. \A l \in Link : Unmerged(l)' <=> Unmerged(l)
    BY <1>6 DEF rowVars, Unmerged
  <2>2. \A l \in Link : Shown'[l] = Shown[l]
    BY <1>3, <1>6, <2>1 DEF rowVars
  <2>3. QED BY <1>4, <1>6, <2>2 DEF rowVars, Rows!vars
<1>7. CASE ObserveLink
  <2>1. /\ hops # <<>> /\ next \in Link /\ New \in Record /\ links' = [links EXCEPT ![next] = New]
    BY <1>1, <1>7, ObserveLinkIs
  <2>2. /\ up /\ dirty' = dirty \cup {next}
        /\ UNCHANGED <<up, linkFlush, linkBatch, linksTable, restore, todo>>
    BY <1>1, <1>7, <2>1 DEF ObserveLink, DedupInv, next
  <2>3. \A l \in Link : Unmerged(l)' <=> Unmerged(l)
    BY <2>2 DEF Unmerged
  <2>4. ASSUME NEW l \in Link, l # next PROVE Shown'[l] = Shown[l] /\ links'[l] = links[l]
    BY <1>2, <1>3, <2>1, <2>2, <2>3, <2>4
  <2>5. links'[next] # NoLink
    BY <1>2, <2>1, NoLinkAssumption
  <2>6. \A l \in Link : Shown'[l] = NoLink => Shown[l] = NoLink
    BY <1>5, <2>4, <2>5
  <2>7. \A l \in dirty' : Shown'[l] # NoLink
    <3>1. \A l \in dirty : links[l] # NoLink
      BY <1>1, <1>2 DEF FlushInv
    <3>2. QED BY <1>2, <1>5, <2>2, <2>4, <2>5, <3>1
  <2>8. dirty \cup {l \in Link : Shown'[l] # Shown[l]} \subseteq dirty'
    BY <2>2, <2>4
  <2>9. Rows!Write
    BY <1>2, <1>5, <2>2, <2>6, <2>7, <2>8 DEF Rows!Write
  <2>10. QED BY <2>9 DEF Rows!Next
<1>8. CASE LoadLinks
  <2>1. \A l \in Link : Unmerged(l)' <=> linksTable[l] # NoLink
    BY <1>8 DEF LoadLinks, Unmerged
  <2>2. UNCHANGED <<up, links, dirty, linkFlush, linkBatch, linksTable>> /\ restore = "loading"
    BY <1>8 DEF LoadLinks
  <2>3. \A l \in Link : Shown'[l] = Shown[l]
    BY <1>3, <2>1, <2>2 DEF Restored, Unmerged
  <2>4. QED BY <1>4, <2>2, <2>3 DEF Rows!vars
<1>9. ASSUME NEW k \in Link, RestoreLink(k) PROVE UNCHANGED Rows!vars
  <2>1. /\ links' = [links EXCEPT ![k] = Restored(links[k], linksTable[k])]
        /\ restore = "merging" /\ k \in todo /\ todo' = todo \ {k}
        /\ UNCHANGED <<up, dirty, linkFlush, linkBatch, linksTable, restore>>
    BY <1>9 DEF RestoreLink
  <2>2. ASSUME NEW l \in Link PROVE Shown'[l] = Shown[l]
    <3>1. CASE k = l
      BY <3>1, <1>2, <1>3, <2>1 DEF Unmerged
    <3>2. CASE k # l
      BY <3>2, <1>2, <1>3, <2>1 DEF Unmerged
    <3>3. QED BY <3>1, <3>2
  <2>3. QED BY <1>4, <2>1, <2>2 DEF Rows!vars
<1>10. CASE RestoreDone
  <2>1. \A l \in Link : ~Unmerged(l) /\ ~Unmerged(l)'
    BY <1>10 DEF RestoreDone, Unmerged
  <2>2. UNCHANGED <<up, links, dirty, linkFlush, linkBatch, linksTable>>
    BY <1>10 DEF RestoreDone
  <2>3. QED BY <1>3, <1>4, <2>1, <2>2 DEF Rows!vars
<1>11. CASE TakeDirty
  <2>1. /\ \A l \in Link : ~Unmerged(l) /\ ~Unmerged(l)'
        /\ up /\ linkFlush = "idle" /\ dirty # {} /\ dirty' = {} /\ linkFlush' = "saving"
        /\ linkBatch' = [l \in Link |-> IF l \in dirty THEN links[l] ELSE NoLink]
        /\ UNCHANGED <<up, links, linksTable>>
    BY <1>11 DEF TakeDirty, Unmerged
  <2>2. \A l \in Link : Shown'[l] = links[l] /\ Shown[l] = links[l]
    BY <1>3, <2>1
  <2>3. Shown' = Shown
    BY <1>4, <2>2
  <2>4. linkBatch' = [l \in Link |-> IF l \in dirty THEN Shown[l] ELSE NoLink]
    BY <2>1, <2>2
  <2>5. QED BY <2>1, <2>3, <2>4 DEF Rows!Next, Rows!TakeDirty
<1>12. CASE SaveLinks
  <2>1. /\ linksTable' = [l \in Link |-> UpsertLink(linksTable[l], linkBatch[l])]
        /\ linkBatch' = NoLinks /\ linkFlush = "saving" /\ linkFlush' = "idle" /\ loadFailed' = loadFailed
        /\ UNCHANGED <<up, links, dirty, restore, todo>>
    BY <1>12 DEF SaveLinks
  <2>2. \A l \in Link : ~Unmerged(l) /\ ~Unmerged(l)'
    BY <1>1, <2>1 DEF FlushInv, Unmerged
  <2>3. Shown' = Shown
    BY <1>3, <1>4, <2>1, <2>2
  <2>4. ASSUME NEW l \in Link
        PROVE  UpsertLink(linksTable[l], linkBatch[l]) =
                 IF linkBatch[l] # NoLink THEN linkBatch[l] ELSE linksTable[l]
    <3>1. CASE linkBatch[l] = NoLink
      BY <3>1 DEF UpsertLink
    <3>2. CASE linkBatch[l] # NoLink
      <4>1. VersionsInv
        BY <2>1 DEF LinksInv
      <4>2. /\ linkBatch[l] \in Record /\ RecordBy(linkBatch[l], Latest)
            /\ linksTable[l] # NoLink => /\ RecordBy(linksTable[l], Latest)
                                         /\ RecordCovers(linkBatch[l], linksTable[l])
        BY <1>1, <1>2, <3>2, <4>1, TimesParts DEF VersionsInv
      <4>3. Latest \in Nat
        BY <1>1, DedupParts, LatestStep
      <4>4. UpsertLink(linksTable[l], linkBatch[l]) = linkBatch[l]
        BY <1>2, <4>2, <4>3, UpsertWrites
      <4>5. QED BY <3>2, <4>4
    <3>3. QED BY <3>1, <3>2
  <2>5. linksTable' = [l \in Link |-> IF linkBatch[l] # NoLink THEN linkBatch[l] ELSE linksTable[l]]
    BY <2>1, <2>4
  <2>6. QED BY <2>1, <2>3, <2>5 DEF Rows!Next, Rows!SaveCommits, Rows!NoRows, NoLinks
<1>13. CASE SaveLinksFails
  <2>1. /\ UNCHANGED <<up, links, dirty, linkBatch, linksTable, restore, todo>>
        /\ linkFlush = "saving" /\ linkFlush' = "failed"
    BY <1>13 DEF SaveLinksFails
  <2>2. \A l \in Link : Unmerged(l)' <=> Unmerged(l)
    BY <2>1 DEF Unmerged
  <2>3. Shown' = Shown
    BY <1>3, <1>4, <2>1, <2>2
  <2>4. QED BY <2>1, <2>3 DEF Rows!Next, Rows!SaveFails
<1>14. CASE Requeue
  <2>1. /\ linkFlush = "failed" /\ linkFlush' = "idle" /\ linkBatch' = NoLinks
        /\ dirty' = dirty \cup {l \in Link : linkBatch[l] # NoLink /\ links[l] # NoLink}
        /\ UNCHANGED <<up, links, linksTable, restore, todo>>
    BY <1>14 DEF Requeue
  <2>2. \A l \in Link : ~Unmerged(l) /\ ~Unmerged(l)'
    BY <1>1, <2>1 DEF FlushInv, Unmerged
  <2>3. \A l \in Link : Shown[l] = links[l]
    BY <1>3, <2>2
  <2>4. Shown' = Shown
    BY <1>3, <1>4, <2>1, <2>2
  <2>5. dirty' = dirty \cup {l \in Link : linkBatch[l] # NoLink /\ Shown[l] # NoLink}
    BY <2>1, <2>3
  <2>6. QED BY <2>1, <2>4, <2>5 DEF Rows!Next, Rows!Requeue, Rows!NoRows, NoLinks
<1>15. CASE Crash
  <2>1. /\ up /\ up' = FALSE /\ links' = NoLinks /\ dirty' = {} /\ restore' = "done"
        /\ linkFlush' = "idle" /\ linkBatch' = NoLinks /\ linksTable' = linksTable
    BY <1>15 DEF Crash
  <2>2. \A l \in Link : Shown'[l] = NoLink
    BY <1>3, <2>1 DEF Unmerged, NoLinks
  <2>3. Shown' = [l \in Link |-> NoLink]
    BY <2>2, ShownIs
  <2>4. QED BY <2>1, <2>3 DEF Rows!Next, Rows!Crash, Rows!NoRows, NoLinks
<1>16. CASE Start
  <2>1. /\ ~up /\ up' = TRUE /\ restore' = "loading"
        /\ UNCHANGED <<links, dirty, linkFlush, linkBatch, linksTable>>
    BY <1>16 DEF Start
  <2>2. links = NoLinks
    BY <1>1, <2>1 DEF FlushInv
  <2>3. \A l \in Link : Shown'[l] = linksTable[l]
    BY <1>3, <2>1, <2>2 DEF Unmerged, NoLinks, Restored
  <2>4. Shown' = linksTable
    <3>1. Shown' = [l \in Link |-> linksTable[l]]
      BY <1>4, <2>3
    <3>2. QED BY <3>1, <1>2
  <2>5. QED BY <2>1, <2>4 DEF Rows!Next, Rows!Start
<1>17. LoadLinksFails => FALSE
  BY DEF LoadLinksFails
<1>18. ASSUME NEW h \in Hash, NEW n \in NetworkID, NEW kind \in Kind, NEW path \in Path,
              NEW observer \in Node \cup {Invalid}, ObservePath(h, n, kind, path, observer)
       PROVE  UNCHANGED rowVars
  BY <1>18 DEF ObservePath, rowVars
<1>19. ASSUME NEW n \in Node, NEW p \in Position, MoveNode(n, p) PROVE UNCHANGED rowVars
  BY <1>19 DEF MoveNode, rowVars
<1>20. sweep \/ Tick \/ UNCHANGED vars => UNCHANGED rowVars
  BY DEF sweep, Tick, vars, rowVars
<1>21. QED
  BY <1>6, <1>7, <1>8, <1>9, <1>10, <1>11, <1>12, <1>13, <1>14, <1>15, <1>16, <1>17, <1>18,
     <1>19, <1>20 DEF Next, Reader, Restore, FlushLoop

\* The link registry is a write-behind registry, its restore in the background
\* included, as long as loads succeed (links.go, Restore; main.go,
\* linkRestoreDone).
THEOREM RowsRefinement == Spec => LinksAreWriteBehind
<1>1. Init => Rows!Init
  <2> SUFFICES ASSUME Init PROVE Rows!Init
    OBVIOUS
  <2>1. Shown = NoLinks
    BY DEF Init, Shown, Unmerged, NoLinks
  <2>2. QED BY <2>1 DEF Init, Rows!Init, NoLinks, Rows!NoRows
<1>2. LinksInv /\ LinksInv' /\ [Next]_vars => [loadFailed' \/ UNCHANGED Rows!vars \/ Rows!Next]_vars
  BY RowsStep DEF LinksInv
<1>3. QED BY Invariance, <1>1, <1>2, PTL DEF Spec, LinksAreWriteBehind

=============================================================================
