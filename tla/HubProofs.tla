----------------------------- MODULE HubProofs -----------------------------
(***************************************************************************)
(* Proofs about the live feed, for any number of clients and keys, any     *)
(* buffer, window and bounds: no frame is sent on a closed channel, and    *)
(* an advert pulses once per window.                                       *)
(***************************************************************************)
EXTENDS Hub, TLAPS

\* The registered clients are those whose readPump has not removed them, and
\* a fan-out stays among them (live.go, add, remove and Broadcast).
ClientsInv ==
    /\ clients = {c \in Client : reading[c] \in {"reading", "failed"}}
    /\ closed = {c \in Client : reading[c] \in {"removed", "left"}}
    /\ IF step = "fanout" THEN unsent \subseteq clients ELSE unsent = {}

\* A mark says when its key was last pulsed, and one that is gone had expired
\* (live.go, markSeen).
SeenInv ==
    \A k \in Pulse :
        /\ pulsedAt[k] <= hubNow
        /\ seen[k] # 0 => pulsedAt[k] # 0 /\ seen[k] = pulsedAt[k] + LiveWindow
        /\ seen[k] = 0 /\ pulsedAt[k] # 0 => pulsedAt[k] + LiveWindow <= hubNow

\* The three parts of the invariant (live.go, Hub).
LEMMA Parts == HubIInv <=> HubTypeOK /\ ClientsInv /\ SeenInv
BY DEF HubIInv, ClientsInv, SeenInv

\* The feed starts without clients and marks (live.go, NewHub).
LEMMA InitOK == HubInit => HubTypeOK /\ ClientsInv /\ SeenInv
<1> SUFFICES ASSUME HubInit PROVE HubTypeOK /\ ClientsInv /\ SeenInv
  OBVIOUS
<1>1. HubTypeOK
  BY HubBoundsAssumption DEF HubInit, HubTypeOK, HubTime
<1>2. ClientsInv
  BY DEF HubInit, ClientsInv
<1>3. SeenInv
  BY DEF HubInit, SeenInv
<1>4. QED BY <1>1, <1>2, <1>3

\* Every step keeps the types (live.go).
LEMMA TypesStep == HubTypeOK /\ [HubNext]_hubVars => HubTypeOK'
<1> SUFFICES ASSUME HubTypeOK, [HubNext]_hubVars PROVE HubTypeOK'
  OBVIOUS
<1> USE DEF HubTypeOK
<1>1. ASSUME NEW k \in Pulse \cup {NoHash}, Broadcast(k) PROVE HubTypeOK'
  BY <1>1, HubBoundsAssumption DEF Broadcast, clientVars
<1>2. CASE markSeen
  <2>1. hubNow \in Nat /\ hubNow + LiveWindow \in Nat
    BY WindowAssumption, HubBoundsAssumption DEF HubTime
  <2>2. advert # NoHash => advert \in Pulse
    OBVIOUS
  <2>3. seen' \in [Pulse -> Nat]
    BY <1>2, <2>1 DEF markSeen, Purged
  <2>4. pulsedAt' \in [Pulse -> HubTime] /\ nextSweep' \in Nat
    BY <1>2, <2>1 DEF markSeen
  <2>5. step' \in {"idle", "counted", "marked", "fanout"}
    BY <1>2 DEF markSeen
  <2>6. UNCHANGED <<hubNow, clients, queue, closed, advert, unsent, pulses, clientVars>>
    BY <1>2 DEF markSeen
  <2>7. QED BY <2>3, <2>4, <2>5, <2>6 DEF clientVars
<1>3. CASE FanOut
  BY <1>3 DEF FanOut, clientVars
<1>4. CASE EndBroadcast
  BY <1>4 DEF EndBroadcast, clientVars
<1>5. ASSUME NEW c \in Client, Send(c) PROVE HubTypeOK'
  BY <1>5 DEF Send, clientVars
<1>6. ASSUME NEW c \in Client, Connect(c) PROVE HubTypeOK'
  BY <1>6 DEF Connect, broadcastVars
<1>7. ASSUME NEW c \in Client, Reader(c) PROVE HubTypeOK'
  BY <1>7 DEF Reader, ReadFails, remove, ReaderLeaves, broadcastVars
<1>8. ASSUME NEW c \in Client, Writer(c) PROVE HubTypeOK'
  <2>1. queue[c] # <<>> => Tail(queue[c]) \in Seq(Pulse \cup {NoHash})
    OBVIOUS
  <2>2. /\ queue' \in [Client -> Seq(Pulse \cup {NoHash})]
        /\ writing' \in [Client -> {"none", "writing", "left"}]
        /\ shut' \subseteq Client
    BY <1>8, <2>1 DEF Writer, WriteFrame, WriteFails, WriterLeaves, clientVars
  <2>3. UNCHANGED <<hubNow, clients, closed, broadcastVars, reading, lost>>
    BY <1>8 DEF Writer, WriteFrame, WriteFails, WriterLeaves, clientVars
  <2>4. QED BY <2>2, <2>3 DEF broadcastVars
<1>9. ASSUME NEW c \in Client, BrowserLeaves(c) PROVE HubTypeOK'
  BY <1>9 DEF BrowserLeaves, broadcastVars
<1>10. CASE HubTick
  BY <1>10, HubBoundsAssumption DEF HubTick, HubTime, broadcastVars, clientVars
<1>11. CASE UNCHANGED hubVars
  BY <1>11 DEF hubVars, broadcastVars, clientVars
<1>12. QED
  BY <1>1, <1>2, <1>3, <1>4, <1>5, <1>6, <1>7, <1>8, <1>9, <1>10, <1>11 DEF HubNext, Broadcasting

\* Every step keeps the clients: adding and removing wait for the lock that a
\* fan-out holds (live.go, add, remove).
LEMMA ClientsStep == HubTypeOK /\ ClientsInv /\ [HubNext]_hubVars => ClientsInv'
<1> SUFFICES ASSUME HubTypeOK, ClientsInv, [HubNext]_hubVars PROVE ClientsInv'
  OBVIOUS
<1> USE DEF ClientsInv
<1>1. ASSUME NEW k \in Pulse \cup {NoHash}, Broadcast(k) PROVE ClientsInv'
  BY <1>1 DEF Broadcast, clientVars
<1>2. CASE markSeen
  BY <1>2 DEF markSeen, clientVars
<1>3. CASE FanOut
  BY <1>3 DEF FanOut, clientVars
<1>4. CASE EndBroadcast
  BY <1>4 DEF EndBroadcast, clientVars
<1>5. ASSUME NEW c \in Client, Send(c) PROVE ClientsInv'
  BY <1>5 DEF Send, clientVars
<1> USE DEF HubTypeOK
<1>6. ASSUME NEW c \in Client, Connect(c) PROVE ClientsInv'
  BY <1>6 DEF Connect, broadcastVars
<1>7. ASSUME NEW c \in Client, ReadFails(c) PROVE ClientsInv'
  BY <1>7 DEF ReadFails, broadcastVars
<1>8. ASSUME NEW c \in Client, remove(c) PROVE ClientsInv'
  BY <1>8 DEF remove, broadcastVars
<1>9. ASSUME NEW c \in Client, ReaderLeaves(c) PROVE ClientsInv'
  BY <1>9 DEF ReaderLeaves, broadcastVars
<1>10. ASSUME NEW c \in Client, Writer(c) PROVE ClientsInv'
  BY <1>10 DEF Writer, WriteFrame, WriteFails, WriterLeaves, broadcastVars, clientVars
<1>11. ASSUME NEW c \in Client, BrowserLeaves(c) PROVE ClientsInv'
  BY <1>11 DEF BrowserLeaves, broadcastVars
<1>12. CASE HubTick \/ UNCHANGED hubVars
  BY <1>12 DEF HubTick, hubVars, broadcastVars, clientVars
<1>13. QED
  BY <1>1, <1>2, <1>3, <1>4, <1>5, <1>6, <1>7, <1>8, <1>9, <1>10, <1>11, <1>12
     DEF HubNext, Broadcasting, Reader

\* markSeen refreshes the mark of the advert and purges only marks that have
\* expired (live.go, markSeen).
LEMMA MarkSeenStep == HubTypeOK /\ SeenInv /\ markSeen => SeenInv'
<1> SUFFICES ASSUME HubTypeOK, SeenInv, markSeen, NEW k \in Pulse
             PROVE  /\ pulsedAt'[k] <= hubNow'
                    /\ seen'[k] # 0 => pulsedAt'[k] # 0 /\ seen'[k] = pulsedAt'[k] + LiveWindow
                    /\ seen'[k] = 0 /\ pulsedAt'[k] # 0 => pulsedAt'[k] + LiveWindow <= hubNow'
  BY DEF SeenInv
<1>1. /\ hubNow \in Nat \ {0} /\ LiveWindow \in Nat /\ LiveWindow > 0
      /\ seen[k] \in Nat /\ pulsedAt[k] \in Nat /\ hubNow' = hubNow
  BY WindowAssumption, HubBoundsAssumption DEF HubTypeOK, HubTime, markSeen
<1>2. /\ pulsedAt[k] <= hubNow
      /\ seen[k] # 0 => pulsedAt[k] # 0 /\ seen[k] = pulsedAt[k] + LiveWindow
      /\ seen[k] = 0 /\ pulsedAt[k] # 0 => pulsedAt[k] + LiveWindow <= hubNow
  BY DEF SeenInv
<1>3. CASE UNCHANGED <<seen, pulsedAt>>
  BY <1>1, <1>2, <1>3
<1>4. CASE ~UNCHANGED <<seen, pulsedAt>>
  <2> DEFINE marked == [seen EXCEPT ![advert] = hubNow + LiveWindow]
  <2>1. /\ seen[advert] <= hubNow /\ advert # NoHash
        /\ seen' = IF hubNow >= nextSweep THEN Purged(marked) ELSE marked
        /\ pulsedAt' = [pulsedAt EXCEPT ![advert] = hubNow]
    BY <1>4, <1>1 DEF markSeen, HubTypeOK
  <2>2. advert \in Pulse
    BY <2>1 DEF HubTypeOK
  <2>3. /\ marked[k] = IF k = advert THEN hubNow + LiveWindow ELSE seen[k]
        /\ pulsedAt'[k] = IF k = advert THEN hubNow ELSE pulsedAt[k]
    BY <2>1, <2>2 DEF HubTypeOK
  <2>4. seen'[k] = marked[k] \/ (marked[k] <= hubNow /\ seen'[k] = 0)
    BY <2>1 DEF Purged
  <2>5. CASE k = advert
    BY <1>1, <2>3, <2>4, <2>5
  <2>6. CASE k # advert
    BY <1>1, <1>2, <2>3, <2>4, <2>6
  <2>7. QED BY <2>5, <2>6
<1>5. QED BY <1>3, <1>4

\* Every step keeps the marks: the clock only advances and only markSeen
\* touches them (live.go).
LEMMA SeenStep == HubTypeOK /\ SeenInv /\ [HubNext]_hubVars => SeenInv'
<1> SUFFICES ASSUME HubTypeOK, SeenInv, [HubNext]_hubVars PROVE SeenInv'
  OBVIOUS
<1>1. CASE markSeen
  BY <1>1, MarkSeenStep
<1>2. CASE HubTick
  BY <1>2, WindowAssumption DEF HubTick, HubTypeOK, HubTime, SeenInv, broadcastVars
<1>3. CASE UNCHANGED <<hubNow, seen, pulsedAt>>
  BY <1>3 DEF SeenInv
<1>4. [HubNext]_hubVars => markSeen \/ HubTick \/ UNCHANGED <<hubNow, seen, pulsedAt>>
  BY DEF HubNext, Broadcasting, Broadcast, FanOut, EndBroadcast, Send, Connect, Reader, ReadFails,
         remove, ReaderLeaves, Writer, WriteFrame, WriteFails, WriterLeaves, BrowserLeaves,
         hubVars, broadcastVars
<1>5. QED BY <1>1, <1>2, <1>3, <1>4

\* The inductive invariant of the feed (live.go, Hub).
THEOREM Invariance == HubSpec => []HubIInv
<1>1. HubInit => HubIInv
  BY InitOK, Parts
<1>2. HubIInv /\ [HubNext]_hubVars => HubIInv'
  BY Parts, TypesStep, ClientsStep, SeenStep DEF HubIInv, ClientsInv, SeenInv
<1>3. QED BY <1>1, <1>2, PTL DEF HubSpec

\* A fan-out never sends on a channel that remove has closed (live.go:95-101,
\* live.go:141-144).
THEOREM SendsAreSafe == HubSpec => []NoSendAfterClose
<1>1. HubIInv => NoSendAfterClose
  BY DEF HubIInv, NoSendAfterClose
<1>2. QED BY Invariance, <1>1, PTL

\* Of the adverts of a hash, exactly those that come a window after its last
\* pulse pulse again (live.go:107-128).
THEOREM OncePerWindow == HubSpec => PulsesOncePerWindow
<1> DEFINE A == step = "counted" /\ step' # "counted" /\ advert # NoHash
                  => (step' = "marked" <=> \/ pulsedAt[advert] = 0
                                           \/ hubNow >= pulsedAt[advert] + LiveWindow)
<1>1. HubIInv /\ [HubNext]_hubVars => [A]_hubVars
  <2> SUFFICES ASSUME HubIInv, HubNext, step = "counted", step' # "counted", advert # NoHash
               PROVE  step' = "marked" <=> \/ pulsedAt[advert] = 0
                                           \/ hubNow >= pulsedAt[advert] + LiveWindow
    OBVIOUS
  <2>1. markSeen
    BY DEF HubNext, Broadcasting, Broadcast, FanOut, EndBroadcast, Send, Connect, Reader, ReadFails,
           remove, ReaderLeaves, Writer, WriteFrame, WriteFails, WriterLeaves, BrowserLeaves,
           HubTick, broadcastVars
  <2>2. advert \in Pulse
    BY DEF HubIInv, HubTypeOK
  <2>3. /\ hubNow \in Nat \ {0} /\ LiveWindow \in Nat \ {0}
        /\ seen[advert] \in Nat /\ pulsedAt[advert] \in Nat
    BY <2>2, WindowAssumption, HubBoundsAssumption DEF HubIInv, HubTypeOK, HubTime
  <2>4. step' = "marked" <=> seen[advert] <= hubNow
    BY <2>1, <2>3 DEF markSeen
  <2>5. /\ seen[advert] # 0 => /\ pulsedAt[advert] # 0
                               /\ seen[advert] = pulsedAt[advert] + LiveWindow
        /\ seen[advert] = 0 /\ pulsedAt[advert] # 0 => pulsedAt[advert] + LiveWindow <= hubNow
    BY <2>2 DEF HubIInv
  <2>6. QED BY <2>3, <2>4, <2>5
<1>2. HubSpec => [][A]_hubVars
  BY Invariance, <1>1, PTL DEF HubSpec
<1>3. QED BY <1>2 DEF PulsesOncePerWindow

=============================================================================
