-------------------------------- MODULE Hub --------------------------------
(***************************************************************************)
(* The live advert feed (live.go).  The reader of the stream broadcasts    *)
(* each advert: it looks whether anyone listens, drops what the feed has   *)
(* already pulsed in the window, and offers the frame to every client      *)
(* without waiting for any.  A client has two goroutines, a reader that    *)
(* removes it when the connection fails and a writer that drains its       *)
(* channel.  The clients are behind a lock: broadcasting holds it shared,  *)
(* add and remove hold it alone, so they wait while step = "fanout".       *)
(***************************************************************************)
EXTENDS Integers, Sequences

CONSTANTS
    Client,      \* connections, each used once
    Pulse,       \* "network:hash" keys of adverts
    NoHash,      \* an advert without a content hash, which is never dropped
    BufferSize,  \* liveSendBuffer
    LiveWindow,  \* liveDedupWindow
    HubMaxTime,  \* bound: the clock
    MaxPulses    \* bound: adverts broadcast

ASSUME NoHashAssumption == NoHash \notin Pulse
ASSUME BufferAssumption == BufferSize \in Nat \ {0}
ASSUME WindowAssumption == LiveWindow \in Nat \ {0}
ASSUME HubBoundsAssumption == HubMaxTime \in Nat \ {0} /\ MaxPulses \in Nat

HubTime == 0..HubMaxTime

VARIABLES
    hubNow,     \* the wall clock
    clients,    \* Hub.clients
    seen,       \* Hub.seen: key -> expiry, 0 for a key that is not there
    nextSweep,  \* Hub.nextSweep
    step,       \* Broadcast: "idle", "counted", "marked", "fanout"
    advert,     \* the key of the advert it broadcasts
    unsent,     \* clients its fan-out has not come to
    queue,      \* Client -> the frames in its channel
    closed,     \* clients whose channel is closed
    reading,    \* Client -> readPump: "none", "reading", "failed", "removed", "left"
    writing,    \* Client -> writePump: "none", "writing", "left"
    shut,       \* clients whose connection is closed on this side
    lost,       \* clients whose browser has stalled or gone
    pulsedAt,   \* history: key -> when it was last pulsed, 0 for never
    pulses      \* adverts broadcast so far

broadcastVars == <<seen, nextSweep, step, advert, unsent, pulsedAt, pulses>>
clientVars    == <<reading, writing, shut, lost>>
hubVars       == <<hubNow, clients, queue, closed, broadcastVars, clientVars>>

HubInit ==
    /\ hubNow = 1
    /\ clients = {}
    /\ seen = [k \in Pulse |-> 0]
    /\ nextSweep = 0
    /\ step = "idle"
    /\ advert = NoHash
    /\ unsent = {}
    /\ queue = [c \in Client |-> <<>>]
    /\ closed = {}
    /\ reading = [c \in Client |-> "none"]
    /\ writing = [c \in Client |-> "none"]
    /\ shut = {}
    /\ lost = {}
    /\ pulsedAt = [k \in Pulse |-> 0]
    /\ pulses = 0

HubTypeOK ==
    /\ hubNow \in HubTime \ {0}
    /\ clients \subseteq Client
    /\ seen \in [Pulse -> Nat]
    /\ nextSweep \in Nat
    /\ step \in {"idle", "counted", "marked", "fanout"}
    /\ advert \in Pulse \cup {NoHash}
    /\ unsent \subseteq Client
    /\ queue \in [Client -> Seq(Pulse \cup {NoHash})]
    /\ closed \subseteq Client
    /\ reading \in [Client -> {"none", "reading", "failed", "removed", "left"}]
    /\ writing \in [Client -> {"none", "writing", "left"}]
    /\ shut \subseteq Client
    /\ lost \subseteq Client
    /\ pulsedAt \in [Pulse -> HubTime]
    /\ pulses \in 0..MaxPulses

-----------------------------------------------------------------------------
(* Broadcast, called by the one reader of the stream.                      *)

\* The count of the listeners, under the shared lock; nobody: return.
Broadcast(k) ==
    /\ step = "idle"
    /\ pulses < MaxPulses
    /\ clients # {}
    /\ step' = "counted"
    /\ advert' = k
    /\ pulses' = pulses + 1
    /\ UNCHANGED <<hubNow, clients, queue, closed, seen, nextSweep, unsent, pulsedAt, clientVars>>

\* Mutant of Purged: compares with the time of the mark instead of the expiry.
PurgedEarly(s) == [k \in Pulse |-> IF s[k] <= hubNow + LiveWindow - 1 THEN 0 ELSE s[k]]

\* The purge of expired entries that markSeen does now and then.
Purged(s) == [k \in Pulse |-> IF s[k] <= hubNow THEN 0 ELSE s[k]]

\* markSeen.  An advert without hash passes unmarked.
markSeen ==
    /\ step = "counted"
    /\ IF advert = NoHash THEN /\ step' = "marked"
                               /\ UNCHANGED <<seen, nextSweep, pulsedAt>>
       ELSE IF seen[advert] > hubNow THEN /\ step' = "idle"
                                          /\ UNCHANGED <<seen, nextSweep, pulsedAt>>
       ELSE LET marked == [seen EXCEPT ![advert] = hubNow + LiveWindow] IN
            /\ step' = "marked"
            /\ seen' = IF hubNow >= nextSweep THEN Purged(marked) ELSE marked
            /\ nextSweep' = IF hubNow >= nextSweep THEN hubNow + LiveWindow ELSE nextSweep
            /\ pulsedAt' = [pulsedAt EXCEPT ![advert] = hubNow]
    /\ UNCHANGED <<hubNow, clients, queue, closed, advert, unsent, pulses, clientVars>>

\* The shared lock is taken.
FanOut ==
    /\ step = "marked"
    /\ step' = "fanout"
    /\ unsent' = clients
    /\ UNCHANGED <<hubNow, clients, queue, closed, seen, nextSweep, advert, pulsedAt, pulses, clientVars>>

\* Mutant of Send: waits for room in the channel, under the lock.
SendBlocks(c) ==
    /\ step = "fanout"
    /\ c \in unsent
    /\ Len(queue[c]) < BufferSize
    /\ unsent' = unsent \ {c}
    /\ queue' = [queue EXCEPT ![c] = Append(@, advert)]
    /\ UNCHANGED <<hubNow, clients, closed, seen, nextSweep, step, advert, pulsedAt, pulses, clientVars>>

\* A client that is behind misses the frame.
Send(c) ==
    /\ step = "fanout"
    /\ c \in unsent
    /\ unsent' = unsent \ {c}
    /\ queue' = IF Len(queue[c]) < BufferSize
                THEN [queue EXCEPT ![c] = Append(@, advert)] ELSE queue
    /\ UNCHANGED <<hubNow, clients, closed, seen, nextSweep, step, advert, pulsedAt, pulses, clientVars>>

\* The lock is released.
EndBroadcast ==
    /\ step = "fanout"
    /\ unsent = {}
    /\ step' = "idle"
    /\ UNCHANGED <<hubNow, clients, queue, closed, seen, nextSweep, advert, unsent, pulsedAt, pulses, clientVars>>

-----------------------------------------------------------------------------
(* The clients.                                                            *)

\* ServeWS up to the start of the two pumps.
Connect(c) ==
    /\ step # "fanout"
    /\ reading[c] = "none"
    /\ clients' = clients \cup {c}
    /\ reading' = [reading EXCEPT ![c] = "reading"]
    /\ writing' = [writing EXCEPT ![c] = "writing"]
    /\ UNCHANGED <<hubNow, queue, closed, broadcastVars, shut, lost>>

\* readPump: reading fails when the connection is closed on either side, or
\* when the pongs of a stalled browser stay out until the deadline.
ReadFails(c) ==
    /\ reading[c] = "reading"
    /\ c \in lost \cup shut
    /\ reading' = [reading EXCEPT ![c] = "failed"]
    /\ UNCHANGED <<hubNow, clients, queue, closed, broadcastVars, writing, shut, lost>>

\* Mutant of remove: closes the channel before it takes the lock.
removeUnlocked(c) ==
    /\ reading[c] = "failed"
    /\ clients' = clients \ {c}
    /\ closed' = closed \cup {c}
    /\ reading' = [reading EXCEPT ![c] = "removed"]
    /\ UNCHANGED <<hubNow, queue, broadcastVars, writing, shut, lost>>

\* remove, with the channel closed under the lock.
remove(c) ==
    /\ step # "fanout"
    /\ reading[c] = "failed"
    /\ clients' = clients \ {c}
    /\ closed' = closed \cup {c}
    /\ reading' = [reading EXCEPT ![c] = "removed"]
    /\ UNCHANGED <<hubNow, queue, broadcastVars, writing, shut, lost>>

\* conn.Close at the end of readPump.
ReaderLeaves(c) ==
    /\ reading[c] = "removed"
    /\ reading' = [reading EXCEPT ![c] = "left"]
    /\ shut' = shut \cup {c}
    /\ UNCHANGED <<hubNow, clients, queue, closed, broadcastVars, writing, lost>>

\* writePump sends the next frame; what a stalled or lost browser is sent may
\* still go into the buffers of the connection.
WriteFrame(c) ==
    /\ writing[c] = "writing"
    /\ queue[c] # <<>>
    /\ c \notin shut
    /\ queue' = [queue EXCEPT ![c] = Tail(@)]
    /\ UNCHANGED <<hubNow, clients, closed, broadcastVars, clientVars>>

\* A frame or a ping cannot be written: writePump returns and closes the
\* connection.
WriteFails(c) ==
    /\ writing[c] = "writing"
    /\ c \in lost \cup shut
    /\ writing' = [writing EXCEPT ![c] = "left"]
    /\ shut' = shut \cup {c}
    /\ \/ UNCHANGED queue
       \/ queue[c] # <<>> /\ queue' = [queue EXCEPT ![c] = Tail(@)]
    /\ UNCHANGED <<hubNow, clients, closed, broadcastVars, reading, lost>>

\* The channel is closed and drained: a close message, and the end.
WriterLeaves(c) ==
    /\ writing[c] = "writing"
    /\ c \in closed
    /\ queue[c] = <<>>
    /\ writing' = [writing EXCEPT ![c] = "left"]
    /\ shut' = shut \cup {c}
    /\ UNCHANGED <<hubNow, clients, queue, closed, broadcastVars, reading, lost>>

-----------------------------------------------------------------------------
(* The environment.                                                        *)

BrowserLeaves(c) ==
    /\ reading[c] # "none"
    /\ lost' = lost \cup {c}
    /\ UNCHANGED <<hubNow, clients, queue, closed, broadcastVars, reading, writing, shut>>

HubTick ==
    /\ hubNow < HubMaxTime
    /\ hubNow' = hubNow + 1
    /\ UNCHANGED <<clients, queue, closed, broadcastVars, clientVars>>

Broadcasting == markSeen \/ FanOut \/ EndBroadcast \/ \E c \in Client : Send(c)

Reader(c) == ReadFails(c) \/ remove(c) \/ ReaderLeaves(c)
Writer(c) == WriteFrame(c) \/ WriteFails(c) \/ WriterLeaves(c)

HubNext ==
    \/ \E k \in Pulse \cup {NoHash} : Broadcast(k)
    \/ Broadcasting
    \/ \E c \in Client : Connect(c) \/ Reader(c) \/ Writer(c) \/ BrowserLeaves(c)
    \/ HubTick

\* The goroutines run: Go schedules them, and every wait has a deadline.  The
\* writer of a lost browser need not fail before the reader does.
HubFairness ==
    /\ WF_hubVars(Broadcasting)
    /\ \A c \in Client : WF_hubVars(Reader(c)) /\ WF_hubVars(Writer(c))

HubSpec == HubInit /\ [][HubNext]_hubVars /\ HubFairness

-----------------------------------------------------------------------------
(* Properties.                                                             *)

\* Broadcast sends to clients it found registered while remove closes the
\* channels of clients that fail (live.go:95-101, live.go:141-144): a frame is
\* never sent on a closed channel, which would panic the reader of the stream.
NoSendAfterClose == step = "fanout" => unsent \cap closed = {}

\* An advert repeated by other observers pulses again exactly when its last
\* pulse is a window old, whatever markSeen has purged in between
\* (live.go:107-128).
PulsesOncePerWindow ==
    [][step = "counted" /\ step' # "counted" /\ advert # NoHash
         => (step' = "marked" <=> \/ pulsedAt[advert] = 0
                                  \/ hubNow >= pulsedAt[advert] + LiveWindow)]_hubVars

\* A browser that goes away or stalls is removed, and both its goroutines end
\* (live.go:165-207): neither a full channel nor the lock keeps it for ever.
ClientsLeave ==
    \A c \in Client :
        c \in lost ~> c \notin clients /\ reading[c] = "left" /\ writing[c] = "left"

\* What makes the first two hold: the clients are those whose reader runs, a
\* fan-out keeps them registered, and a key that was purged has expired.
HubIInv ==
    /\ HubTypeOK
    /\ clients = {c \in Client : reading[c] \in {"reading", "failed"}}
    /\ closed = {c \in Client : reading[c] \in {"removed", "left"}}
    /\ IF step = "fanout" THEN unsent \subseteq clients ELSE unsent = {}
    /\ \A k \in Pulse :
           /\ pulsedAt[k] <= hubNow
           /\ seen[k] # 0 => pulsedAt[k] # 0 /\ seen[k] = pulsedAt[k] + LiveWindow
           /\ seen[k] = 0 /\ pulsedAt[k] # 0 => pulsedAt[k] + LiveWindow <= hubNow

=============================================================================
