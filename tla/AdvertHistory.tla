--------------------------- MODULE AdvertHistory ---------------------------
(***************************************************************************)
(* What the append-only adverts history promises, whatever buffers and     *)
(* transactions implement it (nodes.go, ClearPending and the comment on    *)
(* NodeRegistry.pending; db.go, AppendAdverts): there is one log of the    *)
(* adverts heard, in the order they were heard; a prefix of it is durable; *)
(* the prefix only grows; a crash cuts the log down to that prefix.  So no *)
(* advert is stored twice, out of order or with a gap before it.           *)
(***************************************************************************)
EXTENDS Naturals, Sequences

CONSTANT Entry  \* the adverts

VARIABLES
    log,     \* adverts heard and not lost, oldest first
    durable  \* how many of them are in the table

vars == <<log, durable>>

TypeOK ==
    /\ log \in Seq(Entry)
    /\ durable \in 0..Len(log)

Init ==
    /\ log = <<>>
    /\ durable = 0

Hear ==
    /\ \E a \in Entry : log' = Append(log, a)
    /\ UNCHANGED durable

Persist ==
    /\ durable' \in (durable + 1)..Len(log)
    /\ UNCHANGED log

Lose ==
    /\ log' = SubSeq(log, 1, durable)
    /\ UNCHANGED durable

Next == Hear \/ Persist \/ Lose

Spec == Init /\ [][Next]_vars
=============================================================================
