------------------------------ MODULE Channel ------------------------------
(***************************************************************************)
(* What one send does to the queue of one receiver of the broadcast        *)
(* channel (src/bus.rs, Sender::send).  Shared by Bus, which models the    *)
(* channel itself, and by the modules whose components wait on one.        *)
(***************************************************************************)
EXTENDS Integers, Sequences

CONSTANT Capacity  \* the capacity given to Sender::channel

ASSUME CapacityAssumption == Capacity \in Nat

\* capacity.max(1)
Cap == IF Capacity < 1 THEN 1 ELSE Capacity

MutQueuedDropNewest(q, v) == IF Len(q) >= Cap THEN q ELSE Append(q, v)

\* The queue after a send: a full one gives up its oldest value.
Queued(q, v) == Append(IF Len(q) >= Cap THEN Tail(q) ELSE q, v)

\* The number of lost values not yet reported, after a send.
Missed(q, n) == IF Len(q) >= Cap THEN n + 1 ELSE n
=============================================================================
