---------------------------- MODULE BroadcastLog ----------------------------
(***************************************************************************)
(* What the bounded broadcast channel of src/bus.rs promises, without its  *)
(* queues, its wakers and its lock.  There is one log of sent values and   *)
(* each receiver has a position in it: the number of values it has been    *)
(* given or told about.  A receiver at most Cap values behind is given the *)
(* next value; one further behind is told how many it lost and continues   *)
(* exactly Cap values behind; the end of the stream is reported only to a  *)
(* receiver that has seen everything, after the last sender is gone.       *)
(***************************************************************************)
EXTENDS Integers

CONSTANTS Receivers,  \* receiver handles
          Senders,    \* sender handles
          Cap         \* values kept for a receiver that falls behind

VARIABLES nsent,      \* number of values sent so far: the log is 1..nsent
          pos,        \* pos[r]: last value accounted for, NoPos if not joined
          ended,      \* receivers that were told the stream is over
          senders     \* live sender handles

vars == <<nsent, pos, ended, senders>>

\* The position of a handle that is not subscribed.
NoPos == -1

Init == /\ nsent = 0
        /\ \E r \in Receivers : pos = [x \in Receivers |-> IF x = r THEN 0 ELSE NoPos]
        /\ ended = {}
        /\ \E s \in Senders : senders = {s}

\* A value is appended to the log.
Publish == /\ senders # {}
           /\ nsent' = nsent + 1
           /\ UNCHANGED <<pos, ended, senders>>

\* A receiver joins at "now": nothing sent before is owed to it.
Join(r) == /\ pos[r] = NoPos
           /\ r \notin ended
           /\ pos' = [pos EXCEPT ![r] = nsent]
           /\ UNCHANGED <<nsent, ended, senders>>

Leave(r) == /\ pos[r] # NoPos
            /\ pos' = [pos EXCEPT ![r] = NoPos]
            /\ UNCHANGED <<nsent, ended, senders>>

\* The next value in order, to a receiver that has lost nothing.
Deliver(r) == /\ r \notin ended
              /\ pos[r] # NoPos
              /\ nsent - pos[r] \in 1..Cap
              /\ pos' = [pos EXCEPT ![r] = pos[r] + 1]
              /\ UNCHANGED <<nsent, ended, senders>>

\* The lag notice: it accounts for all but the newest Cap values.
Skip(r) == /\ r \notin ended
           /\ pos[r] # NoPos
           /\ nsent - pos[r] > Cap
           /\ pos' = [pos EXCEPT ![r] = nsent - Cap]
           /\ UNCHANGED <<nsent, ended, senders>>

\* The end of the stream: nothing left to account for and nobody to send.
End(r) == /\ pos[r] = nsent
          /\ senders = {}
          /\ ended' = ended \cup {r}
          /\ UNCHANGED <<nsent, pos, senders>>

\* Sender handles are cloned from live ones and dropped.
Handles == /\ senders # {}
           /\ \E s \in Senders : senders' \in {senders \cup {s}, senders \ {s}}
           /\ UNCHANGED <<nsent, pos, ended>>

Next == \/ Publish
        \/ Handles
        \/ \E r \in Receivers : Join(r) \/ Leave(r) \/ Deliver(r) \/ Skip(r) \/ End(r)

Spec == Init /\ [][Next]_vars
=============================================================================
