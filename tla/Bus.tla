-------------------------------- MODULE Bus --------------------------------
(***************************************************************************)
(* The bounded async broadcast channel (src/bus.rs) under every stream of  *)
(* the crate: per-key query updates, the client-wide stream, activity      *)
(* events and the broadcast transport.                                     *)
(*                                                                         *)
(* Every operation holds the mutex of Shared for its whole critical        *)
(* section, so an operation is one action; the wakers an operation         *)
(* collects are woken after the lock is released, which is the separate    *)
(* action Wake.  The channel never looks at a value, so a value is the     *)
(* number of sends before it plus one.                                     *)
(***************************************************************************)
EXTENDS Integers, Sequences, Channel

CONSTANTS Receivers,  \* receiver ids (next_id never reuses one)
          Senders,    \* sender handles
          MaxSend,    \* bound: sends explored
          RxClone     \* whether Receiver::clone is called

ASSUME BusAssumption == /\ MaxSend \in Nat
                        /\ RxClone \in BOOLEAN

VARIABLES nsent,        \* sends so far (the newest value)
          senders,      \* live Sender handles
          senderCount,  \* Shared.sender_count
          sendersAlive, \* Shared.senders_alive
          phase,        \* receiver handle: "unused", "live" (in the map), "dropped"
          queue,        \* RecvState.queue
          missed,       \* RecvState.missed
          alive,        \* RecvState.alive
          waker,        \* RecvState.waker is Some
          task,         \* the task that polls the receiver: "run" or "asleep"
          wakes,        \* receivers whose waker was taken but not yet woken
          out           \* what the last poll of each receiver returned

vars == <<nsent, senders, senderCount, sendersAlive, phase, queue, missed,
          alive, waker, task, wakes, out>>

Live == {r \in Receivers : phase[r] = "live"}

\* Sender::channel: one sender and the initial receiver.
Init == /\ nsent = 0
        /\ \E s \in Senders : senders = {s}
        /\ senderCount = 1
        /\ sendersAlive = TRUE
        /\ \E r \in Receivers :
              phase = [x \in Receivers |-> IF x = r THEN "live" ELSE "unused"]
        /\ queue = [r \in Receivers |-> <<>>]
        /\ missed = [r \in Receivers |-> 0]
        /\ alive = [r \in Receivers |-> TRUE]
        /\ waker = [r \in Receivers |-> FALSE]
        /\ task = [r \in Receivers |-> "run"]
        /\ wakes = {}
        /\ out = [r \in Receivers |-> "none"]

\* Sender::subscribe: a fresh RecvState that starts "now".
Subscribe(s, r) ==
  /\ s \in senders
  /\ phase[r] = "unused"
  /\ phase' = [phase EXCEPT ![r] = "live"]
  /\ UNCHANGED <<nsent, senders, senderCount, sendersAlive, queue, missed,
                 alive, waker, task, wakes, out>>

MutSendKeepsWakers(s) ==
  /\ s \in senders
  /\ nsent < MaxSend
  /\ nsent' = nsent + 1
  /\ queue' = [r \in Receivers |->
                 IF r \in Live /\ alive[r] THEN Queued(queue[r], nsent + 1) ELSE queue[r]]
  /\ missed' = [r \in Receivers |->
                 IF r \in Live /\ alive[r] THEN Missed(queue[r], missed[r]) ELSE missed[r]]
  /\ UNCHANGED <<senders, senderCount, sendersAlive, phase, alive, waker, task, wakes, out>>

\* Sender::send: queue for every live receiver, take the wakers.
Send(s) ==
  /\ s \in senders
  /\ nsent < MaxSend
  /\ nsent' = nsent + 1
  /\ LET reached == {r \in Live : alive[r]}
     IN /\ queue' = [r \in Receivers |->
                       IF r \in reached THEN Queued(queue[r], nsent + 1) ELSE queue[r]]
        /\ missed' = [r \in Receivers |->
                       IF r \in reached THEN Missed(queue[r], missed[r]) ELSE missed[r]]
        /\ wakes' = wakes \cup {r \in reached : waker[r]}
        /\ waker' = [r \in Receivers |-> IF r \in reached THEN FALSE ELSE waker[r]]
  /\ UNCHANGED <<senders, senderCount, sendersAlive, phase, alive, task, out>>

\* Sender::clone
CloneSender(s, t) ==
  /\ s \in senders
  /\ t \notin senders
  /\ senders' = senders \cup {t}
  /\ senderCount' = senderCount + 1
  /\ UNCHANGED <<nsent, sendersAlive, phase, queue, missed, alive, waker, task, wakes, out>>

\* <Sender as Drop>::drop on the shared state: saturating decrement, and the
\* last one closes the stream and takes every waker.
ReleaseSender ==
  /\ senderCount' = IF senderCount = 0 THEN 0 ELSE senderCount - 1
  /\ IF senderCount <= 1
     THEN /\ sendersAlive' = FALSE
          /\ wakes' = wakes \cup {r \in Live : waker[r]}
          /\ waker' = [r \in Receivers |-> IF r \in Live THEN FALSE ELSE waker[r]]
     ELSE UNCHANGED <<sendersAlive, wakes, waker>>

DropSender(s) ==
  /\ s \in senders
  /\ senders' = senders \ {s}
  /\ ReleaseSender
  /\ UNCHANGED <<nsent, phase, queue, missed, alive, task, out>>

\* Receiver::clone builds a Sender around the shared state without counting
\* it, subscribes through it and drops it.
CloneReceiver(q, r) ==
  /\ RxClone
  /\ q \in Live
  /\ phase[r] = "unused"
  /\ phase' = [phase EXCEPT ![r] = "live"]
  /\ ReleaseSender
  /\ UNCHANGED <<nsent, senders, queue, missed, alive, task, out>>

\* A poll of Recv, or try_recv, by the task that owns receiver r.
Polls(r) == phase[r] = "live" /\ task[r] = "run"

MutLagDropsQueue(r) ==
  /\ Polls(r)
  /\ missed[r] > 0
  /\ missed' = [missed EXCEPT ![r] = 0]
  /\ queue' = [queue EXCEPT ![r] = <<>>]
  /\ out' = [out EXCEPT ![r] = "lagged"]
  /\ UNCHANGED <<nsent, senders, senderCount, sendersAlive, phase,
                 alive, waker, task, wakes>>

MutLagKept(r) ==
  /\ Polls(r)
  /\ missed[r] > 0
  /\ out' = [out EXCEPT ![r] = "lagged"]
  /\ UNCHANGED <<nsent, senders, senderCount, sendersAlive, phase, queue, missed,
                 alive, waker, task, wakes>>

\* poll_state: the lag notice comes before any queued value.
RecvLagged(r) ==
  /\ Polls(r)
  /\ missed[r] > 0
  /\ missed' = [missed EXCEPT ![r] = 0]
  /\ out' = [out EXCEPT ![r] = "lagged"]
  /\ UNCHANGED <<nsent, senders, senderCount, sendersAlive, phase, queue,
                 alive, waker, task, wakes>>

\* poll_state: the oldest queued value.
RecvValue(r) ==
  /\ Polls(r)
  /\ missed[r] = 0
  /\ queue[r] # <<>>
  /\ queue' = [queue EXCEPT ![r] = Tail(queue[r])]
  /\ out' = [out EXCEPT ![r] = "value"]
  /\ UNCHANGED <<nsent, senders, senderCount, sendersAlive, phase, missed,
                 alive, waker, task, wakes>>

\* poll_state: nothing queued and senders_alive is false.
RecvClosed(r) ==
  /\ Polls(r)
  /\ missed[r] = 0
  /\ queue[r] = <<>>
  /\ ~sendersAlive
  /\ alive' = [alive EXCEPT ![r] = FALSE]
  /\ out' = [out EXCEPT ![r] = "closed"]
  /\ UNCHANGED <<nsent, senders, senderCount, sendersAlive, phase, queue,
                 missed, waker, task, wakes>>

Empty(r) == missed[r] = 0 /\ queue[r] = <<>> /\ sendersAlive

\* Recv::poll returns Pending: the waker is registered under the lock.
RecvPark(r) ==
  /\ Polls(r)
  /\ Empty(r)
  /\ waker' = [waker EXCEPT ![r] = TRUE]
  /\ task' = [task EXCEPT ![r] = "asleep"]
  /\ out' = [out EXCEPT ![r] = "empty"]
  /\ UNCHANGED <<nsent, senders, senderCount, sendersAlive, phase, queue,
                 missed, alive, wakes>>

\* try_recv on an empty queue registers nothing.
TryRecvEmpty(r) ==
  /\ Polls(r)
  /\ Empty(r)
  /\ out' = [out EXCEPT ![r] = "empty"]
  /\ UNCHANGED <<nsent, senders, senderCount, sendersAlive, phase, queue,
                 missed, alive, waker, task, wakes>>

\* waker.wake(), after the sender released the lock.
Wake(r) ==
  /\ r \in wakes
  /\ wakes' = wakes \ {r}
  /\ task' = [task EXCEPT ![r] = "run"]
  /\ UNCHANGED <<nsent, senders, senderCount, sendersAlive, phase, queue,
                 missed, alive, waker, out>>

\* The task is polled for another reason (it awaits recv inside a select);
\* the registered waker stays.
SpuriousPoll(r) ==
  /\ r \in Live
  /\ task[r] = "asleep"
  /\ task' = [task EXCEPT ![r] = "run"]
  /\ UNCHANGED <<nsent, senders, senderCount, sendersAlive, phase, queue,
                 missed, alive, waker, wakes, out>>

\* <Receiver as Drop>::drop removes the RecvState.
DropReceiver(r) ==
  /\ r \in Live
  /\ phase' = [phase EXCEPT ![r] = "dropped"]
  /\ UNCHANGED <<nsent, senders, senderCount, sendersAlive, queue, missed,
                 alive, waker, task, wakes, out>>

Recv(r) == RecvLagged(r) \/ RecvValue(r) \/ RecvClosed(r) \/ RecvPark(r)

Next ==
  \/ \E s \in Senders : Send(s) \/ DropSender(s)
  \/ \E s, t \in Senders : CloneSender(s, t)
  \/ \E s \in Senders, r \in Receivers : Subscribe(s, r)
  \/ \E q, r \in Receivers : CloneReceiver(q, r)
  \/ \E r \in Receivers : \/ Recv(r) \/ TryRecvEmpty(r)
                          \/ Wake(r) \/ SpuriousPoll(r) \/ DropReceiver(r)

\* Wakers are woken, and a runnable task that awaits recv is polled by its
\* executor.  Nothing is assumed of senders.
Fairness == \A r \in Receivers : WF_vars(Wake(r)) /\ WF_vars(Recv(r))

Spec == Init /\ [][Next]_vars /\ Fairness

-----------------------------------------------------------------------------
(***************************************************************************)
(* Properties                                                              *)
(***************************************************************************)

\* Type correctness of the channel state of src/bus.rs.
TypeOK ==
  /\ nsent \in Nat
  /\ senders \subseteq Senders
  /\ senderCount \in Nat
  /\ sendersAlive \in BOOLEAN
  /\ phase \in [Receivers -> {"unused", "live", "dropped"}]
  /\ queue \in [Receivers -> Seq(Nat)]
  /\ missed \in [Receivers -> Nat]
  /\ alive \in [Receivers -> BOOLEAN]
  /\ waker \in [Receivers -> BOOLEAN]
  /\ task \in [Receivers -> {"run", "asleep"}]
  /\ wakes \subseteq Receivers
  /\ out \in [Receivers -> {"none", "value", "lagged", "closed", "empty"}]

\* Whatever the order of sends, receives, lag notices and subscriptions, the
\* queue of a receiver that still listens is exactly the newest values sent,
\* in order and without a gap, so the value lost to a full queue is always the
\* oldest one (bus.rs Sender::send).
QueueIsNewestSuffix ==
  \A r \in Live : alive[r] =>
    \A i \in 1..Len(queue[r]) : queue[r][i] = nsent - Len(queue[r]) + i

\* A lag notice is pending only while the queue is full and it never exceeds
\* its capacity: a receiver that is told Lagged(n) has exactly Cap values left
\* to read (bus.rs send / poll_state).
LagMeansFull ==
  \A r \in Live : /\ Len(queue[r]) <= Cap
                  /\ missed[r] > 0 => Len(queue[r]) = Cap

\* No lost wakeup: a receiver task that sleeps while it has a value, a lag
\* notice or the end of the stream to observe has a wake on its way
\* (bus.rs poll_state registers the waker under the lock that send and the
\* drop of the last sender take).
NoLostWakeup ==
  \A r \in Live :
    (task[r] = "asleep" /\ ~Empty(r)) => r \in wakes

\* bus.rs:16 "When every sender is gone, receives resolve with Closed": a
\* receiver is told Closed only when no Sender handle is left.
ClosedMeansNoSender ==
  \A r \in Live : out[r] = "closed" => senders = {}

\* Everything sent to a listening receiver is eventually read from its queue
\* or the receiver is dropped: a parked recv is woken by the send.
SentIsObserved ==
  \A r \in Receivers :
    (phase[r] = "live" /\ alive[r] /\ queue[r] # <<>>)
      ~> (phase[r] = "dropped" \/ queue[r] = <<>>)

\* The channel implements the broadcast log: every step is a step of
\* BroadcastLog or leaves the log and the positions alone.
Log == INSTANCE BroadcastLog WITH
         pos <- [r \in Receivers |-> IF phase[r] = "live"
                                     THEN nsent - Len(queue[r]) - missed[r]
                                     ELSE -1],
         ended <- {r \in Receivers : ~alive[r]}

\* bus.rs as a whole: ordered delivery, exact lag accounting, Closed last.
ImplementsLog == Log!Spec
=============================================================================
