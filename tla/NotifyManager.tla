--------------------------- MODULE NotifyManager ---------------------------
(***************************************************************************)
(* Batched notifications (src/notify_manager.rs): a queue of callbacks and *)
(* the depth of open batches, shared by every clone of the manager.        *)
(*                                                                         *)
(* A thread is the stack of calls it is inside of: the body of a batch, a  *)
(* notify about to load the depth, a flush about to drain the queue, or a  *)
(* flush running what it drained.  A callback may itself call notify.      *)
(***************************************************************************)
EXTENDS Integers, Sequences, SequencesExt, FiniteSets

CONSTANTS
  Threads,   \* threads that hold a clone of the manager
  MaxNest    \* bound: batches of one thread inside one another

ASSUME NotifyAssumption == IsFiniteSet(Threads)

VARIABLES
  notifyPlan,   \* how many calls are left and which threads and calls there are
  notifyQueue,  \* queue: callbacks queued, oldest first
  depth,        \* batch_depth
  calls,        \* thread -> its stack of calls, innermost last
  ran,          \* callbacks in the order they ran
  lost,         \* callbacks that a panic took down with their flush
  issued        \* callbacks made so far: they are numbered 1 .. issued

notifyVars == <<notifyPlan, notifyQueue, depth, calls, ran, lost, issued>>

Calls == {"notify", "echo", "batch", "flush", "panic"}

\* Nothing is ever called.
NotifyQuiet == [budget |-> 0, threads |-> {}, ops |-> {}]

NotifyInitFor(p) ==
  /\ notifyPlan = p
  /\ notifyQueue = <<>>
  /\ depth = 0
  /\ calls = [t \in Threads |-> <<>>]
  /\ ran = <<>>
  /\ lost = {}
  /\ issued = 0

Call(where) == [at |-> where, pending |-> <<>>]
Running(pending) == [at |-> "run", pending |-> pending]
InnerAt(t, where) == calls[t] # <<>> /\ Last(calls[t]).at = where

\* The calls of thread t once its innermost call has become cs.
Inner(t, cs) == [calls EXCEPT ![t] = Front(@) \o cs]

\* Thread t enters call c.
Enter(t, c) == [calls EXCEPT ![t] = Append(@, c)]

\* A callback knows whether it notifies in turn.
Callback(echo) == [id |-> issued + 1, echo |-> echo]

\* Code of the application runs outside of any call or in the body of a batch.
Calling(t, op) ==
  /\ t \in notifyPlan.threads /\ op \in notifyPlan.ops /\ notifyPlan.budget > 0
  /\ calls[t] = <<>> \/ InnerAt(t, "batch")
  /\ notifyPlan' = [notifyPlan EXCEPT !.budget = @ - 1]

-----------------------------------------------------------------------------

MutNotify(t, op) ==
  /\ op \in {"notify", "echo"} /\ Calling(t, op)
  /\ issued' = issued + 1
  /\ notifyQueue' = Append(notifyQueue, Callback(op = "echo"))
  /\ UNCHANGED <<depth, calls, ran, lost>>

\* notify: the callback is queued first, the depth is looked at afterwards.
Notify(t, op) ==
  /\ op \in {"notify", "echo"} /\ Calling(t, op)
  /\ issued' = issued + 1
  /\ notifyQueue' = Append(notifyQueue, Callback(op = "echo"))
  /\ calls' = Enter(t, Call("load"))
  /\ UNCHANGED <<depth, ran, lost>>

LoadDepth(t) ==
  /\ InnerAt(t, "load")
  /\ calls' = Inner(t, IF depth = 0 THEN <<Call("drain")>> ELSE <<>>)
  /\ UNCHANGED <<notifyPlan, notifyQueue, depth, ran, lost, issued>>

OpenBatch(t) ==
  /\ Calling(t, "batch")
  /\ Len(calls[t]) < MaxNest
  /\ depth' = depth + 1
  /\ calls' = Enter(t, Call("batch"))
  /\ UNCHANGED <<notifyQueue, ran, lost, issued>>

\* The body has returned: the call that takes the depth from one to zero flushes.
CloseBatch(t) ==
  /\ InnerAt(t, "batch")
  /\ depth' = depth - 1
  /\ calls' = Inner(t, IF depth = 1 THEN <<Call("drain")>> ELSE <<>>)
  /\ UNCHANGED <<notifyPlan, notifyQueue, ran, lost, issued>>

Flush(t) ==
  /\ Calling(t, "flush")
  /\ calls' = Enter(t, Call("drain"))
  /\ UNCHANGED <<notifyQueue, depth, ran, lost, issued>>

\* flush takes the whole queue under its lock, and runs it without the lock.
Drain(t) ==
  /\ InnerAt(t, "drain")
  /\ calls' = Inner(t, IF notifyQueue = <<>> THEN <<>> ELSE <<Running(notifyQueue)>>)
  /\ notifyQueue' = <<>>
  /\ UNCHANGED <<notifyPlan, depth, ran, lost, issued>>

\* The next callback of a flush.  One that notifies is inside of notify next.
RunCallback(t) ==
  /\ InnerAt(t, "run")
  /\ LET pending == Last(calls[t]).pending
         c == Head(pending)
         rest == IF Len(pending) = 1 THEN <<>> ELSE <<Running(Tail(pending))>> IN
     /\ ran' = Append(ran, c)
     /\ issued' = IF c.echo THEN issued + 1 ELSE issued
     /\ notifyQueue' = IF c.echo THEN Append(notifyQueue, Callback(FALSE)) ELSE notifyQueue
     /\ calls' = Inner(t, IF c.echo THEN rest \o <<Call("load")>> ELSE rest)
  /\ UNCHANGED <<notifyPlan, depth, lost>>

\* A body or a callback panics and unwinds the whole thread: open batches never
\* lower the depth, and what its flushes had drained is gone.
Panic(t) ==
  /\ "panic" \in notifyPlan.ops /\ notifyPlan.budget > 0
  /\ InnerAt(t, "batch") \/ InnerAt(t, "run")
  /\ notifyPlan' = [notifyPlan EXCEPT !.budget = @ - 1]
  /\ lost' = lost \cup UNION {ToSet(calls[t][i].pending) : i \in DOMAIN calls[t]}
  /\ calls' = [calls EXCEPT ![t] = <<>>]
  /\ UNCHANGED <<notifyQueue, depth, ran, issued>>

NotifyStep(t) == LoadDepth(t) \/ CloseBatch(t) \/ Drain(t) \/ RunCallback(t)

NotifyNext == \E t \in Threads :
  \/ \E op \in Calls : Notify(t, op)
  \/ LoadDepth(t) \/ OpenBatch(t) \/ CloseBatch(t) \/ Flush(t)
  \/ Drain(t) \/ RunCallback(t) \/ Panic(t)

\* The manager on its own, with the calls of plan p.
NotifySpec(p) == NotifyInitFor(p) /\ [][NotifyNext]_notifyVars

\* Threads are scheduled, and bodies and callbacks return.
NotifyFairness == \A t \in Threads : WF_notifyVars(NotifyStep(t))

-----------------------------------------------------------------------------

Callbacks == [id : 1 .. issued, echo : BOOLEAN]

\* Type invariant.
NotifyTypeOK ==
  /\ notifyPlan \in [budget : Nat, threads : SUBSET Threads, ops : SUBSET Calls]
  /\ depth \in Nat /\ issued \in Nat
  /\ ToSet(notifyQueue) \cup ToSet(ran) \cup lost \subseteq Callbacks
  /\ \A t \in Threads : \A i \in DOMAIN calls[t] :
       /\ calls[t][i].at \in {"load", "drain", "run", "batch"}
       /\ ToSet(calls[t][i].pending) \subseteq Callbacks

\* Nothing is queued outside of batches with nobody about to flush it: while the
\* depth is zero, a callback in the queue has a thread that is going to look at
\* the depth or to drain.  Notify queues before it loads; the last CloseBatch
\* lowers the depth before it drains.
NoneStranded ==
  (depth = 0 /\ notifyQueue # <<>>) =>
    \E t \in Threads : \E i \in DOMAIN calls[t] : calls[t][i].at \in {"load", "drain"}

Ids(list) == {list[i].id : i \in DOMAIN list}

\* Where a callback can be: in the queue, drained by a flush that has not come to
\* it, among those that ran, or in the wreck of a panic.
Spots == {"queue", "flush", "ran", "lost"}

Holds(place, n) ==
  CASE place = "queue" -> n \in Ids(notifyQueue)
    [] place = "flush" -> \E t \in Threads : \E i \in DOMAIN calls[t] : n \in Ids(calls[t][i].pending)
    [] place = "ran" -> n \in Ids(ran)
    [] place = "lost" -> \E c \in lost : c.id = n

NoRepeats(list) == \A i, j \in DOMAIN list : list[i].id = list[j].id => i = j

\* "run exactly once": a callback is in one place, of the flushes in one, and
\* there only once, whoever flushes when.
RunOnce ==
  /\ \A n \in 1 .. issued : \E place \in Spots : \A p \in Spots : Holds(p, n) <=> p = place
  /\ \A t, u \in Threads : \A i \in DOMAIN calls[t], j \in DOMAIN calls[u] :
       (t # u \/ i # j) => Ids(calls[t][i].pending) \cap Ids(calls[u][j].pending) = {}
  /\ NoRepeats(notifyQueue) /\ NoRepeats(ran)
  /\ \A t \in Threads : \A i \in DOMAIN calls[t] : NoRepeats(calls[t][i].pending)

\* "otherwise when the outermost enclosing batch closes": with one thread and no
\* explicit flush, nothing is flushed while a batch is open, however deep the
\* batches nest and wherever a notify comes from.
HeldInBatch ==
  (Cardinality(notifyPlan.threads) = 1 /\ "flush" \notin notifyPlan.ops /\ depth > 0) =>
    \A t \in notifyPlan.threads : \A i \in DOMAIN calls[t] : calls[t][i].at \notin {"drain", "run"}

\* Without a panic every queued callback is flushed, at the latest when the
\* batches of all threads have closed.
QueueFlushed == ("panic" \notin notifyPlan.ops /\ notifyQueue # <<>>) ~> (notifyQueue = <<>>)

\* Batched callbacks run once, are never stranded in the queue, and on one thread wait
\* for the outermost batch to close (notify_manager.rs, notify, batch and flush).
CallbacksRunOnce == NotifyTypeOK /\ RunOnce /\ NoneStranded /\ HeldInBatch
=============================================================================
