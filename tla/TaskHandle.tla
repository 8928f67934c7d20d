---------------------------- MODULE TaskHandle ----------------------------
(***************************************************************************)
(* A spawned task and the handles to it (src/runtime.rs): the task wrapped *)
(* in an Abortable, the SpawnHandle that aborts it and learns that it has  *)
(* finished, and the SpawnedTask through which its value is awaited and    *)
(* whose drop aborts it.  The in-flight registry and other callers hold    *)
(* clones of the SpawnHandle.                                              *)
(***************************************************************************)
EXTENDS Integers, Sequences, FiniteSets

CONSTANT Callers   \* threads with a clone of the SpawnHandle

VARIABLES
  live,       \* there is a task, and callers still have calls to make
  spawned,       \* where the task stands
  aborted,    \* the Abortable's flag
  value,      \* the oneshot of the SpawnedTask
  unit,       \* the oneshot of the SpawnHandle
  detached,   \* SpawnHandleInner.detached
  finished,   \* SpawnHandleInner.finished
  owner,      \* the SpawnedTask: what became of it, and the value awaited
  call,       \* caller -> the is_finished or await it is inside of
  asked,      \* somebody called abort
  touched,    \* the SpawnedTask was polled or detached
  told        \* an is_finished call has returned true

handle == <<detached, finished>>
ghosts == <<asked, touched, told>>
taskVars == <<live, spawned, aborted, value, unit, handle, owner, call, ghosts>>

Over == {"none", "done", "aborted", "panicked"}
Oneshot == {"empty", "full", "gone"}
Owner(place, result) == [at |-> place, result |-> result]
NoCall == [at |-> "none", started |-> FALSE, answer |-> FALSE]

\* s = 0: no task at all; otherwise s calls that the callers may make.
TaskInitFor(s) ==
  /\ live = s
  /\ spawned = IF s = 0 THEN "none" ELSE "queued"
  /\ aborted = FALSE
  /\ value = "empty" /\ unit = "empty"
  /\ detached = FALSE /\ finished = FALSE
  /\ owner = Owner(IF s = 0 THEN "dropped" ELSE "held", "none")
  /\ call = [c \in Callers |-> NoCall]
  /\ asked = FALSE /\ touched = FALSE /\ told = FALSE

-----------------------------------------------------------------------------
(***************************************************************************)
(* The task: Abortable around { future.await; tx.send(()) }                *)
(***************************************************************************)

\* A sender that is dropped unsent cancels its oneshot.
Dropped(shot) == IF shot = "empty" THEN "gone" ELSE shot

\* The future is dropped, and with it the senders it owns.
End(how) ==
  /\ spawned' = how
  /\ value' = Dropped(value)
  /\ unit' = Dropped(unit)
  /\ UNCHANGED <<live, aborted, handle, owner, call, ghosts>>

Continue(place) ==
  /\ spawned' = place
  /\ UNCHANGED <<live, aborted, value, unit, handle, owner, call, ghosts>>

\* A poll looks at the flag first.
Poll ==
  /\ spawned \in {"queued", "suspended"}
  /\ IF aborted THEN End("aborted") ELSE Continue("running")

\* A future that is not ready looks at the flag again.
Suspend ==
  /\ spawned = "running"
  /\ IF aborted THEN End("aborted") ELSE Continue("suspended")

\* The spawned future sends its value as its last act ...
SendValue ==
  /\ spawned = "running"
  /\ spawned' = "sent" /\ value' = "full"
  /\ UNCHANGED <<live, aborted, unit, handle, owner, call, ghosts>>

\* ... and its wrapper says that it has finished.
Finish ==
  /\ spawned = "sent"
  /\ spawned' = "done" /\ unit' = "full"
  /\ UNCHANGED <<live, aborted, value, handle, owner, call, ghosts>>

Panics == spawned = "running" /\ End("panicked")

-----------------------------------------------------------------------------
(***************************************************************************)
(* The SpawnedTask                                                         *)
(***************************************************************************)

Abort ==
  /\ owner.at \in {"held", "parked"} /\ ~asked
  /\ aborted' = TRUE /\ asked' = TRUE
  /\ UNCHANGED <<live, spawned, value, unit, handle, owner, call, touched, told>>

Detach ==
  /\ owner.at = "held" /\ ~detached
  /\ detached' = TRUE /\ touched' = TRUE
  /\ UNCHANGED <<live, spawned, aborted, value, unit, finished, owner, call, asked, told>>

\* What a ready oneshot makes of the await.
Result == IF value = "full" THEN "value" ELSE "fallback"

\* Every poll detaches first, so the drop that follows does not abort.
Await ==
  /\ owner.at = "held" \/ (owner.at = "parked" /\ value # "empty")
  /\ detached' = TRUE /\ touched' = TRUE
  /\ owner' = IF value = "empty" THEN Owner("parked", "none") ELSE Owner("resolved", Result)
  /\ value' = IF value = "full" THEN "gone" ELSE value
  /\ UNCHANGED <<live, spawned, aborted, unit, finished, call, asked, told>>

\* "Dropping without awaiting or detaching aborts the task."
DropTask ==
  /\ owner.at \in {"held", "parked"}
  /\ aborted' = (aborted \/ ~detached)
  /\ owner' = Owner("dropped", "none")
  /\ UNCHANGED <<live, spawned, value, unit, handle, call, ghosts>>

-----------------------------------------------------------------------------
(***************************************************************************)
(* Clones of the SpawnHandle                                               *)
(***************************************************************************)

AbortClone(c) ==
  /\ live > 0 /\ call[c].at = "none" /\ ~asked
  /\ live' = live - 1
  /\ aborted' = TRUE /\ asked' = TRUE
  /\ UNCHANGED <<spawned, value, unit, handle, owner, call, touched, told>>

\* is_finished: the sticky flag answers at once, otherwise the oneshot is tried.
LoadFinished(c) ==
  /\ live > 0 /\ call[c].at \in {"none", "answered"}
  /\ live' = live - 1
  /\ call' = [call EXCEPT ![c] = [at |-> IF finished THEN "answered" ELSE "try",
                                  started |-> told, answer |-> finished]]
  /\ told' = (told \/ finished)
  /\ UNCHANGED <<spawned, aborted, value, unit, handle, owner, asked, touched>>

MutTryFinished(c) ==
  /\ call[c].at = "try"
  /\ unit' = IF unit = "full" THEN "gone" ELSE unit
  /\ told' = (told \/ unit = "full")
  /\ call' = [call EXCEPT ![c].at = "answered", ![c].answer = (unit = "full")]
  /\ UNCHANGED <<live, spawned, aborted, value, handle, owner, asked, touched>>

\* The lock is held from try_recv, which takes the message, to the store.
TryFinished(c) ==
  /\ call[c].at = "try"
  /\ unit' = IF unit = "full" THEN "gone" ELSE unit
  /\ finished' = (finished \/ unit = "full")
  /\ told' = (told \/ unit = "full")
  /\ call' = [call EXCEPT ![c].at = "answered", ![c].answer = (unit = "full")]
  /\ UNCHANGED <<live, spawned, aborted, value, detached, owner, asked, touched>>

\* Awaiting the handle takes the message too, and leaves the flag alone.
AwaitHandle(c) ==
  /\ live > 0 /\ call[c].at \in {"none", "answered"} /\ unit # "empty"
  /\ live' = live - 1
  /\ unit' = "gone"
  /\ call' = [call EXCEPT ![c] = NoCall]
  /\ UNCHANGED <<spawned, aborted, value, handle, owner, ghosts>>

TaskNext ==
  \/ Poll \/ Suspend \/ SendValue \/ Finish \/ Panics
  \/ Abort \/ Detach \/ Await \/ DropTask
  \/ \E c \in Callers : AbortClone(c) \/ LoadFinished(c) \/ TryFinished(c) \/ AwaitHandle(c)

\* A task that was spawned or woken by an abort is polled, and a poll returns.
\* What the future waits for may never come.
TaskFairness ==
  /\ WF_taskVars((spawned = "queued" \/ aborted) /\ Poll)
  /\ WF_taskVars(Suspend \/ SendValue) /\ WF_taskVars(Finish)
  /\ WF_taskVars(owner.at = "parked" /\ Await)

\* A task and s calls by the holders of its handle.
TaskSpec(s) == TaskInitFor(s) /\ [][TaskNext]_taskVars /\ TaskFairness

-----------------------------------------------------------------------------

\* Type invariant.
TaskTypeOK ==
  /\ live \in Nat
  /\ spawned \in Over \cup {"queued", "running", "suspended", "sent"}
  /\ {value, unit} \subseteq Oneshot
  /\ {aborted, detached, finished, asked, touched, told} \subseteq BOOLEAN
  /\ owner \in [at : {"held", "parked", "resolved", "dropped"}, result : {"none", "value", "fallback"}]
  /\ call \in [Callers -> [at : {"none", "try", "answered"}, started : BOOLEAN, answer : BOOLEAN]]

\* Structured concurrency aborts nothing it should not: without a call to abort,
\* only the drop of a SpawnedTask that was never awaited nor detached raises the
\* flag; a drop after the first poll leaves the task alone.
OnlyAskedAborts == aborted => asked \/ (owner.at = "dropped" /\ ~touched)

\* The fallback stands for a value that does not exist: a task that got as far as
\* sending its value is never reported as aborted, even when an abort came late.
FallbackMeansNoValue ==
  /\ owner.result = "fallback" => spawned \in {"aborted", "panicked"}
  /\ owner.result = "value" => spawned \in {"sent", "done"}

\* "once it has been observed, is_finished stays true": a call that begins after
\* some call has returned true returns true, although the message is gone.
FinishedSticks == \A c \in Callers : call[c].at = "answered" /\ call[c].started => call[c].answer

\* What is said of a spawned task is true: it is aborted only when asked to, the fallback
\* stands for a value that does not exist, and is_finished stays true (runtime.rs).
HandlesTellTrue == TaskTypeOK /\ OnlyAskedAborts /\ FallbackMeansNoValue /\ FinishedSticks

\* A dropped task does not outlive its owner, even one that would wait for ever.
DroppedEnds == (owner.at = "dropped" /\ ~touched) ~> (spawned \in Over)

\* An await of a task that somebody aborts resolves, with the value or the fallback.
AwaitResolves == (owner.at = "parked" /\ aborted) ~> (owner.at # "parked")
=============================================================================
