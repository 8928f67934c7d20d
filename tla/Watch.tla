-------------------------------- MODULE Watch --------------------------------
(***************************************************************************)
(* The watch cell of src/watch.rs as operators: one value, a version that  *)
(* every send raises, and the wakers that the pending changed() futures    *)
(* left behind.  A watcher is its last_seen version.  `alive` is never     *)
(* cleared in the code, so changed() never fails.                          *)
(***************************************************************************)
EXTENDS Naturals

\* The states of a cell that holds a value of Values and is watched by Tasks.
Cells(Values, Tasks) == [value : Values, version : Nat, waiters : SUBSET Tasks]

\* Watch::new.
NewCell(v) == [value |-> v, version |-> 0, waiters |-> {}]

\* Watch::subscribe, and the watcher that Watch::new returns: last_seen.
SubscribedAt(cell) == cell.version

\* Watch::send stores the value, raises the version and empties the wakers,
\* which are then woken (Wakes).
Sent(cell, v) == [value |-> v, version |-> cell.version + 1, waiters |-> {}]
Wakes(cell) == cell.waiters

\* Watcher::has_changed, and what the poll of changed() tests first.
HasChanged(cell, seen) == cell.version # seen

\* The poll of changed() that finds nothing new leaves its waker.
Registered(cell, task) == [cell EXCEPT !.waiters = @ \cup {task}]

\* Watcher::borrow copies the value and marks the watcher as up to date.
Borrowed(cell) == [value |-> cell.value, seen |-> cell.version]
=============================================================================
