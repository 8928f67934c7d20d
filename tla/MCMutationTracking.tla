------------------------- MODULE MCMutationTracking -------------------------
(* Small instances of MutationTracking. *)
EXTENDS MutationTracking

CONSTANTS e1, e2

MCExecutions == {e1, e2}

Tracked(start, mine, made) ==
  [start : {start}, pool : BOOLEAN, own : {mine}, optimistic : {FALSE}, retry : {0},
   stream : {FALSE}, ops : {made}, budget : {2}]
Streamed(mine, opt, made) ==
  [start : {"observer"}, pool : BOOLEAN, own : {mine}, optimistic : {opt}, retry : {0},
   stream : {TRUE}, ops : {made}, budget : {1}]

\* Two executions of one observer with resets and aborts, and with retries; a
\* stream for one or both of them, with removals; the hook; spawn_mutation.
MCSetups ==
  Tracked("observer", {e1, e2}, {"reset", "abort"})
  \cup [start : {"observer"}, pool : BOOLEAN, own : {{e1, e2}}, optimistic : {TRUE},
        retry : {1}, stream : {FALSE}, ops : {{}}, budget : {0}]
  \cup Tracked("hook", {e1, e2}, {"reset", "panic", "abort"})
  \cup [start : {"spawn"}, pool : BOOLEAN, own : {{}}, optimistic : {TRUE}, retry : {0},
        stream : {FALSE}, ops : {{"abort", "panic", "restore"}}, budget : {2}]
  \cup Streamed({e1, e2}, FALSE, {}) \cup Streamed({e1}, FALSE, {"remove", "clear"})
=============================================================================
