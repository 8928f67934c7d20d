---------------------------- MODULE MCQueryFetch ----------------------------
(***************************************************************************)
(* Model-checking instances of QueryFetch.                                 *)
(***************************************************************************)
EXTENDS QueryFetch, TLC

CONSTANTS k1, k2, p1, p2, p3, c1

OneKey == {k1}
TwoKeys == {k1, k2}
TwoProcs == {p1, p2}
ThreeProcs == {p1, p2, p3}
OneCaller == {c1}

\* Executions and keys are interchangeable; used by safety runs only.
ProcSymmetry == Permutations({p1, p2, p3})
KeyProcSymmetry == Permutations({p1, p2}) \cup Permutations({k1, k2})
=============================================================================
