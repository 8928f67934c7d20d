-------------------------- MODULE MCMutationScope --------------------------
(***************************************************************************)
(* Model-checking instances of MutationScope.                              *)
(***************************************************************************)
EXTENDS MutationScope, TLC

CONSTANTS m1, m2, m3

MCMutations == {m1, m2, m3}

\* Mutations are interchangeable; used by the safety run only.
MutationSymmetry == Permutations(MCMutations)
=============================================================================
