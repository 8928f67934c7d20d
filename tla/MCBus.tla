------------------------------- MODULE MCBus -------------------------------
(***************************************************************************)
(* Model-checking instance of Bus.                                         *)
(***************************************************************************)
EXTENDS Bus, TLC

CONSTANTS r1, r2, s1, s2

MCReceivers == {r1, r2}
MCSenders == {s1, s2}

\* Handles are interchangeable; used by the safety runs only.
MCSymmetry == Permutations(MCReceivers) \cup Permutations(MCSenders)
=============================================================================
