-------------------------- MODULE MCEffectCapture ---------------------------
(* Small instances of EffectCapture.                                       *)
EXTENDS EffectCapture, TLC

CONSTANTS p1, p2, p3, f1, f2

Symmetry == Permutations(Procs)
=============================================================================
