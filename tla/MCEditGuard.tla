---------------------------- MODULE MCEditGuard ----------------------------
(* Small instances of EditGuard: agents A and B with up to three calls on  *)
(* a path p.                                                               *)
EXTENDS EditGuard, TLC

CONSTANTS A, B, a1, a2, b1, p

AgentOfCall == [c \in Calls |-> IF c \in {a1, a2} THEN A ELSE B]
OnePath == [c \in Calls |-> p]
ClaimP == {<<B, {p}>>}
Symmetry == Permutations({a1, a2})
=============================================================================
