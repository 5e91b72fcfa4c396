------------------------------ MODULE MCMailbox ------------------------------
(* Small instances of Mailbox for TLC.                                     *)
EXTENDS Mailbox, TLC

CONSTANTS a, b, m1, m2, p, q

ToOneAndAll == m1 :> a @@ m2 :> Broadcast
Even == [m \in Messages |-> 1]
LongForOne == m1 :> 1 @@ m2 :> 2
Symmetry == Permutations(Procs)
=============================================================================
