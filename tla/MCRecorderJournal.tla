-------------------------- MODULE MCRecorderJournal --------------------------
(* Small instances of RecorderJournal for TLC.                             *)
EXTENDS RecorderJournal, TLC

CONSTANTS s1, s2, c1, c2, p1, p2

OneCallOwner == c1 :> s1
OneSessionOwner == c1 :> s1 @@ c2 :> s1

Symmetry == Permutations(Ingesters)
=============================================================================
