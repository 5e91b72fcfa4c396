------------------------------- MODULE WorkLog -------------------------------
(***************************************************************************)
(* What the recorder promises of each completed call, whatever files and   *)
(* processes carry it: a call is settled (recorded, or set aside as        *)
(* unrepresentable) only after it was journalled, it stays settled, and    *)
(* every journalled call is settled in the end, except one whose append    *)
(* raced a drain.                                                          *)
(***************************************************************************)
CONSTANT Items

VARIABLES
    journalled, \* items whose completion line was written
    atRisk,     \* items whose append raced a drain
    settled     \* items recorded or set aside

vars == <<journalled, atRisk, settled>>

Init == journalled = {} /\ atRisk = {} /\ settled = {}

Journal(i) ==
    /\ i \notin journalled
    /\ journalled' = journalled \cup {i}
    /\ UNCHANGED <<atRisk, settled>>

(* A drain takes the journal while these are still being appended.         *)
Risk(S) ==
    /\ S \cap journalled = {}
    /\ atRisk' = atRisk \cup S
    /\ UNCHANGED <<journalled, settled>>

(* One completion is recorded, or a drain sets several aside at once.      *)
Settle(S) ==
    /\ S \subseteq journalled
    /\ settled' = settled \cup S
    /\ UNCHANGED <<journalled, atRisk>>

Next ==
    \/ \E i \in Items : Journal(i)
    \/ \E S \in SUBSET Items : Risk(S) \/ Settle(S)

Spec == Init /\ [][Next]_vars
=============================================================================
