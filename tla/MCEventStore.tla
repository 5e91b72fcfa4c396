---------------------------- MODULE MCEventStore ----------------------------
(* Small instances of EventStore for TLC.  The chains r <- a <- b <- c     *)
(* and x <- y, each a correlation, and a second content a2 of a.           *)
EXTENDS EventStore, TLC

CONSTANTS r, a, b, c, x, y, a2

Variants == {r, a, a2, b}
SevenVariants == Variants \cup {c, x, y}

IdOf == [e \in Events |-> IF e = a2 THEN a ELSE e]
ParentOf == [e \in Events |-> CASE e \in {r, x} -> None
                                [] e \in {a, a2} -> r
                                [] e = b -> a
                                [] e = c -> b
                                [] e = y -> x]
NoRefs == [e \in Events |-> {}]
CorrOf == [e \in Events |-> IF e \in {x, y} THEN 2 ELSE 1]
AtOf == [e \in Events |-> IF e \in {r, a, x} THEN 1
                          ELSE IF e \in {b, a2} THEN 2 ELSE 3]

Batch(S, v, buffered) == [events |-> S, requireValidEventSet |-> v,
                          bufferUnresolvedCausalParents |-> buffered]
UpTo(n) == {S \in SUBSET Events : Cardinality(S) \in 1 .. n}
WithParents == {S \in UpTo(3) : \A e \in S : ParentOf[e] \in S \cup {None}}
Plain == {Batch(S, FALSE, FALSE) : S \in WithParents}
Checked == {Batch(S, TRUE, FALSE) : S \in UpTo(3)}
Buffered == {Batch(S, FALSE, TRUE) : S \in UpTo(3)}
BufferedChecked == {Batch(S, TRUE, TRUE) : S \in UpTo(3)}
AllCalls == Plain \cup Checked \cup Buffered \cup BufferedChecked

(* Two ledgers: one that meets every kind of call over one content for an  *)
(* id, and one that is always written with buffering and meets a second    *)
(* content of a.  The way of use is chosen at the start and never changes. *)
VARIABLE use

MCInit == Init /\ use \in {"mixed", "buffered"}
MCNext ==
  /\ UNCHANGED use
  /\ \/ /\ use = "mixed"
        /\ \E call \in {d \in Batches : a2 \notin d.events} : AppendAtomic(call)
     \/ /\ use = "buffered"
        /\ \E call \in {d \in Batches : d.bufferUnresolvedCausalParents} : AppendAtomic(call)
     \/ \E cutoff \in Cutoffs : Prune(cutoff)
MCSpec == MCInit /\ [][MCNext]_<<vars, use>>
=============================================================================
