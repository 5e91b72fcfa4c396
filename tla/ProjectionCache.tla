--------------------------- MODULE ProjectionCache ---------------------------
(***************************************************************************)
(* The checkpoint of the work graph: projectWorkGraphCached of             *)
(* packages/storage/src/projection-cache.ts over the graph of WorkGraph.   *)
(*                                                                         *)
(* Readers are processes that open the ledger, run one SQL statement after *)
(* another and save a checkpoint; appends and prunes by other processes    *)
(* land between any two statements.                                        *)
(***************************************************************************)
EXTENDS WorkGraph, Integers, TLC

CONSTANTS
    Record,     \* the events, by their ids
    Moment,     \* their timestamps
    Histories,  \* what may happen: [events, readers, cutoffs], one is chosen
    Readers,
    MaxPosition \* bound: the rows ever inserted

Events == DOMAIN Record

ASSUME EventAssumption ==
    /\ Events \subseteq Nat
    /\ \A i \in Events : Record[i].id = i
    /\ Moment \in [Events -> Nat]
    /\ \A h \in Histories : h.events \subseteq Events /\ h.readers \in Nat
    /\ MaxPosition \in Nat

VARIABLES
    history,    \* the events that may be appended, how many processes read at
                \* once, and the calls of prune
    row,        \* insertion_position of each event; 0 before it is in the
                \* ledger, -1 once it has been pruned
    last,       \* the last position given out
    checkpoint, \* the one row of projection_checkpoint
    rd          \* the local state of each reader

vars == <<history, row, last, checkpoint, rd>>

Ledger == {i \in Events : row[i] > 0}
After(p) == {i \in Ledger : row[i] > p}
InsertionOrder(S) == SetToSortSeq(S, LAMBDA i, j : row[i] < row[j])

Rows(S) == {Record[i] : i \in S}
RowsOf(seq) == [k \in 1..Len(seq) |-> Record[seq[k]]]

(* What a full projection answers, for the ledgers that can be replayed.   *)
(* (With the empty function added TLC computes each value once.)           *)
Built == <<>> @@ [S \in {T \in UNION {SUBSET h.events : h \in Histories} : ValidSet(Rows(T))}
                    |-> Rebuilt(Rows(S))]
Replayable == DOMAIN Built

(* extendProjection returns null for a correction of an earlier event.     *)
(* Mutated form: it never does.                                            *)
ReachesBackNever(seq) == FALSE
ReachesBack(seq) ==
    \E e \in ToSet(seq) : /\ e.type = "attribution.corrected"
                          /\ ~Has(ToSet(seq), e.body.of)

-----------------------------------------------------------------------------
(* projectWorkGraphCached, statement by statement.                         *)

NoCheckpoint == [position |-> 0, state |-> Nothing]
IdleReader == [pc |-> "idle", base |-> NoCheckpoint, fresh |-> <<>>,
               applied |-> {}, after |-> 0, state |-> Nothing, mark |-> 0,
               saw |-> {}]
Is(p, pc) == rd[p].pc = pc
Busy == {p \in Readers : ~Is(p, "idle")}

(* A read that is told to verify takes no checkpoint.                      *)
Load(p) ==
    /\ Is(p, "idle")
    /\ Cardinality(Busy) < history.readers
    /\ \E pc \in {"check", "full"} :
         rd' = [rd EXCEPT ![p] = [IdleReader EXCEPT
                  !.pc = pc, !.saw = {Ledger},
                  !.base = IF pc = "full" THEN NoCheckpoint ELSE checkpoint]]
    /\ UNCHANGED <<history, row, last, checkpoint>>

(* databaseHasPosition: the watermarked row must still exist.              *)
HasPosition(p) == \E i \in Ledger : row[i] = rd[p].base.position

Check(p) ==
    /\ Is(p, "check")
    /\ rd' = [rd EXCEPT ![p].pc = IF HasPosition(p) THEN "delta" ELSE "full",
                        ![p].base = IF HasPosition(p) THEN @ ELSE NoCheckpoint]
    /\ UNCHANGED <<history, row, last, checkpoint>>

(* The rows after the watermark; when there are none the checkpoint is     *)
(* served as it is.                                                        *)
ReadDelta(p) ==
    /\ Is(p, "delta")
    /\ LET delta == After(rd[p].base.position) IN
       rd' = IF delta = {}
             THEN [rd EXCEPT ![p].pc = "served", ![p].state = rd[p].base.state]
             ELSE [rd EXCEPT ![p].pc = "extend", ![p].fresh = InsertionOrder(delta)]
    /\ UNCHANGED <<history, row, last, checkpoint>>

(* A second read, of every row, supplies eventsById and the gaps.          *)
Extend(p) ==
    /\ Is(p, "extend")
    /\ LET fresh == RowsOf(rd[p].fresh)
           every == Rows(Ledger)
           known == every \cup ToSet(fresh)
       IN
       rd' = IF ReachesBack(fresh)
             THEN [rd EXCEPT ![p].pc = "full", ![p].base = NoCheckpoint]
             ELSE [rd EXCEPT ![p].pc = "mark",
                             ![p].applied = ToSet(rd[p].fresh),
                             ![p].after = rd[p].base.position,
                             ![p].state = WithGaps(
                                 Extended(rd[p].base.state, fresh, every),
                                 known, SequenceGaps(every))]
    /\ UNCHANGED <<history, row, last, checkpoint>>

(* Every row, validated as one set: the read throws when they are not.     *)
ReadAll(p) ==
    /\ Is(p, "full")
    /\ rd' = IF Ledger \in Replayable
             THEN [rd EXCEPT ![p].pc = "mark", ![p].applied = Ledger,
                             ![p].after = 0, ![p].state = Built[Ledger]]
             ELSE [rd EXCEPT ![p] = IdleReader]
    /\ UNCHANGED <<history, row, last, checkpoint>>

(* maxAppliedPosition: the highest position among the rows just applied.   *)
Highest(P) == CHOOSE i \in P : \A j \in P : j <= i
(* Mutated form: the newest row's position.                                *)
WatermarkLatest(p) == Highest({rd[p].after} \cup {row[i] : i \in Ledger})
Watermark(p) ==
    Highest({rd[p].after} \cup
            {row[i] : i \in After(rd[p].after) \cap rd[p].applied})

Mark(p) ==
    /\ Is(p, "mark")
    /\ rd' = [rd EXCEPT ![p].pc = "save", ![p].mark = Watermark(p)]
    /\ UNCHANGED <<history, row, last, checkpoint>>

(* persistQuietly: the row is replaced, or a failure is swallowed.         *)
Save(p) ==
    /\ Is(p, "save")
    /\ \/ checkpoint' = [position |-> rd[p].mark, state |-> rd[p].state]
       \/ UNCHANGED checkpoint
    /\ rd' = [rd EXCEPT ![p].pc = "served"]
    /\ UNCHANGED <<history, row, last>>

Close(p) ==
    /\ Is(p, "served")
    /\ rd' = [rd EXCEPT ![p] = IdleReader]
    /\ UNCHANGED <<history, row, last, checkpoint>>

-----------------------------------------------------------------------------
(* Other processes.  Readers at work remember every ledger they may have   *)
(* seen, for the properties.                                               *)

Witness(S) == [p \in Readers |-> IF Is(p, "idle") \/ Is(p, "served")
                                 THEN rd[p]
                                 ELSE [rd[p] EXCEPT !.saw = @ \cup {S}]]

(* A validated append: what it refers to is there.  Positions are          *)
(* AUTOINCREMENT, never given out twice.  Nobody appends again what is old *)
(* enough to have been pruned.                                             *)
Append1(i) ==
    /\ row[i] = 0
    /\ last < MaxPosition
    /\ Ledger \cup {i} \in Replayable
    /\ last' = last + 1
    /\ row' = [row EXCEPT ![i] = last + 1]
    /\ rd' = Witness(Ledger \cup {i})
    /\ UNCHANGED <<history, checkpoint>>

(* prune, which keeps the causes of what it keeps and leaves the positions,*)
(* and the checkpoint, alone.                                              *)
Surviving(cutoff) ==
    LET below[S \in SUBSET Ledger] ==
          LET more == S \cup (Ledger \cap {Record[i].cause : i \in S})
          IN  IF more = S THEN S ELSE below[more]
    IN  below[{i \in Ledger : Moment[i] >= cutoff}]

Prune(cutoff) ==
    /\ row' = [i \in Events |-> IF i \in Surviving(cutoff) \/ row[i] = 0
                               THEN row[i] ELSE -1]
    /\ rd' = Witness(Surviving(cutoff))
    /\ UNCHANGED <<history, last, checkpoint>>

-----------------------------------------------------------------------------
Init ==
    /\ history \in Histories
    /\ row = [i \in Events |-> 0]
    /\ last = 0
    /\ checkpoint = NoCheckpoint
    /\ rd = [p \in Readers |-> IdleReader]

Read(p) ==
    \/ Load(p) \/ Check(p) \/ ReadDelta(p) \/ Extend(p) \/ ReadAll(p)
    \/ Mark(p) \/ Save(p) \/ Close(p)

Next ==
    \/ \E p \in Readers : Read(p)
    \/ \E i \in history.events : Append1(i)
    \/ \E cutoff \in history.cutoffs : Prune(cutoff)

Spec == Init /\ [][Next]_vars

-----------------------------------------------------------------------------
(* Properties.                                                             *)

(* What was mapped before a prune stays in the checkpoint while the row at *)
(* its watermark survives.                                                 *)
Outdated(p) == ~(Shown(rd[p].base.state) \subseteq UNION rd[p].saw)

(* A read during which nothing was written answers what a full projection  *)
(* of the ledger would, whatever checkpoints other readers left behind:    *)
(* extendProjection's "byte-identity with buildProjection", but for what   *)
(* the first of several events said (see Plain), and for a checkpoint that *)
(* outlives rows it maps.                                                  *)
QuietReadExact ==
    \A p \in Readers :
        Is(p, "served") /\ Cardinality(rd[p].saw) = 1 /\ ~Outdated(p) =>
            \A S \in rd[p].saw \cap Replayable :
                Plain(rd[p].state) = Plain(Built[S])

(* The two ways work-graph.ts has to project one order of events, all at   *)
(* once and event by event, give one graph.                                *)
Alike == <<>> @@ [S \in Replayable |->
    LET E == Rows(S)
    IN  Plain(WithGaps(Reduced(CausalOrder(E)), E, SequenceGaps(E))) = Plain(Built[S])]
ReducerAgrees == Ledger \in Replayable => Alike[Ledger]

(* A read never omits an event that was in the ledger all along, nor shows *)
(* one that never was.                                                     *)
ReadComplete ==
    \A p \in Readers : Is(p, "served") =>
        /\ \A i \in Events : (\A S \in rd[p].saw : i \in S) => i \in Mapped(rd[p].state)
        /\ ~Outdated(p) => Shown(rd[p].state) \subseteq UNION rd[p].saw

(* Of the rows there are the checkpoint's nodes and edges map exactly those*)
(* up to its watermark: what is ahead of it is applied later, what is      *)
(* behind it never again.  (What is derived from all rows may be ahead.)   *)
CheckpointAtWatermark ==
    Mapped(checkpoint.state) \cap Ledger =
        {i \in Ledger : row[i] <= checkpoint.position}
=============================================================================
