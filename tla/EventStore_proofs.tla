-------------------------- MODULE EventStore_proofs --------------------------
(***************************************************************************)
(* Proofs about EventStore, for any events, any calls and any cutoffs.     *)
(***************************************************************************)
EXTENDS EventStore, TLAPS

-----------------------------------------------------------------------------
(* The fixpoints.                                                          *)

(* A fixpoint admits all it can: what has its parent known or admitted.    *)
LEMMA ResolvableComplete ==
    ASSUME NEW S, NEW known
    PROVE  ClosedIn(Resolvable(S, known), S, known)
<1> DEFINE A == Resolvable(S, known)
<1>1. \A T \in SUBSET S : ClosedIn(T, S, known) => A \subseteq T
  BY DEF Resolvable
<1>2. SUFFICES ASSUME NEW e \in S,
                      Parent[e] \in known \cup {None} \cup IdsOf(A)
               PROVE  e \in A
  BY DEF ClosedIn
<1>3. ASSUME NEW T \in SUBSET S, ClosedIn(T, S, known)
      PROVE  e \in T
  <2>1. IdsOf(A) \subseteq IdsOf(T)
    BY <1>1, <1>3 DEF IdsOf
  <2> QED
    BY <1>2, <1>3, <2>1 DEF ClosedIn
<1> QED
  BY <1>3 DEF Resolvable

(* And no more: what it admits has its parent known or admitted.           *)
LEMMA ResolvableClosed ==
    ASSUME NEW S, NEW known
    PROVE  \A e \in Resolvable(S, known) :
              Parent[e] \in known \cup {None} \cup IdsOf(Resolvable(S, known))
<1> DEFINE A == Resolvable(S, known)
           B == {e \in A : Parent[e] \in known \cup {None} \cup IdsOf(A)}
<1>1. A \subseteq S
  BY DEF Resolvable
<1>2. \A T \in SUBSET S : ClosedIn(T, S, known) => A \subseteq T
  BY DEF Resolvable
<1>3. ClosedIn(A, S, known)
  BY ResolvableComplete
<1>4. IdsOf(B) \subseteq IdsOf(A)
  BY DEF IdsOf
<1>5. ClosedIn(B, S, known)
  BY <1>3, <1>4 DEF ClosedIn
<1>6. A \subseteq B
  BY <1>1, <1>2, <1>5
<1> QED
  BY <1>6

(* Resolvable selects.                                                     *)
LEMMA ResolvableSubset ==
    ASSUME NEW S, NEW known
    PROVE  Resolvable(S, known) \subseteq S
  BY DEF Resolvable

(* Where the events of a call go.                                          *)
LEMMA Partition ==
    ASSUME NEW b \in Batches
    PROVE  /\ New(b) \subseteq b.events
           /\ Admitted(b) \subseteq New(b)
           /\ Deferred(b) = New(b) \ Admitted(b)
           /\ Promoted(b) \subseteq pending
           /\ \A p \in Promoted(b) : Id[p] \notin IdsOf(New(b))
           /\ Inserts(b) = Admitted(b) \cup Promoted(b)
           /\ b.events \subseteq Events
<1>1. Admitted(b) \subseteq New(b)
  BY ResolvableSubset DEF Admitted
<1>2. Promoted(b) \subseteq {p \in pending : Id[p] \notin IdsOf(New(b))}
  BY ResolvableSubset DEF Promoted
<1>3. b.events \subseteq Events
  BY CallAssumption
<1> QED
  BY <1>1, <1>2, <1>3 DEF New, Deferred, Inserts

-----------------------------------------------------------------------------
(* Type correctness.                                                       *)

LEMMA CommitType ==
    ASSUME TypeOK, NEW b \in Batches, Commit(b)
    PROVE  TypeOK'
<1>1. \A e \in Deferred(b) : Parent[e] # None
  <2> SUFFICES ASSUME NEW e \in New(b), Parent[e] = None
               PROVE  e \in Admitted(b)
    BY DEF Deferred
  <2> QED
    BY DEF Admitted, Resolvable, ClosedIn
<1> QED
  BY <1>1, Partition DEF Commit, TypeOK

(* The tables hold events, and a pending row names its parent.             *)
THEOREM TypeCorrect == Spec => []TypeOK
<1>1. Init => TypeOK
  BY DEF Init, TypeOK
<1>2. TypeOK /\ [Next]_vars => TypeOK'
  <2> SUFFICES ASSUME TypeOK, [Next]_vars
               PROVE  TypeOK'
    OBVIOUS
  <2>1. ASSUME NEW b \in Batches, AppendAtomic(b)
        PROVE  TypeOK'
    BY <2>1, CommitType DEF AppendAtomic, vars, TypeOK
  <2>2. ASSUME NEW cutoff \in Cutoffs, Prune(cutoff)
        PROVE  TypeOK'
    BY <2>2 DEF Prune, Surviving, TypeOK
  <2>3. CASE UNCHANGED vars
    BY <2>3 DEF vars, TypeOK
  <2> QED
    BY <2>1, <2>2, <2>3 DEF Next
<1> QED
  BY <1>1, <1>2, PTL DEF Spec

-----------------------------------------------------------------------------
(* Causal closure.                                                         *)

LEMMA CommitClosed ==
    ASSUME TypeOK, CausallyClosed, SelfContained,
           NEW b \in Batches, Accepts(b), Commit(b)
    PROVE  CausallyClosed'
<1>1. durable' = durable \cup Inserts(b)
  BY DEF Commit
<1>2. SUFFICES ASSUME NEW e \in Inserts(b)
               PROVE  Parent[e] \in IdsOf(durable \cup Inserts(b)) \cup {None}
  BY <1>1 DEF CausallyClosed, IdsOf
<1>3. CASE e \in Promoted(b)
  <2>1. b.bufferUnresolvedCausalParents
    BY <1>3 DEF Promoted
  <2> DEFINE S == {p \in pending : Id[p] \notin IdsOf(New(b))}
             known == IdsOf(durable \cup Admitted(b))
  <2>2. Promoted(b) = Resolvable(S, known)
    BY <2>1 DEF Promoted
  <2>3. Parent[e] \in known \cup {None} \cup IdsOf(Promoted(b))
    BY <1>3, <2>2, ResolvableClosed
  <2> QED
    BY <2>3, Partition DEF IdsOf
<1>4. CASE e \in Admitted(b) /\ b.bufferUnresolvedCausalParents
  <2>1. Admitted(b) = Resolvable(New(b), IdsOf(durable))
    BY <1>4 DEF Admitted
  <2>2. Parent[e] \in IdsOf(durable) \cup {None} \cup IdsOf(Admitted(b))
    BY <1>4, <2>1, ResolvableClosed
  <2> QED
    BY <2>2, Partition DEF IdsOf
<1>5. CASE b.requireValidEventSet
  BY <1>5, <1>2 DEF Accepts, Valid, Referenced
<1>6. CASE /\ e \in Admitted(b) /\ ~b.bufferUnresolvedCausalParents
           /\ ~b.requireValidEventSet
  <2>1. Admitted(b) = b.events \ durable
    BY <1>6 DEF Admitted, New
  <2>2. Parent[e] \in IdsOf(b.events) \cup {None}
    BY <1>6, <2>1 DEF SelfContained
  <2> QED
    BY <2>1, <2>2, Partition DEF IdsOf
<1> QED
  BY <1>2, <1>3, <1>4, <1>5, <1>6, Partition

LEMMA PruneClosed ==
    ASSUME TypeOK, CausallyClosed, NEW cutoff \in Cutoffs, Prune(cutoff)
    PROVE  CausallyClosed'
<1>1. durable' = Surviving(cutoff)
  BY DEF Prune
<1>2. SUFFICES ASSUME NEW e \in Surviving(cutoff), Parent[e] # None
               PROVE  Parent[e] \in IdsOf(Surviving(cutoff))
  BY <1>1 DEF CausallyClosed
<1>3. e \in durable
  BY DEF Surviving
<1>4. PICK p \in durable : Id[p] = Parent[e]
  BY <1>2, <1>3 DEF CausallyClosed, IdsOf
<1>5. Id[p] \in Ids
  BY EventAssumption DEF TypeOK
<1>6. Id[p] \in Protected(cutoff)
  BY <1>2, <1>3, <1>4, <1>5 DEF Surviving, Protected
<1> QED
  BY <1>4, <1>6 DEF Surviving, IdsOf

(* The durable log never holds an event whose parent is absent, prunes     *)
(* included, when unchecked calls bring their parents with them.           *)
THEOREM DurableLogClosed ==
    ASSUME SelfContained
    PROVE  Spec => []CausallyClosed
<1>1. Init => CausallyClosed
  BY DEF Init, CausallyClosed
<1>2. TypeOK /\ CausallyClosed /\ [Next]_vars => CausallyClosed'
  <2> SUFFICES ASSUME TypeOK, CausallyClosed, [Next]_vars
               PROVE  CausallyClosed'
    OBVIOUS
  <2>1. ASSUME NEW b \in Batches, AppendAtomic(b)
        PROVE  CausallyClosed'
    BY <2>1, CommitClosed DEF AppendAtomic, vars, CausallyClosed
  <2>2. ASSUME NEW cutoff \in Cutoffs, Prune(cutoff)
        PROVE  CausallyClosed'
    BY <2>2, PruneClosed
  <2>3. CASE UNCHANGED vars
    BY <2>3 DEF vars, CausallyClosed
  <2> QED
    BY <2>1, <2>2, <2>3 DEF Next
<1> QED
  BY <1>1, <1>2, TypeCorrect, PTL DEF Spec

-----------------------------------------------------------------------------
(* A store that always buffers.                                            *)

(* FreshAccepted is not inductive: it needs the tables to share no id, and *)
(* that needs the ids of the pending rows to be unique.                    *)
TablesApart == IdsOf(durable) \cap IdsOf(pending) = {}
BufferInv == OneContent /\ TablesApart

LEMMA CommitApart ==
    ASSUME TypeOK, BufferInv, NEW b \in Batches,
           b.bufferUnresolvedCausalParents, Accepts(b), Commit(b)
    PROVE  BufferInv'
<1> DEFINE A == Admitted(b)
           D == Deferred(b)
           P == Promoted(b)
           S == Superseded(b)
<1>1. /\ durable' = durable \cup A \cup P
      /\ pending' = (pending \cup D) \ (P \cup S)
  BY Partition DEF Commit
<1>2. /\ A \subseteq b.events /\ D \subseteq b.events
      /\ A \cap D = {} /\ A \cup D = New(b)
      /\ A \cap durable = {} /\ D \cap durable = {}
      /\ P \subseteq pending
  BY Partition DEF New, Deferred
<1>3. \A e \in A \cup D, f \in b.events \cup durable : Id[e] = Id[f] => e = f
  BY <1>2 DEF Accepts, Conflict
<1>4. \A e \in D, f \in pending : Id[e] = Id[f] => e = f
  BY DEF Accepts, Conflict
<1>5. \A e \in P, f \in A \cup D : Id[e] # Id[f]
  BY <1>2, Partition DEF IdsOf
<1>6. \A e \in pending \ S, f \in A : Id[e] # Id[f]
  BY DEF Superseded, IdsOf
<1>7. \A e, f \in durable \cup pending : Id[e] = Id[f] => e = f
  BY DEF BufferInv, OneContent, Conflict
<1>8. \A e \in durable, f \in pending : Id[e] # Id[f]
  BY DEF BufferInv, TablesApart, IdsOf
<1>9. \A e \in durable', f \in pending' : Id[e] # Id[f]
  <2>1. \A e \in durable, f \in pending' : Id[e] # Id[f]
    BY <1>1, <1>2, <1>3, <1>8
  <2>2. \A e \in A, f \in pending' : Id[e] # Id[f]
    BY <1>1, <1>2, <1>3, <1>6
  <2>3. \A e \in P, f \in pending' : Id[e] # Id[f]
    BY <1>1, <1>2, <1>5, <1>7
  <2> QED
    BY <1>1, <2>1, <2>2, <2>3
<1>10. \A e, f \in durable' : Id[e] = Id[f] => e = f
  BY <1>1, <1>2, <1>3, <1>5, <1>7, <1>8
<1>11. \A e, f \in pending' : Id[e] = Id[f] => e = f
  BY <1>1, <1>2, <1>3, <1>4, <1>7
<1> QED
  BY <1>9, <1>10, <1>11 DEF BufferInv, OneContent, TablesApart, Conflict, IdsOf

LEMMA PruneApart ==
    ASSUME BufferInv, NEW cutoff \in Cutoffs, Prune(cutoff)
    PROVE  BufferInv'
<1>1. durable' \subseteq durable /\ pending' = {}
  BY DEF Prune, Surviving
<1> QED
  BY <1>1 DEF BufferInv, OneContent, TablesApart, Conflict, IdsOf

(* While no call without buffering has been accepted.                      *)
LEMMA TablesStayApart == Spec => [](~unbuffered => BufferInv)
<1>1. Init => BufferInv
  BY DEF Init, BufferInv, OneContent, TablesApart, Conflict, IdsOf
<1>2. TypeOK /\ (~unbuffered => BufferInv) /\ [Next]_vars
      => (~unbuffered => BufferInv)'
  <2> SUFFICES ASSUME TypeOK, ~unbuffered => BufferInv, [Next]_vars,
                      ~unbuffered'
               PROVE  BufferInv'
    OBVIOUS
  <2>1. ASSUME NEW b \in Batches, Accepts(b), Commit(b)
        PROVE  BufferInv'
    <3>1. b.bufferUnresolvedCausalParents /\ ~unbuffered
      BY <2>1 DEF Commit
    <3> QED
      BY <2>1, <3>1, CommitApart
  <2>2. ASSUME NEW cutoff \in Cutoffs, Prune(cutoff)
        PROVE  BufferInv'
    <3>1. ~unbuffered
      BY <2>2 DEF Prune
    <3> QED
      BY <2>2, <3>1, PruneApart
  <2>3. CASE UNCHANGED vars
    BY <2>3 DEF vars, BufferInv, OneContent, TablesApart, Conflict, IdsOf
  <2> QED
    BY <2>1, <2>2, <2>3 DEF Next, AppendAtomic
<1> QED
  BY <1>1, <1>2, TypeCorrect, PTL DEF Spec

(* A store whose every call buffers stays in that state.                   *)
LEMMA StaysBuffered ==
    ASSUME AlwaysBuffered
    PROVE  Spec => []~unbuffered
<1>1. Init => ~unbuffered
  BY DEF Init
<1>2. ~unbuffered /\ [Next]_vars => ~unbuffered'
  BY DEF AlwaysBuffered, Next, AppendAtomic, Commit, Prune, vars
<1> QED
  BY <1>1, <1>2, PTL DEF Spec

(* When every call buffers, no id ever stands for two contents.            *)
THEOREM OneContentPerId ==
    ASSUME AlwaysBuffered
    PROVE  Spec => []OneContent
<1>1. BufferInv => OneContent
  BY DEF BufferInv
<1> QED
  BY <1>1, TablesStayApart, StaysBuffered, PTL

(* No promotion collides with a durable row, so that what is there cannot  *)
(* make an append of new events fail.                                      *)
LEMMA ApartIsFresh == BufferInv => FreshAccepted
<1> SUFFICES ASSUME BufferInv, NEW b \in Batches,
                    b.bufferUnresolvedCausalParents,
                    ~b.requireValidEventSet,
                    ~Conflict(b.events, b.events),
                    IdsOf(b.events) \cap IdsOf(durable \cup pending) = {}
             PROVE  Accepts(b)
  BY DEF FreshAccepted
<1>1. /\ Admitted(b) \subseteq b.events /\ Deferred(b) \subseteq b.events
      /\ Promoted(b) \subseteq pending
      /\ Inserts(b) = Admitted(b) \cup Promoted(b)
  BY Partition
<1>2. \A e \in b.events, f \in durable \cup pending : Id[e] # Id[f]
  BY DEF IdsOf
<1>3. ~Conflict(b.events, b.events \cup durable)
  BY <1>2 DEF Conflict
<1>4. ~Conflict(Deferred(b), pending)
  BY <1>1, <1>2 DEF Conflict
<1>5. ~Conflict(Inserts(b), Inserts(b))
  BY <1>1, <1>2 DEF Conflict, BufferInv, OneContent
<1>6. IdsOf(Inserts(b)) \cap IdsOf(durable) = {}
  BY <1>1, <1>2 DEF IdsOf, BufferInv, TablesApart
<1> QED
  BY <1>3, <1>4, <1>5, <1>6 DEF Accepts

(* When every call buffers, what is already there cannot make an append of *)
(* new events fail: no promotion collides with a durable row.              *)
THEOREM FreshAppendsAccepted ==
    ASSUME AlwaysBuffered
    PROVE  Spec => []FreshAccepted
  BY ApartIsFresh, TablesStayApart, StaysBuffered, PTL

-----------------------------------------------------------------------------
(* What the ledger accepted, however it is used.                           *)

LEMMA CommitKeeps ==
    ASSUME Kept, NEW b \in Batches, Commit(b)
    PROVE  Kept'
<1>1. /\ durable' = durable \cup Admitted(b) \cup Promoted(b)
      /\ pending' = (pending \cup Deferred(b)) \ (Promoted(b) \cup Superseded(b))
      /\ accepted' = accepted \cup b.events
  BY Partition DEF Commit
<1>2. \A e \in Superseded(b) : \E f \in Admitted(b) : Id[f] = Id[e]
  BY DEF Superseded, IdsOf
<1>3. Admitted(b) \subseteq b.events
  BY Partition
<1>4. \A e \in durable \cup pending \cup b.events :
         \/ e \in durable' \cup pending'
         \/ \E f \in accepted' \cap durable' : Id[f] = Id[e]
  BY <1>1, <1>2, <1>3, Partition DEF New
<1>5. accepted \cap durable \subseteq accepted' \cap durable'
  BY <1>1
<1> QED
  BY <1>1, <1>4, <1>5 DEF Kept

LEMMA KeptStays == Spec => []Kept
<1>1. Init => Kept
  BY DEF Init, Kept
<1>2. Kept /\ [Next]_vars => Kept'
  <2> SUFFICES ASSUME Kept, [Next]_vars
               PROVE  Kept'
    OBVIOUS
  <2>1. ASSUME NEW b \in Batches, AppendAtomic(b)
        PROVE  Kept'
    BY <2>1, CommitKeeps DEF AppendAtomic, vars, Kept
  <2>2. ASSUME NEW cutoff \in Cutoffs, Prune(cutoff)
        PROVE  Kept'
    BY <2>2 DEF Prune, Kept
  <2>3. CASE UNCHANGED vars
    BY <2>3 DEF vars, Kept
  <2> QED
    BY <2>1, <2>2, <2>3 DEF Next
<1> QED
  BY <1>1, <1>2, PTL DEF Spec

(* A prune keeps the cause of whatever it keeps.                           *)
LEMMA CausesSurvive ==
    ASSUME TypeOK, NEW cutoff, NEW e \in Surviving(cutoff),
           NEW p \in durable, Id[p] = Parent[e], Parent[e] # None
    PROVE  p \in Surviving(cutoff)
<1>1. e \in durable
  BY DEF Surviving
<1>2. Id[p] \in Ids
  BY EventAssumption DEF TypeOK
<1>3. Id[p] \in Protected(cutoff)
  BY <1>1, <1>2 DEF Surviving, Protected
<1> QED
  BY <1>3 DEF Surviving

LEMMA SurvivorsReplay == TypeOK => PruneKeepsReplayable
<1> SUFFICES ASSUME TypeOK, Valid(durable),
                    \A e \in durable : Refs[e] \subseteq {Parent[e]},
                    NEW cutoff \in Cutoffs
             PROVE  Valid(Surviving(cutoff))
  BY DEF PruneKeepsReplayable
<1> DEFINE R == Surviving(cutoff)
<1>1. R \subseteq durable
  BY DEF Surviving
<1>2. ~Conflict(R, R)
  BY <1>1 DEF Valid, Conflict
<1>3. ASSUME NEW e \in R
      PROVE  Referenced(e) \subseteq IdsOf(R)
  <2>1. CASE Parent[e] = None
    <3>1. Refs[e] = {}
      BY <1>1, <2>1, EventAssumption DEF TypeOK
    <3> QED
      BY <2>1, <3>1 DEF Referenced
  <2>2. CASE Parent[e] # None
    <3>1. Referenced(e) = {Parent[e]}
      BY <1>1, <2>2 DEF Referenced
    <3>2. PICK p \in durable : Id[p] = Parent[e]
      BY <1>1, <3>1 DEF Valid, IdsOf
    <3>3. p \in R
      BY <2>2, <3>2, CausesSurvive
    <3> QED
      BY <3>1, <3>2, <3>3 DEF IdsOf
  <2> QED
    BY <2>1, <2>2
<1>4. Acyclic(R)
  BY <1>1 DEF Valid, Acyclic
<1>5. /\ \A e, f \in R : Parent[e] = Id[f] => Corr[e] = Corr[f]
      /\ \A e, f \in R : Parent[e] = None /\ Parent[f] = None
                            /\ Corr[e] = Corr[f] => e = f
  BY <1>1 DEF Valid
<1> QED
  BY <1>2, <1>3, <1>4, <1>5 DEF Valid

(* However the calls alternate, what the ledger accepted is kept until it  *)
(* is pruned, a prune leaves replay what it accepted, and a ledger written *)
(* with buffering alone refuses nothing new.                               *)
THEOREM NothingGivenUp == Spec => []AcceptedStays
<1>1. /\ TypeOK /\ Kept /\ (~unbuffered => BufferInv)
      => AcceptedStays
  BY SurvivorsReplay, ApartIsFresh DEF AcceptedStays
<1> QED
  BY <1>1, TypeCorrect, KeptStays, TablesStayApart, PTL

-----------------------------------------------------------------------------
(* Promotion.                                                              *)

LEMMA CommitPromotes ==
    ASSUME NEW b \in Batches, b.bufferUnresolvedCausalParents, Commit(b),
           NEW p \in pending', Id[p] \notin IdsOf(b.events)
    PROVE  Parent[p] \notin IdsOf(durable')
<1> DEFINE S == {q \in pending : Id[q] \notin IdsOf(New(b))}
           known == IdsOf(durable \cup Admitted(b))
<1>1. p \in pending \ Promoted(b)
  BY Partition DEF Commit, IdsOf
<1>2. p \in S
  BY <1>1, Partition DEF IdsOf
<1>3. Promoted(b) = Resolvable(S, known)
  BY DEF Promoted
<1>4. Parent[p] \notin known \cup IdsOf(Promoted(b))
  BY <1>1, <1>2, <1>3, ResolvableComplete DEF ClosedIn
<1>5. IdsOf(durable') = known \cup IdsOf(Promoted(b))
  BY Partition DEF Commit, IdsOf
<1> QED
  BY <1>4, <1>5

(* A buffered call that changes the log leaves no row waiting, but those   *)
(* it named itself, whose parent is in the log.                            *)
THEOREM PromotedAtOnce == Spec => RowsPromoted
<1>1. ASSUME durable' # durable, NEW p \in pending',
             Parent[p] \in IdsOf(durable'), NEW b \in Batches,
             b.bufferUnresolvedCausalParents, Id[p] \notin IdsOf(b.events)
      PROVE  ~AppendAtomic(b)
  BY <1>1, CommitPromotes DEF AppendAtomic, vars
<1>2. [Next]_vars =>
        [durable' # durable =>
            \A p \in pending' : Parent[p] \in IdsOf(durable') =>
                \A b \in Batches :
                    b.bufferUnresolvedCausalParents /\ Id[p] \notin IdsOf(b.events)
                    => ~AppendAtomic(b)]_vars
  BY <1>1
<1> QED
  BY <1>2, PTL DEF Spec, RowsPromoted
=============================================================================
