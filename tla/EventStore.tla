----------------------------- MODULE EventStore -----------------------------
(***************************************************************************)
(* The ledger: packages/storage/src/event-store.ts and the event-set       *)
(* validation of packages/protocol/src/validation.ts it calls.             *)
(*                                                                         *)
(* Every public operation is one BEGIN IMMEDIATE transaction, so an action *)
(* is a whole call by whichever process holds the write lock; a call that  *)
(* throws is rolled back and changes nothing.  An event stands for its     *)
(* canonical bytes, so two events have equal digests when they are equal.  *)
(***************************************************************************)
EXTENDS Integers, FiniteSets

CONSTANTS
    Events,     \* canonical events
    Ids,        \* event ids
    None,       \* the null causation id
    Id,         \* the id of each event
    Parent,     \* its causationId
    Refs,       \* the other event ids its payload refers to
    Corr,       \* its correlationId
    At,         \* its timestamp
    Batches,    \* the calls of appendAtomic: inputs and options
    Cutoffs     \* the calls of prune: cutoff times

ASSUME EventAssumption ==
    /\ None \notin Ids
    /\ Id \in [Events -> Ids]
    /\ Parent \in [Events -> Ids \cup {None}]
    /\ Refs \in [Events -> SUBSET Ids]
    /\ At \in [Events -> Nat]
ASSUME CallAssumption ==
    /\ Batches \subseteq [events : SUBSET Events, requireValidEventSet : BOOLEAN,
                          bufferUnresolvedCausalParents : BOOLEAN]
    /\ Cutoffs \subseteq Nat

VARIABLES
    durable,    \* the rows of `events`
    pending,    \* the rows of `pending_events`
    accepted,   \* history: events a call reported inserted, duplicate or
                \*   buffered, less those prune removed
    unbuffered  \* history: a call that does not buffer has been accepted

vars == <<durable, pending, accepted, unbuffered>>

IdsOf(S) == {Id[e] : e \in S}
Conflict(S, T) == \E e \in S, f \in T : Id[e] = Id[f] /\ e # f

-----------------------------------------------------------------------------
(* validateEventSet, as far as references, correlations and causality go.  *)

Referenced(e) == Refs[e] \cup (IF Parent[e] = None THEN {} ELSE {Parent[e]})
Acyclic(S) == \A C \in SUBSET S :
                C # {} => \E e \in C : Parent[e] \notin IdsOf(C)
Valid(S) ==
    /\ ~Conflict(S, S)
    /\ \A e \in S : Referenced(e) \subseteq IdsOf(S)
    /\ \A e, f \in S : Parent[e] = Id[f] => Corr[e] = Corr[f]
    /\ \A e, f \in S : Parent[e] = None /\ Parent[f] = None
                          /\ Corr[e] = Corr[f] => e = f
    /\ Acyclic(S)

-----------------------------------------------------------------------------
(* appendAtomic.                                                           *)

(* What the two loops to a fixpoint compute: the members of S whose chain  *)
(* of parents inside S ends in an id known to be durable, or in null.      *)
ClosedIn(T, S, known) ==
    \A e \in S : Parent[e] \in known \cup {None} \cup IdsOf(T) => e \in T
(* Mutated form: one pass, so that a chain stops at its first link.        *)
ResolvableOnce(S, known) == {e \in S : Parent[e] \in known \cup {None}}
Resolvable(S, known) ==
    {e \in S : \A T \in SUBSET S : ClosedIn(T, S, known) => e \in T}

(* Candidates not in the ledger yet, and what becomes of them: admitted    *)
(* now, or deferred to the pending rows.                                   *)
New(b) == b.events \ durable
(* Mutated form: a parent that is itself deferred in the batch will do.    *)
AdmittedLoosely(b) ==
    {e \in New(b) : b.bufferUnresolvedCausalParents =>
        Parent[e] \in IdsOf(durable) \cup {None} \cup IdsOf(New(b))}
Admitted(b) == IF b.bufferUnresolvedCausalParents
               THEN Resolvable(New(b), IdsOf(durable)) ELSE New(b)
Deferred(b) == New(b) \ Admitted(b)

(* Pending rows the call makes durable, and rows that became redundant     *)
(* because their id was admitted from the input.  A resubmitted id is      *)
(* never promoted.                                                         *)
Promoted(b) ==
    IF b.bufferUnresolvedCausalParents
    THEN Resolvable({p \in pending : Id[p] \notin IdsOf(New(b))},
                    IdsOf(durable \cup Admitted(b)))
    ELSE {}
(* Mutated form: every resubmitted row is retired, deferred or not.        *)
SupersededDeferred(b) ==
    IF b.bufferUnresolvedCausalParents
    THEN {p \in pending : Id[p] \in IdsOf(New(b))} ELSE {}
Superseded(b) ==
    IF b.bufferUnresolvedCausalParents
    THEN {p \in pending : Id[p] \in IdsOf(Admitted(b))} ELSE {}

Inserts(b) == Admitted(b) \cup Promoted(b)

(* The ways the transaction throws: PHASE0_ID_CONFLICT, an invalid event   *)
(* set, the uniqueness of events.event_id.                                 *)
(* Mutated form: what is deferred is not compared with the pending rows.   *)
AcceptsUnread(b) ==
    /\ ~Conflict(b.events, b.events \cup durable)
    /\ b.requireValidEventSet => Valid(durable \cup Inserts(b))
    /\ ~Conflict(Inserts(b), Inserts(b))
    /\ IdsOf(Inserts(b)) \cap IdsOf(durable) = {}
Accepts(b) ==
    /\ ~Conflict(b.events, b.events \cup durable)
    /\ ~Conflict(Deferred(b), pending)
    /\ b.requireValidEventSet => Valid(durable \cup Inserts(b))
    /\ ~Conflict(Inserts(b), Inserts(b))
    /\ IdsOf(Inserts(b)) \cap IdsOf(durable) = {}

Commit(b) ==
    /\ durable' = durable \cup Inserts(b)
    /\ pending' = (pending \cup Deferred(b)) \ (Promoted(b) \cup Superseded(b))
    /\ accepted' = accepted \cup b.events
    /\ unbuffered' = (unbuffered \/ ~b.bufferUnresolvedCausalParents)

AppendAtomic(b) == IF Accepts(b) THEN Commit(b) ELSE UNCHANGED vars

-----------------------------------------------------------------------------
(* prune: the recursive query keeps what a survivor's chain of parents     *)
(* reaches.                                                                *)

Protected(cutoff) ==
    {i \in Ids : \A T \in SUBSET Ids :
        (\A e \in durable : (At[e] >= cutoff \/ Id[e] \in T) =>
                                Parent[e] \in T \cup {None})
        => i \in T}
Surviving(cutoff) ==
    {e \in durable : At[e] >= cutoff \/ Id[e] \in Protected(cutoff)}

Prune(cutoff) ==
    /\ durable' = Surviving(cutoff)
    /\ pending' = {}
    /\ accepted' = accepted \cap Surviving(cutoff)
    /\ UNCHANGED unbuffered

-----------------------------------------------------------------------------
Init == durable = {} /\ pending = {} /\ accepted = {} /\ unbuffered = FALSE

Next ==
    \/ \E b \in Batches : AppendAtomic(b)
    \/ \E cutoff \in Cutoffs : Prune(cutoff)

Spec == Init /\ [][Next]_vars

-----------------------------------------------------------------------------
(* Two ways of using the store.                                            *)

(* A call with neither option brings the parents of its events with it.    *)
SelfContained ==
    \A b \in Batches :
        \/ b.requireValidEventSet \/ b.bufferUnresolvedCausalParents
        \/ \A e \in b.events : Parent[e] \in IdsOf(b.events) \cup {None}

(* Every call buffers.                                                     *)
AlwaysBuffered == \A b \in Batches : b.bufferUnresolvedCausalParents

-----------------------------------------------------------------------------
(* Properties.                                                             *)

(* Both tables hold events; a pending row has a parent to wait for.        *)
TypeOK ==
    /\ durable \subseteq Events
    /\ pending \subseteq {e \in Events : Parent[e] # None}
    /\ accepted \subseteq Events
    /\ unbuffered \in BOOLEAN

(* "So the two tables cannot disagree": under one id there is one content, *)
(* in the log or pending.                                                  *)
OneContent == ~Conflict(durable \cup pending, durable \cup pending)

(* "Keeps the durable log causally closed at all times": no durable event  *)
(* has an absent parent.  The batches appended without either option must  *)
(* be closed themselves, as the recorder's request and completion are.     *)
CausallyClosed == \A e \in durable : Parent[e] \in IdsOf(durable) \cup {None}

(* An event a call accepted is kept, with that content, until it is        *)
(* pruned; only a pending one may give way, to another content of its id   *)
(* that a later call made durable.                                         *)
Kept ==
    \A e \in accepted :
        \/ e \in durable \cup pending
        \/ \E f \in accepted \cap durable : Id[f] = Id[e]

(* "Delete events older than a cutoff, without breaking causal replay":    *)
(* what replay accepts it accepts after a prune, when no event refers to   *)
(* any but its cause; prune keeps causes and nothing else.                 *)
PruneKeepsReplayable ==
    Valid(durable) /\ (\A e \in durable : Refs[e] \subseteq {Parent[e]})
    => \A cutoff \in Cutoffs : Valid(Surviving(cutoff))

(* "Promotes buffered events once their parent lands": after a buffered    *)
(* call that changed the log, a row the call did not itself name waits for *)
(* a parent that is not in the log, however long the chain it is part of.  *)
RowsPromoted ==
    [][durable' # durable =>
        \A p \in pending' : Parent[p] \in IdsOf(durable') =>
            \A b \in Batches :
                b.bufferUnresolvedCausalParents /\ Id[p] \notin IdsOf(b.events)
                => ~AppendAtomic(b)]_vars

(* A buffered append of events nobody has sent before is accepted: the     *)
(* rows already there cannot make it fail.                                 *)
FreshAccepted ==
    \A b \in Batches :
        /\ b.bufferUnresolvedCausalParents /\ ~b.requireValidEventSet
        /\ ~Conflict(b.events, b.events)
        /\ IdsOf(b.events) \cap IdsOf(durable \cup pending) = {}
        => Accepts(b)

(* However plain, checked and buffered calls alternate, of what the ledger *)
(* accepted nothing is given up, through prune and replay; and while every *)
(* call buffers, nothing it holds makes it refuse what is new.  A plain    *)
(* call can make an event durable that another content of waits for.       *)
AcceptedStays ==
    /\ Kept
    /\ PruneKeepsReplayable
    /\ ~unbuffered => FreshAccepted
=============================================================================
