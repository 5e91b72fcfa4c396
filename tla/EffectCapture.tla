---------------------------- MODULE EffectCapture ----------------------------
(***************************************************************************)
(* What changed on disk, from the watcher to the ledger.                   *)
(*                                                                         *)
(*   packages/observation/src/sidecar.ts          drain, ack, the socket   *)
(*   packages/observation/src/node-observation.ts windows of one session   *)
(*   packages/recorder/src/effects.ts             observeTurnEffects       *)
(*   packages/recorder/src/ingest.ts              recordTurnEffects        *)
(*                                                                         *)
(* One sidecar process watches the checkout and keeps its snapshot in      *)
(* memory; recorder processes ask it to prepare a transaction, append its  *)
(* changes to the ledger and acknowledge it.  Without a sidecar they       *)
(* capture the checkout themselves.  One action is one file operation,     *)
(* ledger transaction or message of one process.                           *)
(***************************************************************************)
EXTENDS Integers, Sequences, FiniteSets

CONSTANTS
    Procs,      \* recorder processes; each derives a request id of its own
    Paths,      \* files of the checkout
    None,
    MaxEdits,   \* bound: how often each file is written
    MaxCrashes, \* bound: processes that die, and state writes that fail
    MaxTimeouts \* bound: requests given up after requestTimeoutMs

ASSUME ValueAssumption ==
    /\ None \notin Procs
    /\ {MaxEdits, MaxCrashes, MaxTimeouts} \subseteq Nat
ASSUME NullAssumption ==
    /\ None \notin [Paths -> 0 .. MaxEdits]
    /\ \A b, c \in [Paths -> 0 .. MaxEdits] : None # [before |-> b, capture |-> c]

VARIABLES
    disk,       \* the content of each file, as the number of its last write
    state,      \* sidecar.json: latest, pending, committed
    orphan,     \* sidecar.json.lock was left behind by a process that died
    sc,         \* the sidecar process: its session, its queue, its job
    marker,     \* recorder-request.json: the request to be retried
    baseline,   \* snapshot.json, the baseline of captures without a sidecar
    cl,         \* the local state of each recorder process
    ledger,     \* the file.changed events
    crashes,
    timeouts,
    seen        \* history, for the properties: see Seen

vars == <<disk, state, orphan, sc, marker, baseline, cl, ledger, crashes,
          timeouts, seen>>

-----------------------------------------------------------------------------
(* Data.                                                                   *)

Version == 0 .. MaxEdits
Snapshot == [Paths -> Version]
Result == [before : Snapshot, capture : Snapshot]
Change == [path : Paths, ver : Version]

(* diffSnapshots between two captures.                                     *)
Diff(before, after) ==
    {[path |-> f, ver |-> after[f]] : f \in {g \in Paths : before[g] # after[g]}}

NoJob == [pc |-> "none", req |-> None, before |-> None, capture |-> None]
Job == [pc : {"none", "window", "persist"}, req : Procs \cup {None},
        before : Snapshot \cup {None}, capture : Snapshot \cup {None}]
Message == [op : {"drain", "ack"}, who : Procs, req : Procs]

State == [latest : Snapshot \cup {None}, pending : [Procs -> Result \cup {None}],
          committed : SUBSET Procs]

(* raised: changes the operating system has not told the watcher yet;      *)
(* journal: what it was told since the session's processedCursor.          *)
Session == [up : BOOLEAN, restored : BOOLEAN, cache : Snapshot \cup {None},
            raised : SUBSET Paths, journal : SUBSET Paths,
            queue : Seq(Message), job : Job]
Down == [up |-> FALSE, restored |-> FALSE, cache |-> None, raised |-> {},
         journal |-> {}, queue |-> <<>>, job |-> NoJob]

NotStarted == [pc |-> "idle", req |-> None, existed |-> FALSE,
               via |-> "none", before |-> None, after |-> None, todo |-> {},
               acked |-> FALSE]
Ended == [NotStarted EXCEPT !.pc = "done"]
Client ==
    [pc : {"idle", "mark", "connect", "wait", "capture", "previous", "swap",
           "append", "commit", "acking", "clear", "done"},
     req : Procs \cup {None}, existed : BOOLEAN,
     via : {"none", "sidecar", "legacy"}, before : Snapshot \cup {None},
     after : Snapshot \cup {None}, todo : SUBSET Change, acked : BOOLEAN]
Is(p, pc) == cl[p].pc = pc

(* A change prepared by the sidecar has an id derived from its request;    *)
(* `by` stands for what else the event says: its timestamp is now() of the *)
(* process that appends it.                                                *)
Entry == [via : {"sidecar", "legacy"}, req : Procs, path : Paths,
          ver : Version, by : Procs]

(* History: what each request's transaction was when first prepared, what  *)
(* entered the sidecar's snapshot outside of a window or in one that could *)
(* not be written, and the requests whose marker was removed               *)
(* unacknowledged.                                                         *)
Seen == [prepared : [Procs -> Result \cup {None}],
         absorbed : SUBSET [how : {"first", "aside", "failed"}, change : Change],
         dropped : SUBSET Procs]

-----------------------------------------------------------------------------
(* The checkout and the watcher.                                           *)

Edit(f) ==
    /\ disk[f] < MaxEdits
    /\ disk' = [disk EXCEPT ![f] = @ + 1]
    /\ sc' = IF sc.cache = None THEN sc ELSE [sc EXCEPT !.raised = @ \cup {f}]
    /\ UNCHANGED <<state, orphan, marker, baseline, cl, ledger, crashes,
                   timeouts, seen>>

(* The watcher's listener.                                                 *)
Notify(f) ==
    /\ f \in sc.raised
    /\ sc' = [sc EXCEPT !.raised = @ \ {f}, !.journal = @ \cup {f}]
    /\ UNCHANGED <<disk, state, orphan, marker, baseline, cl, ledger, crashes,
                   timeouts, seen>>

(* captureIncremental reads the files the journal names.                   *)
Incremental(cache) ==
    [f \in Paths |-> IF f \in sc.journal THEN disk[f] ELSE cache[f]]

Aside(old, new) ==
    {[how |-> "aside", change |-> c] : c \in Diff(old, new)}

-----------------------------------------------------------------------------
(* The sidecar.  Its requests are served one at a time, in the order they  *)
(* arrived, each under the lock and from sidecar.json.                     *)

SessionStart ==
    /\ ~sc.up /\ ~orphan
    /\ sc' = [Down EXCEPT !.up = TRUE]
    /\ UNCHANGED <<disk, state, orphan, marker, baseline, cl, ledger, crashes,
                   timeouts, seen>>

Serving(op) == /\ sc.up /\ sc.job.pc = "none"
               /\ sc.queue # <<>> /\ Head(sc.queue).op = op
Asked == Head(sc.queue).req

(* The reply reaches the client if it still waits for it.                  *)
Reply(who, before, capture) ==
    cl' = IF Is(who, "wait")
          THEN [cl EXCEPT ![who].pc = "append", ![who].via = "sidecar",
                          ![who].todo = Diff(before, capture)]
          ELSE cl

IsPending(r) == state.pending[r] # None

DrainPending ==
    /\ Serving("drain") /\ IsPending(Asked)
    /\ Reply(Head(sc.queue).who, state.pending[Asked].before,
             state.pending[Asked].capture)
    /\ sc' = [sc EXCEPT !.queue = Tail(@)]
    /\ UNCHANGED <<disk, state, orphan, marker, baseline, ledger, crashes,
                   timeouts, seen>>

IsCommitted(r) == r \in state.committed /\ state.latest # None

DrainCommitted ==
    /\ Serving("drain") /\ ~IsPending(Asked) /\ IsCommitted(Asked)
    /\ Reply(Head(sc.queue).who, state.latest, state.latest)
    /\ sc' = [sc EXCEPT !.queue = Tail(@)]
    /\ UNCHANGED <<disk, state, orphan, marker, baseline, ledger, crashes,
                   timeouts, seen>>

Prepares == Serving("drain") /\ ~IsPending(Asked) /\ ~IsCommitted(Asked)

(* The snapshot a restarted sidecar's first window is compared with.       *)
(* Mutated form: what it finds on disk.                                    *)
RestoredBeforeNow == disk
RestoredBefore == state.latest

(* The first drain after a restart starts from the committed snapshot:     *)
(* restoreSnapshot, then reconcile, which captures the checkout; when files *)
(* are written all the while it keeps the snapshot, and drainOutOfBand      *)
(* reads the written ones.  Then the window begins.                        *)
Reconciled(written) ==
    [f \in Paths |-> IF written = {} \/ f \in written THEN disk[f]
                     ELSE state.latest[f]]

BeginRestored ==
    /\ Prepares
    /\ state.latest # None /\ ~sc.restored
    /\ \E written \in SUBSET Paths :
         sc' = [sc EXCEPT !.restored = TRUE, !.cache = Reconciled(written),
                   !.job = [NoJob EXCEPT !.pc = "window", !.req = Asked,
                                         !.before = RestoredBefore]]
    /\ UNCHANGED <<disk, state, orphan, marker, baseline, cl, ledger, crashes,
                   timeouts, seen>>

(* beginWindow: a session without a snapshot captures the checkout, and    *)
(* drainOutOfBand takes in what was journalled before the window.          *)
Begin ==
    /\ Prepares
    /\ state.latest = None \/ sc.restored
    /\ LET new == IF sc.cache = None THEN disk ELSE Incremental(sc.cache) IN
       /\ sc' = [sc EXCEPT !.cache = new, !.journal = {},
                   !.job = [NoJob EXCEPT !.pc = "window", !.req = Asked,
                                         !.before = new]]
       /\ seen' = [seen EXCEPT !.absorbed = @ \cup
             IF sc.cache = None
             THEN {[how |-> "first", change |-> [path |-> f, ver |-> disk[f]]]
                     : f \in Paths}
             ELSE Aside(sc.cache, new)]
    /\ UNCHANGED <<disk, state, orphan, marker, baseline, cl, ledger, crashes,
                   timeouts>>

(* endWindow: what was journalled since, once the watcher is quiet.        *)
End ==
    /\ sc.job.pc = "window"
    /\ LET new == Incremental(sc.cache) IN
       /\ sc' = [sc EXCEPT !.cache = new, !.journal = {}, !.restored = TRUE,
                   !.job.pc = "persist", !.job.capture = new]
    /\ UNCHANGED <<disk, state, orphan, marker, baseline, cl, ledger, crashes,
                   timeouts, seen>>

Prepared == [before |-> sc.job.before, capture |-> sc.job.capture]

(* The transaction is durable before it is answered.                       *)
Persist ==
    /\ sc.job.pc = "persist"
    /\ state' = [state EXCEPT !.pending[sc.job.req] = Prepared]
    /\ Reply(Head(sc.queue).who, sc.job.before, sc.job.capture)
    /\ sc' = [sc EXCEPT !.queue = Tail(@), !.job = NoJob]
    /\ seen' = IF seen.prepared[sc.job.req] # None THEN seen
               ELSE [seen EXCEPT !.prepared[sc.job.req] = Prepared]
    /\ UNCHANGED <<disk, orphan, marker, baseline, ledger, crashes, timeouts>>

(* writeState throws: the client is told, the session has moved on.        *)
PersistFails ==
    /\ sc.job.pc = "persist" /\ crashes < MaxCrashes
    /\ crashes' = crashes + 1
    /\ cl' = IF Is(Head(sc.queue).who, "wait")
             THEN [cl EXCEPT ![Head(sc.queue).who].pc = "capture"] ELSE cl
    /\ sc' = [sc EXCEPT !.queue = Tail(@), !.job = NoJob]
    /\ seen' = [seen EXCEPT !.absorbed = @ \cup
          {[how |-> "failed", change |-> c]
             : c \in Diff(sc.job.before, sc.job.capture)}]
    /\ UNCHANGED <<disk, state, orphan, marker, baseline, ledger, timeouts>>

(* Mutated form: where its window began.                                   *)
CommitsBefore(r) == IF IsPending(r) THEN state.pending[r].before ELSE state.latest
Commits(r) == IF IsPending(r) THEN state.pending[r].capture ELSE state.latest

Ack ==
    /\ Serving("ack")
    /\ state' = [latest |-> Commits(Asked),
                 pending |-> [state.pending EXCEPT ![Asked] = None],
                 committed |-> state.committed \cup {Asked}]
    /\ cl' = IF Is(Head(sc.queue).who, "acking")
             THEN [cl EXCEPT ![Head(sc.queue).who].pc = "clear",
                             ![Head(sc.queue).who].acked = TRUE]
             ELSE cl
    /\ sc' = [sc EXCEPT !.queue = Tail(@)]
    /\ UNCHANGED <<disk, orphan, marker, baseline, ledger, crashes, timeouts,
                   seen>>

(* scheduleFullReconciliation, between windows.                            *)
Reconcile ==
    /\ sc.up /\ sc.job.pc = "none" /\ sc.restored
    /\ sc.cache # disk
    /\ sc' = [sc EXCEPT !.cache = disk, !.journal = {}]
    /\ seen' = [seen EXCEPT !.absorbed = @ \cup Aside(sc.cache, disk)]
    /\ UNCHANGED <<disk, state, orphan, marker, baseline, cl, ledger, crashes,
                   timeouts>>

(* The sidecar dies.  A client that waits for it gets an error, or, when   *)
(* its socket is closed without one, no answer ever; its process then ends *)
(* for lack of anything to do.                                             *)
SidecarCrash ==
    /\ sc.up /\ crashes < MaxCrashes
    /\ crashes' = crashes + 1
    /\ orphan' = (sc.job.pc # "none")
    /\ \E errors \in SUBSET {p \in Procs : Is(p, "wait")} :
         cl' = [p \in Procs |->
                  IF p \in errors THEN [cl[p] EXCEPT !.pc = "capture"]
                  ELSE IF cl[p].pc \in {"wait", "acking"}
                  THEN Ended
                  ELSE cl[p]]
    /\ sc' = Down
    /\ UNCHANGED <<disk, state, marker, baseline, ledger, timeouts, seen>>

(* After STALE_LOCK_MS the lock is removed by the next process to try it.  *)
LockExpires ==
    /\ orphan
    /\ orphan' = FALSE
    /\ UNCHANGED <<disk, state, sc, marker, baseline, cl, ledger, crashes,
                   timeouts, seen>>

-----------------------------------------------------------------------------
(* recordTurnEffects.                                                      *)

Goto(p, pc) == cl' = [cl EXCEPT ![p].pc = pc]
Finish(p) == cl' = [cl EXCEPT ![p] = Ended]

(* markerExisted.                                                          *)
Look(p) ==
    /\ Is(p, "idle")
    /\ cl' = [cl EXCEPT ![p].pc = "mark", ![p].existed = (marker # None)]
    /\ UNCHANGED <<disk, state, orphan, sc, marker, baseline, ledger, crashes,
                   timeouts, seen>>

(* readOrCreateObservationRequest: created exclusively, so whoever comes   *)
(* second retries the request of the first.                                *)
(* Mutated form: every process writes its own.                             *)
ClaimedAnew(p) == p
Claimed(p) == IF marker = None THEN p ELSE marker

Mark(p) ==
    /\ Is(p, "mark")
    /\ marker' = Claimed(p)
    /\ cl' = [cl EXCEPT ![p].pc = "connect", ![p].req = marker']
    /\ UNCHANGED <<disk, state, orphan, sc, baseline, ledger, crashes,
                   timeouts, seen>>

Send(p, op) == [sc EXCEPT !.queue =
                  Append(@, [op |-> op, who |-> p, req |-> cl[p].req])]

Connect(p) ==
    /\ Is(p, "connect")
    /\ IF sc.up THEN sc' = Send(p, "drain") /\ Goto(p, "wait")
                ELSE Goto(p, "capture") /\ UNCHANGED sc
    /\ UNCHANGED <<disk, state, orphan, marker, baseline, ledger, crashes,
                   timeouts, seen>>

(* A drain that is given up may still be prepared: nothing is appended and *)
(* nothing acknowledged.  An acknowledgement that is given up throws.      *)
Timeout(p) ==
    /\ timeouts < MaxTimeouts
    /\ timeouts' = timeouts + 1
    /\ \/ Is(p, "wait") /\ Goto(p, "clear")
       \/ Is(p, "acking") /\ Finish(p)
    /\ UNCHANGED <<disk, state, orphan, sc, marker, baseline, ledger, crashes,
                   seen>>

(* Without a sidecar: captureAfter, readSnapshot, writeSnapshot.           *)
CaptureAfter(p) ==
    /\ Is(p, "capture")
    /\ cl' = [cl EXCEPT ![p].pc = "previous", ![p].after = disk]
    /\ UNCHANGED <<disk, state, orphan, sc, marker, baseline, ledger, crashes,
                   timeouts, seen>>

ReadSnapshot(p) ==
    /\ Is(p, "previous")
    /\ cl' = [cl EXCEPT ![p].pc = "swap", ![p].before = baseline]
    /\ UNCHANGED <<disk, state, orphan, sc, marker, baseline, ledger, crashes,
                   timeouts, seen>>

WriteSnapshot(p) ==
    /\ Is(p, "swap")
    /\ baseline' = cl[p].after
    /\ cl' = [cl EXCEPT ![p].pc = "append", ![p].via = "legacy",
                ![p].before = None, ![p].after = None,
                ![p].todo = IF cl[p].before = None THEN {}
                            ELSE Diff(cl[p].before, cl[p].after)]
    /\ UNCHANGED <<disk, state, orphan, sc, marker, ledger, crashes, timeouts,
                   seen>>

(* One append per change.  Fallback ids are fresh; a derived id already in *)
(* the ledger with other content throws, and so ends recordTurnEffects.    *)
EntryOf(p, c) == [via |-> cl[p].via,
                  req |-> IF cl[p].via = "sidecar" THEN cl[p].req ELSE p,
                  path |-> c.path, ver |-> c.ver, by |-> p]
SameId(e, f) == [e EXCEPT !.by = None] = [f EXCEPT !.by = None]
Conflicts(p, c) == \E e \in ledger : /\ SameId(e, EntryOf(p, c))
                                     /\ e # EntryOf(p, c)

AppendChange(p) ==
    /\ Is(p, "append")
    /\ \E c \in cl[p].todo :
         IF Conflicts(p, c)
         THEN Finish(p) /\ UNCHANGED ledger
         ELSE /\ ledger' = ledger \cup {EntryOf(p, c)}
              /\ cl' = [cl EXCEPT ![p].todo = @ \ {c}]
    /\ UNCHANGED <<disk, state, orphan, sc, marker, baseline, crashes,
                   timeouts, seen>>

(* The transaction is acknowledged once every change is in the ledger.     *)
(* Mutated form: before.                                                   *)
AppendedEarly(p) == TRUE
Appended(p) == cl[p].todo = {}

Acknowledge(p) ==
    /\ Is(p, "append") /\ Appended(p)
    /\ \/ /\ cl[p].via = "legacy"
          /\ Goto(p, "clear") /\ UNCHANGED sc
       \/ /\ cl[p].via = "sidecar"
          /\ IF sc.up THEN sc' = Send(p, "ack") /\ Goto(p, "acking")
                      ELSE Finish(p) /\ UNCHANGED sc
    /\ UNCHANGED <<disk, state, orphan, marker, baseline, ledger, crashes,
                   timeouts, seen>>

StateExists == state.committed # {} \/ \E r \in Procs : IsPending(r)

(* clearObservationRequest, under the condition of its caller.             *)
MayClear(p) == cl[p].acked \/ ~cl[p].existed \/ ~StateExists

Clear(p) ==
    /\ Is(p, "clear")
    /\ LET clears == MayClear(p) /\ marker = cl[p].req IN
       /\ marker' = IF clears THEN None ELSE marker
       /\ seen' = IF clears /\ ~cl[p].acked
                  THEN [seen EXCEPT !.dropped = @ \cup {cl[p].req}]
                  ELSE seen
    /\ Finish(p)
    /\ UNCHANGED <<disk, state, orphan, sc, baseline, ledger, crashes,
                   timeouts>>

Crash(p) ==
    /\ cl[p].pc \notin {"idle", "done"} /\ crashes < MaxCrashes
    /\ crashes' = crashes + 1
    /\ Finish(p)
    /\ UNCHANGED <<disk, state, orphan, sc, marker, baseline, ledger,
                   timeouts, seen>>

-----------------------------------------------------------------------------
Init ==
    /\ disk = [f \in Paths |-> 0]
    /\ state = [latest |-> None, pending |-> [r \in Procs |-> None],
                committed |-> {}]
    /\ orphan = FALSE
    /\ sc = Down
    /\ marker = None
    /\ baseline = None
    /\ cl = [p \in Procs |-> NotStarted]
    /\ ledger = {}
    /\ crashes = 0
    /\ timeouts = 0
    /\ seen = [prepared |-> [r \in Procs |-> None], absorbed |-> {},
               dropped |-> {}]

Sidecar ==
    \/ SessionStart \/ DrainPending \/ DrainCommitted \/ BeginRestored
    \/ Begin \/ End \/ Persist \/ PersistFails \/ Ack \/ Reconcile
    \/ SidecarCrash \/ LockExpires

Recorder(p) ==
    \/ Look(p) \/ Mark(p) \/ Connect(p) \/ Timeout(p) \/ CaptureAfter(p)
    \/ ReadSnapshot(p) \/ WriteSnapshot(p) \/ AppendChange(p)
    \/ Acknowledge(p) \/ Clear(p) \/ Crash(p)

Next ==
    \/ \E f \in Paths : Edit(f) \/ Notify(f)
    \/ Sidecar
    \/ \E p \in Procs : Recorder(p)

Spec == Init /\ [][Next]_vars

-----------------------------------------------------------------------------
(* Properties.                                                             *)

(* Every variable keeps its type.                                          *)
TypeOK ==
    /\ disk \in Snapshot
    /\ state \in State
    /\ orphan \in BOOLEAN
    /\ sc \in Session
    /\ marker \in Procs \cup {None}
    /\ baseline \in Snapshot \cup {None}
    /\ cl \in [Procs -> Client]
    /\ ledger \subseteq Entry
    /\ crashes \in 0 .. MaxCrashes
    /\ timeouts \in 0 .. MaxTimeouts
    /\ seen \in Seen

ChangesOf(r) == IF seen.prepared[r] = None THEN {}
                ELSE Diff(seen.prepared[r].before, seen.prepared[r].capture)
Recorded(c) == \E e \in ledger : e.path = c.path /\ e.ver = c.ver
RecordedFor(r, c) == \E e \in ledger : /\ e.via = "sidecar" /\ e.req = r
                                       /\ e.path = c.path /\ e.ver = c.ver

(* "ledger writes before acknowledgement": a committed transaction is in   *)
(* the ledger whole, whoever prepared, appended and acknowledged it, and   *)
(* whichever of them died.                                                 *)
CommittedRecorded ==
    \A r \in state.committed : \A c \in ChangesOf(r) : RecordedFor(r, c)

(* A request stands for one window: processes that retry it, before or     *)
(* after a restart of the sidecar, never record what it did not hold when  *)
(* it was first prepared.                                                  *)
OneWindow ==
    \A e \in ledger : e.via = "sidecar" =>
        [path |-> e.path, ver |-> e.ver] \in ChangesOf(e.req)

(* Whoever prepared, appended and acknowledged a window, and whichever of  *)
(* them died (ingest.ts, sidecar.ts): a committed window is in the ledger  *)
(* whole, and what is recorded for a request is what the window held when  *)
(* it was first prepared.                                                  *)
CommittedWhole == CommittedRecorded /\ OneWindow

(* What the sidecar has committed, it has recorded, but for what entered   *)
(* its snapshot outside of any window, for windows it failed to write and  *)
(* for those still pending.                                                *)
Accounted(c) ==
    \/ Recorded(c)
    \/ \E a \in seen.absorbed : a.change = c
    \/ \E r \in Procs : IsPending(r) /\ c \in ChangesOf(r)
AccountedIn(snapshot) ==
    snapshot # None =>
        \A f \in Paths : Accounted([path |-> f, ver |-> snapshot[f]])
CommittedAccounted == AccountedIn(state.latest)

(* The committed snapshot never goes back to an older one, as long as no   *)
(* request was dropped: processes that share a marker acknowledge their    *)
(* transactions in the order they were prepared.                           *)
NeverBack ==
    [][state.latest # None /\ seen.dropped = {} =>
         \A f \in Paths : state'.latest[f] >= state.latest[f]]_vars

(* No write is recorded by two transactions, as long as no request was     *)
(* dropped: neither a restart nor a retry reports a window again.          *)
RecordedOnce ==
    seen.dropped = {} =>
        \A e, f \in ledger :
            e.via = "sidecar" /\ f.via = "sidecar" /\ e.path = f.path
                /\ e.ver = f.ver => e.req = f.req

-----------------------------------------------------------------------------
(* Why they hold.  The sidecar works for the request at the head of its    *)
(* queue, which it has not prepared.                                       *)
JobInv ==
    /\ sc.job.pc # "none" =>
          /\ sc.queue # <<>> /\ Head(sc.queue).op = "drain"
          /\ sc.job.req = Asked /\ ~IsPending(Asked)
          /\ Asked \notin state.committed
          /\ sc.job.before # None /\ sc.cache # None
    /\ sc.job.pc = "persist" => sc.job.capture = sc.cache
    /\ sc.cache # None => sc.restored \/ sc.job.pc = "window"
    /\ sc.restored => sc.cache # None

(* A request is prepared once, and from then on pending until committed.   *)
TransactionInv ==
    /\ \A r \in Procs : IsPending(r) =>
          state.pending[r] = seen.prepared[r] /\ r \notin state.committed
    /\ \A r \in Procs : seen.prepared[r] # None =>
          IsPending(r) \/ r \in state.committed
    /\ \A r \in state.committed : seen.prepared[r] # None
    /\ state.committed # {} => state.latest # None

(* What a recorder process has still to append, and what it asks for.      *)
ClientOK(c) ==
    /\ c.pc \notin {"idle", "mark", "done"} => c.req # None
    /\ c.pc \in {"previous", "swap"} => c.after # None
    /\ c.pc = "append" => c.via # "none"
    /\ c.pc = "append" /\ c.via = "sidecar" =>
          /\ seen.prepared[c.req] # None
          /\ c.todo \subseteq ChangesOf(c.req)
          /\ \A ch \in ChangesOf(c.req) \ c.todo : RecordedFor(c.req, ch)
    /\ c.acked => c.pc = "clear" /\ c.req \in state.committed
ClientInv == \A p \in Procs : ClientOK(cl[p])

Messages == {sc.queue[i] : i \in DOMAIN sc.queue}
MessageOK(m) ==
    /\ cl[m.who].pc \notin {"idle", "mark", "connect"}
    /\ cl[m.who].pc # "done" => cl[m.who].req = m.req
    /\ m.op = "ack" => /\ seen.prepared[m.req] # None
                       /\ \A c \in ChangesOf(m.req) : RecordedFor(m.req, c)
QueueInv == \A m \in Messages : MessageOK(m)

WholeInv ==
    TypeOK /\ JobInv /\ TransactionInv /\ ClientInv /\ QueueInv /\ CommittedWhole

(* Every snapshot the sidecar may commit is accounted for, but for what is *)
(* in the window at work.                                                  *)
AccountInv ==
    /\ AccountedIn(state.latest)
    /\ \A r \in Procs : IsPending(r) => AccountedIn(state.pending[r].capture)
    /\ AccountedIn(IF sc.job.pc = "none" THEN sc.cache ELSE sc.job.before)

(* Snapshots grow older than the disk, never younger; as long as no        *)
(* request is dropped one request at a time is under way, the marked one,  *)
(* and each window begins where the committed snapshot is, or later.       *)
UpTo(old, new) ==
    old # None /\ new # None => \A f \in Paths : old[f] <= new[f]
DiskInv ==
    /\ UpTo(sc.cache, disk) /\ UpTo(state.latest, disk)
    /\ sc.job.pc # "none" => UpTo(sc.job.before, sc.cache)
    /\ \A r \in Procs : seen.prepared[r] # None =>
          /\ UpTo(seen.prepared[r].before, seen.prepared[r].capture)
          /\ UpTo(seen.prepared[r].capture, disk)
OneRequest ==
    \A r \in Procs :
        \/ seen.prepared[r] # None
        \/ \E p \in Procs : cl[p].req = r
        \/ \E m \in Messages : m.req = r
        => r \in state.committed \/ r = marker
InOrder ==
    /\ UpTo(state.latest, sc.cache)
    /\ sc.job.pc # "none" => UpTo(state.latest, sc.job.before)
    /\ \A r \in Procs : IsPending(r) =>
          /\ UpTo(state.latest, state.pending[r].before)
          /\ UpTo(state.pending[r].capture, sc.cache)
    /\ \A r \in state.committed : UpTo(seen.prepared[r].capture, state.latest)
    /\ \A r, q \in Procs : r # q => ChangesOf(r) \cap ChangesOf(q) = {}
OrderInv == DiskInv /\ (seen.dropped = {} => OneRequest /\ InOrder)
=============================================================================
