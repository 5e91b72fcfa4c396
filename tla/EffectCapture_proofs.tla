------------------------- MODULE EffectCapture_proofs -------------------------
(***************************************************************************)
(* Theorems of EffectCapture, for any recorder processes, files, writes,   *)
(* crashes and timeouts: a window committed is whole, and what the sidecar *)
(* commits is accounted for, in order and once.                            *)
(***************************************************************************)
EXTENDS EffectCapture, TLAPS

-----------------------------------------------------------------------------
(* The data.                                                               *)

LEMMA Constants ==
    /\ None \notin Procs
    /\ None \notin Snapshot /\ None \notin Result
    /\ MaxEdits \in Nat /\ MaxCrashes \in Nat /\ MaxTimeouts \in Nat
  BY ValueAssumption, NullAssumption DEF Snapshot, Version, Result

LEMMA DiffType ==
    ASSUME NEW b \in Snapshot, NEW a \in Snapshot
    PROVE  Diff(b, a) \subseteq Change
  BY DEF Diff, Change, Snapshot

LEMMA IncrementalType ==
    ASSUME TypeOK, NEW cache \in Snapshot
    PROVE  Incremental(cache) \in Snapshot
  BY DEF Incremental, TypeOK, Snapshot

(* The request at the head of the sidecar's queue.                         *)
LEMMA HeadType ==
    ASSUME TypeOK, sc.queue # <<>>
    PROVE  /\ Head(sc.queue) \in Message /\ Asked \in Procs
           /\ Head(sc.queue).who \in Procs
           /\ Tail(sc.queue) \in Seq(Message)
<1>1. sc.queue \in Seq(Message)
  BY DEF TypeOK, Session
<1> DEFINE S == Message
<1>2. Head(sc.queue) \in S /\ Tail(sc.queue) \in Seq(S)
  <2> HIDE DEF S
  <2>1. sc.queue \in Seq(S)
    BY <1>1 DEF S
  <2> QED
    BY <2>1
<1> QED
  BY <1>2 DEF Message, Asked

LEMMA SendType ==
    ASSUME TypeOK, NEW p \in Procs, NEW op \in {"drain", "ack"},
           cl[p].req # None
    PROVE  Send(p, op) \in Session
<1> DEFINE m == [op |-> op, who |-> p, req |-> cl[p].req]
<1>1. m \in Message
  BY DEF TypeOK, Client, Message
<1>2. Append(sc.queue, m) \in Seq(Message)
  <2> DEFINE S == Message
  <2>1. sc.queue \in Seq(S) /\ m \in S
    BY <1>1 DEF TypeOK, Session
  <2> HIDE DEF S, m
  <2>2. Append(sc.queue, m) \in Seq(S)
    BY <2>1
  <2> QED
    BY <2>2 DEF S
<1> HIDE DEF m
<1>3. sc \in Session
  BY DEF TypeOK
<1>4. Send(p, op) = [sc EXCEPT !.queue = Append(@, m)]
  BY DEF Send, m
<1> QED
  BY <1>2, <1>3, <1>4 DEF Session

(* What the queue holds after a request came or was served.                *)
LEMMA SendMessages ==
    ASSUME TypeOK, NEW p \in Procs, NEW op, sc' = Send(p, op)
    PROVE  Messages' = Messages \cup {[op |-> op, who |-> p, req |-> cl[p].req]}
<1> DEFINE m == [op |-> op, who |-> p, req |-> cl[p].req]
<1>1. sc.queue \in Seq(Message) /\ sc'.queue = Append(sc.queue, m)
  BY DEF Send, TypeOK, Session
<1> HIDE DEF m
<1>2. /\ Len(sc'.queue) = Len(sc.queue) + 1 /\ Len(sc.queue) \in Nat
      /\ \A i \in 1 .. Len(sc.queue) : sc'.queue[i] = sc.queue[i]
      /\ sc'.queue[Len(sc.queue) + 1] = m
      /\ DOMAIN sc.queue = 1 .. Len(sc.queue)
      /\ DOMAIN sc'.queue = 1 .. Len(sc.queue) + 1
  <2> DEFINE S == Message \cup {m}
  <2>1. sc.queue \in Seq(S) /\ m \in S
    BY <1>1
  <2> HIDE DEF S
  <2> QED
    BY <1>1, <2>1
<1>3. \A i : i \in 1 .. Len(sc.queue) + 1 <=>
                i \in 1 .. Len(sc.queue) \/ i = Len(sc.queue) + 1
  BY <1>2
<1>4. Messages' = Messages \cup {m}
  BY <1>2, <1>3 DEF Messages
<1> QED
  BY <1>4 DEF m

LEMMA TailMessages ==
    ASSUME TypeOK, sc.queue # <<>>, sc'.queue = Tail(sc.queue)
    PROVE  Messages' \subseteq Messages
<1>1. sc.queue \in Seq(Message)
  BY DEF TypeOK, Session
<1>2. /\ Len(sc.queue) \in Nat /\ DOMAIN sc.queue = 1 .. Len(sc.queue)
      /\ DOMAIN Tail(sc.queue) = 1 .. Len(sc.queue) - 1
      /\ \A i \in 1 .. Len(sc.queue) - 1 : Tail(sc.queue)[i] = sc.queue[i + 1]
  <2> DEFINE S == Message
  <2>1. sc.queue \in Seq(S)
    BY <1>1
  <2> HIDE DEF S
  <2> QED
    BY <2>1
<1>3. \A i \in 1 .. Len(sc.queue) - 1 : i + 1 \in 1 .. Len(sc.queue)
  BY <1>2
<1> QED
  BY <1>2, <1>3 DEF Messages

LEMMA HeadMessage ==
    ASSUME TypeOK, sc.queue # <<>>
    PROVE  Head(sc.queue) \in Messages
<1>1. sc.queue \in Seq(Message)
  BY DEF TypeOK, Session
<1>2. Head(sc.queue) = sc.queue[1] /\ 1 \in DOMAIN sc.queue
  <2> DEFINE S == Message
  <2>1. sc.queue \in Seq(S)
    BY <1>1
  <2> HIDE DEF S
  <2> QED
    BY <2>1
<1> QED
  BY <1>2 DEF Messages

(* The snapshots of a transaction.                                         *)
LEMMA ResultType ==
    ASSUME TypeOK, NEW r \in Procs
    PROVE  /\ IsPending(r) => /\ state.pending[r] \in Result
                              /\ state.pending[r].before \in Snapshot
                              /\ state.pending[r].capture \in Snapshot
           /\ seen.prepared[r] # None =>
                /\ seen.prepared[r] \in Result
                /\ seen.prepared[r].before \in Snapshot
                /\ seen.prepared[r].capture \in Snapshot
           /\ ChangesOf(r) \subseteq Change
<1>1. IsPending(r) => state.pending[r] \in Result
  BY DEF TypeOK, State, IsPending
<1>2. seen.prepared[r] # None => seen.prepared[r] \in Result
  BY DEF TypeOK, Seen
<1>3. \A x \in Result : x.before \in Snapshot /\ x.capture \in Snapshot
  BY DEF Result
<1> QED
  BY <1>1, <1>2, <1>3, DiffType DEF ChangesOf

(* Those of the sidecar and its job.                                       *)
LEMMA SessionType ==
    ASSUME TypeOK, JobInv
    PROVE  /\ sc.cache # None => sc.cache \in Snapshot
           /\ state.latest # None => state.latest \in Snapshot
           /\ sc.job.pc # "none" =>
                /\ sc.job.before \in Snapshot /\ sc.cache \in Snapshot
                /\ sc.job.req \in Procs /\ sc.job.req = Asked
           /\ sc.job.pc = "persist" => sc.job.capture \in Snapshot
           /\ sc.job \in Job
  BY HeadType DEF TypeOK, Session, Job, JobInv, State

-----------------------------------------------------------------------------
(* What steps do to the recorder processes.                                *)

(* A process that is answered goes on with the changes of its transaction. *)
Answered(c, todo) ==
    [c EXCEPT !.pc = "append", !.via = "sidecar", !.todo = todo]

LEMMA ReplyEffect ==
    ASSUME TypeOK, NEW who \in Procs, NEW b \in Snapshot, NEW a \in Snapshot,
           Reply(who, b, a)
    PROVE  /\ cl' \in [Procs -> Client]
           /\ \A p \in Procs :
                 \/ cl'[p] = cl[p]
                 \/ /\ p = who /\ Is(who, "wait")
                    /\ cl'[p] = Answered(cl[p], Diff(b, a))
<1>1. cl \in [Procs -> Client] /\ Diff(b, a) \subseteq Change
  BY DiffType DEF TypeOK
<1>2. CASE Is(who, "wait")
  <2> DEFINE New == Answered(cl[who], Diff(b, a))
  <2>1. New \in Client
    BY <1>1 DEF Client, Answered
  <2>2. cl' = [cl EXCEPT ![who] = New]
    BY <1>1, <1>2 DEF Reply, Client, Answered
  <2> HIDE DEF New
  <2>3. cl' \in [Procs -> Client]
    BY <1>1, <2>1, <2>2
  <2>4. \A p \in Procs : cl'[p] = cl[p] \/ (p = who /\ cl'[p] = New)
    BY <1>1, <2>2
  <2> QED
    BY <1>2, <2>3, <2>4 DEF New
<1>3. CASE ~Is(who, "wait")
  BY <1>1, <1>3 DEF Reply
<1> QED
  BY <1>2, <1>3

LEMMA EndedType == Ended \in Client /\ NotStarted \in Client /\ Ended.req = None
                   /\ Ended.pc = "done" /\ Ended.acked = FALSE
  BY DEF Ended, NotStarted, Client

LEMMA FinishEffect ==
    ASSUME TypeOK, NEW p \in Procs, Finish(p)
    PROVE  /\ cl' \in [Procs -> Client] /\ cl'[p] = Ended
           /\ \A q \in Procs : q # p => cl'[q] = cl[q]
  BY EndedType DEF TypeOK, Finish

Stages == {"idle", "mark", "connect", "wait", "capture", "previous", "swap",
           "append", "commit", "acking", "clear", "done"}
LEMMA GotoEffect ==
    ASSUME TypeOK, NEW p \in Procs, NEW pc \in Stages, Goto(p, pc)
    PROVE  /\ cl' \in [Procs -> Client]
           /\ cl'[p] = [cl[p] EXCEPT !.pc = pc]
           /\ \A q \in Procs : q # p => cl'[q] = cl[q]
<1>1. cl \in [Procs -> Client]
  BY DEF TypeOK
<1> DEFINE New == [cl[p] EXCEPT !.pc = pc]
<1>2. New \in Client
  BY <1>1 DEF Client, Stages
<1>3. cl' = [cl EXCEPT ![p] = New]
  BY <1>1 DEF Goto
<1> HIDE DEF New
<1>4. cl' \in [Procs -> Client] /\ cl'[p] = New /\ \A q \in Procs : q # p => cl'[q] = cl[q]
  BY <1>1, <1>2, <1>3
<1> QED
  BY <1>4 DEF New

-----------------------------------------------------------------------------
(* Type correctness, action by action.                                     *)

LEMMA DiskTypes ==
    ASSUME WholeInv, NEW f \in Paths, Edit(f) \/ Notify(f)
    PROVE  TypeOK'
<1>0. TypeOK /\ sc \in Session
  BY DEF WholeInv, TypeOK
<1>1. sc' \in Session
  <2>1. \A R, J \in SUBSET Paths : /\ [sc EXCEPT !.raised = R] \in Session
                                   /\ [sc EXCEPT !.raised = R, !.journal = J] \in Session
    BY <1>0 DEF Session
  <2> DEFINE R == sc.raised \cup {f}
             Q == sc.raised \ {f}
             J == sc.journal \cup {f}
  <2>2. R \in SUBSET Paths /\ Q \in SUBSET Paths /\ J \in SUBSET Paths
    BY <1>0 DEF Session
  <2>3. \/ sc' = sc
        \/ sc' = [sc EXCEPT !.raised = R]
        \/ sc' = [sc EXCEPT !.raised = Q, !.journal = J]
    BY <1>0 DEF Edit, Notify, Session
  <2> HIDE DEF R, Q, J
  <2> QED
    BY <1>0, <2>1, <2>2, <2>3
<1>2. disk' \in Snapshot
  BY <1>0, Constants DEF Edit, Notify, TypeOK, Snapshot, Version
<1> QED
  BY <1>0, <1>1, <1>2 DEF TypeOK, Edit, Notify

LEMMA ServeTypes ==
    ASSUME WholeInv, DrainPending \/ DrainCommitted \/ Ack
    PROVE  TypeOK'
<1>0. /\ TypeOK /\ sc \in Session /\ sc.queue # <<>> /\ cl \in [Procs -> Client]
      /\ state \in State
  BY DEF WholeInv, TypeOK, DrainPending, DrainCommitted, Ack, Serving
<1>1. /\ Tail(sc.queue) \in Seq(Message) /\ Asked \in Procs
      /\ Head(sc.queue).who \in Procs
  BY <1>0, HeadType
<1>2. sc' \in Session
  <2>1. sc' = [sc EXCEPT !.queue = Tail(sc.queue)]
    BY <1>0 DEF DrainPending, DrainCommitted, Ack, Session
  <2> QED
    BY <1>0, <1>1, <2>1 DEF Session
<1>3. CASE DrainPending
  <2>1. cl' \in [Procs -> Client]
    BY <1>0, <1>1, <1>3, ReplyEffect, ResultType DEF DrainPending
  <2> QED
    BY <1>0, <1>2, <1>3, <2>1 DEF DrainPending, TypeOK
<1>4. CASE DrainCommitted
  <2>1. state.latest \in Snapshot
    BY <1>0, <1>4 DEF DrainCommitted, IsCommitted, State
  <2>2. cl' \in [Procs -> Client]
    BY <1>0, <1>1, <1>4, <2>1, ReplyEffect DEF DrainCommitted
  <2> QED
    BY <1>0, <1>2, <1>4, <2>2 DEF DrainCommitted, TypeOK
<1>5. CASE Ack
  <2>1. Commits(Asked) \in Snapshot \cup {None}
    BY <1>0, <1>1, ResultType DEF Commits, State
  <2>2. [state.pending EXCEPT ![Asked] = None] \in [Procs -> Result \cup {None}]
    BY <1>0, <1>1 DEF State
  <2>3. state' \in State
    BY <1>0, <1>1, <1>5, <2>1, <2>2 DEF Ack, State
  <2>4. cl' \in [Procs -> Client]
    <3> DEFINE who == Head(sc.queue).who
               New == [cl[who] EXCEPT !.pc = "clear", !.acked = TRUE]
    <3>1. New \in Client
      <4>1. \A c \in Client : [c EXCEPT !.pc = "clear", !.acked = TRUE] \in Client
        BY DEF Client
      <4> QED
        BY <1>0, <1>1, <4>1
    <3>2. cl' = cl \/ cl' = [cl EXCEPT ![who] = New]
      BY <1>0, <1>1, <1>5 DEF Ack, Client
    <3> HIDE DEF New
    <3> QED
      BY <1>0, <1>1, <3>1, <3>2
  <2> QED
    BY <1>0, <1>2, <1>5, <2>3, <2>4 DEF Ack, TypeOK
<1> QED
  BY <1>3, <1>4, <1>5

LEMMA AbsorbType ==
    ASSUME TypeOK, NEW how \in {"first", "aside", "failed"}, NEW S,
           S \subseteq Change,
           \/ seen' = seen
           \/ seen' = [seen EXCEPT !.absorbed = @ \cup
                          {[how |-> how, change |-> c] : c \in S}]
    PROVE  seen' \in Seen
<1>1. {[how |-> how, change |-> c] : c \in S}
        \subseteq [how : {"first", "aside", "failed"}, change : Change]
  OBVIOUS
<1> DEFINE T == {[how |-> how, change |-> c] : c \in S}
<1>2. seen' = seen \/ seen' = [seen EXCEPT !.absorbed = @ \cup T]
  OBVIOUS
<1> HIDE DEF T
<1>3. T \subseteq [how : {"first", "aside", "failed"}, change : Change]
  BY <1>1 DEF T
<1> QED
  BY <1>2, <1>3 DEF TypeOK, Seen

(* The content of every file of a snapshot.                                *)
LEMMA ContentType ==
    ASSUME NEW s \in Snapshot
    PROVE  {[path |-> f, ver |-> s[f]] : f \in Paths} \subseteq Change
  BY DEF Snapshot, Change

LEMMA WindowTypes ==
    ASSUME WholeInv, BeginRestored \/ Begin \/ End
    PROVE  TypeOK'
<1>0. /\ TypeOK /\ JobInv /\ sc \in Session /\ sc.job \in Job /\ disk \in Snapshot
      /\ state \in State
  BY SessionType DEF WholeInv, TypeOK
<1>1. CASE BeginRestored
  <2>1. PICK written \in SUBSET Paths :
          sc' = [sc EXCEPT !.restored = TRUE, !.cache = Reconciled(written),
                   !.job = [NoJob EXCEPT !.pc = "window", !.req = Asked,
                                         !.before = RestoredBefore]]
    BY <1>1 DEF BeginRestored
  <2>2. state.latest \in Snapshot /\ Asked \in Procs
    BY <1>0, <1>1, HeadType DEF BeginRestored, Prepares, Serving, State
  <2>3. Reconciled(written) \in Snapshot
    BY <1>0, <2>2 DEF Reconciled, Snapshot
  <2> DEFINE J == [NoJob EXCEPT !.pc = "window", !.req = Asked,
                                !.before = RestoredBefore]
  <2>4. J \in Job
    BY <2>2 DEF NoJob, Job, RestoredBefore
  <2> HIDE DEF J
  <2>5. sc' = [sc EXCEPT !.restored = TRUE, !.cache = Reconciled(written), !.job = J]
    BY <2>1 DEF J
  <2>6. sc' \in Session
    BY <1>0, <2>3, <2>4, <2>5 DEF Session
  <2> QED
    BY <1>0, <1>1, <2>6 DEF BeginRestored, TypeOK
<1>2. CASE Begin
  <2> DEFINE new == IF sc.cache = None THEN disk ELSE Incremental(sc.cache)
             J == [NoJob EXCEPT !.pc = "window", !.req = Asked, !.before = new]
  <2>1. Asked \in Procs
    BY <1>0, <1>2, HeadType DEF Begin, Prepares, Serving
  <2>2. new \in Snapshot
    BY <1>0, SessionType, IncrementalType
  <2>3. sc' = [sc EXCEPT !.cache = new, !.journal = {}, !.job = J]
    BY <1>2 DEF Begin
  <2>4. J \in Job
    <3> HIDE DEF new
    <3> QED
      BY <2>1, <2>2 DEF NoJob, Job
  <2>5. sc' \in Session
    <3> HIDE DEF new, J
    <3> QED
      BY <1>0, <2>2, <2>3, <2>4 DEF Session
  <2>6. seen' \in Seen
    <3>1. CASE sc.cache = None
      <4> DEFINE S == {[path |-> f, ver |-> disk[f]] : f \in Paths}
      <4>1. S \subseteq Change
        BY <1>0, ContentType
      <4>2. {[how |-> "first", change |-> [path |-> f, ver |-> disk[f]]] : f \in Paths}
              = {[how |-> "first", change |-> c] : c \in S}
        OBVIOUS
      <4>3. seen' = [seen EXCEPT !.absorbed = @ \cup
                       {[how |-> "first", change |-> c] : c \in S}]
        BY <1>2, <3>1, <4>2 DEF Begin
      <4> HIDE DEF S
      <4> QED
        BY <1>0, <4>1, <4>3, AbsorbType
    <3>2. CASE sc.cache # None
      <4>1. sc.cache \in Snapshot
        BY <1>0, <3>2, SessionType
      <4>2. Diff(sc.cache, new) \subseteq Change
        BY <2>2, <4>1, DiffType
      <4>3. seen' = [seen EXCEPT !.absorbed = @ \cup
                       {[how |-> "aside", change |-> c] : c \in Diff(sc.cache, new)}]
        BY <1>2, <3>2 DEF Begin, Aside
      <4> HIDE DEF new
      <4> QED
        BY <1>0, <4>2, <4>3, AbsorbType
    <3> QED
      BY <3>1, <3>2
  <2> QED
    BY <1>0, <1>2, <2>5, <2>6 DEF Begin, TypeOK
<1>3. CASE End
  <2> DEFINE new == Incremental(sc.cache)
             J == [sc.job EXCEPT !.pc = "persist", !.capture = new]
  <2>1. new \in Snapshot
    BY <1>0, <1>3, SessionType, IncrementalType DEF End
  <2> HIDE DEF new
  <2>2. J \in Job
    BY <1>0, <2>1 DEF Job
  <2>3. sc' = [sc EXCEPT !.cache = new, !.journal = {}, !.restored = TRUE, !.job = J]
    BY <1>0, <1>3 DEF End, Session, Job, new
  <2> HIDE DEF J
  <2>4. sc' \in Session
    BY <1>0, <2>1, <2>2, <2>3 DEF Session
  <2> QED
    BY <1>0, <1>3, <2>4 DEF End, TypeOK
<1> QED
  BY <1>1, <1>2, <1>3

LEMMA PersistTypes ==
    ASSUME WholeInv, Persist \/ PersistFails
    PROVE  TypeOK'
<1>0. /\ TypeOK /\ JobInv /\ sc \in Session /\ state \in State
      /\ cl \in [Procs -> Client] /\ seen \in Seen /\ crashes \in 0 .. MaxCrashes
      /\ sc.job.pc = "persist"
  BY DEF WholeInv, TypeOK, Persist, PersistFails
<1>1. /\ sc.job.before \in Snapshot /\ sc.job.capture \in Snapshot
      /\ sc.job.req \in Procs /\ sc.queue # <<>>
  BY <1>0, SessionType DEF JobInv
<1>2. Tail(sc.queue) \in Seq(Message) /\ Head(sc.queue).who \in Procs
  BY <1>0, <1>1, HeadType
<1>3. sc' \in Session
  <2>1. NoJob \in Job
    BY DEF NoJob, Job
  <2>2. sc' = [sc EXCEPT !.queue = Tail(sc.queue), !.job = NoJob]
    BY <1>0 DEF Persist, PersistFails, Session
  <2> QED
    BY <1>0, <1>2, <2>1, <2>2 DEF Session
<1>4. CASE Persist
  <2>1. Prepared \in Result
    BY <1>1 DEF Prepared, Result
  <2>2. state' \in State
    <3> DEFINE P == [state.pending EXCEPT ![sc.job.req] = Prepared]
    <3>1. P \in [Procs -> Result \cup {None}]
      BY <1>0, <1>1, <2>1 DEF State
    <3>2. state' = [state EXCEPT !.pending = P]
      BY <1>0, <1>4 DEF Persist, State
    <3> HIDE DEF P
    <3> QED
      BY <1>0, <3>1, <3>2 DEF State
  <2>3. seen' \in Seen
    <3> DEFINE P == [seen.prepared EXCEPT ![sc.job.req] = Prepared]
    <3>1. P \in [Procs -> Result \cup {None}]
      BY <1>0, <1>1, <2>1 DEF Seen
    <3>2. seen' = seen \/ seen' = [seen EXCEPT !.prepared = P]
      BY <1>0, <1>4 DEF Persist, Seen
    <3> HIDE DEF P
    <3> QED
      BY <1>0, <3>1, <3>2 DEF Seen
  <2>4. cl' \in [Procs -> Client]
    BY <1>0, <1>1, <1>2, <1>4, ReplyEffect DEF Persist
  <2> QED
    BY <1>0, <1>3, <1>4, <2>2, <2>3, <2>4 DEF Persist, TypeOK
<1>5. CASE PersistFails
  <2>1. Diff(sc.job.before, sc.job.capture) \subseteq Change
    BY <1>1, DiffType
  <2>2. seen' \in Seen
    BY <1>0, <1>5, <2>1, AbsorbType DEF PersistFails
  <2>3. cl' \in [Procs -> Client]
    <3> DEFINE who == Head(sc.queue).who
    <3>1. Goto(who, "capture") \/ cl' = cl
      BY <1>5 DEF PersistFails, Goto
    <3> QED
      BY <1>0, <1>2, <3>1, GotoEffect DEF Stages
  <2>4. crashes' \in 0 .. MaxCrashes
    BY <1>0, <1>5, Constants DEF PersistFails
  <2> QED
    BY <1>0, <1>3, <1>5, <2>2, <2>3, <2>4 DEF PersistFails, TypeOK
<1> QED
  BY <1>4, <1>5

LEMMA SidecarTypes ==
    ASSUME WholeInv, SessionStart \/ Reconcile \/ SidecarCrash \/ LockExpires
    PROVE  TypeOK'
<1>0. /\ TypeOK /\ JobInv /\ sc \in Session /\ disk \in Snapshot
      /\ cl \in [Procs -> Client] /\ crashes \in 0 .. MaxCrashes
  BY DEF WholeInv, TypeOK
<1>1. Down \in Session /\ [Down EXCEPT !.up = TRUE] \in Session
  <2>1. NoJob \in Job
    BY DEF NoJob, Job
  <2>2. <<>> \in Seq(Message)
    OBVIOUS
  <2> QED
    BY <2>1, <2>2 DEF Down, Session
<1>2. CASE SessionStart
  BY <1>0, <1>1, <1>2 DEF SessionStart, TypeOK
<1>3. CASE Reconcile
  <2>1. sc.cache \in Snapshot
    BY <1>0, <1>3, SessionType DEF Reconcile, JobInv
  <2>2. Diff(sc.cache, disk) \subseteq Change
    BY <1>0, <2>1, DiffType
  <2>3. seen' \in Seen
    BY <1>0, <1>3, <2>2, AbsorbType DEF Reconcile, Aside
  <2>4. sc' \in Session
    BY <1>0, <1>3 DEF Reconcile, Session
  <2> QED
    BY <1>0, <1>3, <2>3, <2>4 DEF Reconcile, TypeOK
<1>4. CASE SidecarCrash
  <2>1. PICK errors \in SUBSET {p \in Procs : Is(p, "wait")} :
         cl' = [p \in Procs |->
                  IF p \in errors THEN [cl[p] EXCEPT !.pc = "capture"]
                  ELSE IF cl[p].pc \in {"wait", "acking"} THEN Ended ELSE cl[p]]
    BY <1>4 DEF SidecarCrash
  <2>2. \A c \in Client : [c EXCEPT !.pc = "capture"] \in Client
    BY DEF Client
  <2>3. cl' \in [Procs -> Client]
    BY <1>0, <2>1, <2>2, EndedType
  <2>4. crashes' \in 0 .. MaxCrashes /\ orphan' \in BOOLEAN
    BY <1>0, <1>4, Constants DEF SidecarCrash
  <2> QED
    BY <1>0, <1>1, <1>4, <2>3, <2>4 DEF SidecarCrash, TypeOK
<1>5. CASE LockExpires
  BY <1>0, <1>5 DEF LockExpires, TypeOK
<1> QED
  BY <1>2, <1>3, <1>4, <1>5

LEMMA ClientUpdates ==
    ASSUME NEW k \in Client
    PROVE  /\ \A b \in BOOLEAN : [k EXCEPT !.pc = "mark", !.existed = b] \in Client
           /\ \A q \in Procs : [k EXCEPT !.pc = "connect", !.req = q] \in Client
           /\ \A T \in SUBSET Change :
                [k EXCEPT !.pc = "append", !.via = "legacy", !.before = None,
                          !.after = None, !.todo = T] \in Client
<1>1. ASSUME NEW b \in BOOLEAN
      PROVE  [k EXCEPT !.pc = "mark", !.existed = b] \in Client
  BY <1>1 DEF Client
<1>2. ASSUME NEW q \in Procs
      PROVE  [k EXCEPT !.pc = "connect", !.req = q] \in Client
  BY <1>2 DEF Client
<1>3. ASSUME NEW T \in SUBSET Change
      PROVE  [k EXCEPT !.pc = "append", !.via = "legacy", !.before = None,
                       !.after = None, !.todo = T] \in Client
  BY <1>3 DEF Client
<1> QED
  BY <1>1, <1>2, <1>3

LEMMA MarkTypes ==
    ASSUME WholeInv, NEW p \in Procs, Look(p) \/ Mark(p) \/ Connect(p) \/ Timeout(p)
    PROVE  TypeOK'
<1>0. /\ TypeOK /\ sc \in Session /\ cl \in [Procs -> Client] /\ ClientOK(cl[p])
      /\ marker \in Procs \cup {None} /\ timeouts \in 0 .. MaxTimeouts
  BY DEF WholeInv, TypeOK, ClientInv
<1>1. CASE Look(p)
  <2> DEFINE New == [cl[p] EXCEPT !.pc = "mark", !.existed = (marker # None)]
  <2>1. New \in Client
    <3>1. (marker # None) \in BOOLEAN
      OBVIOUS
    <3> QED
      BY <1>0, <3>1, ClientUpdates
  <2>2. cl' = [cl EXCEPT ![p] = New]
    BY <1>0, <1>1 DEF Look, Client
  <2> HIDE DEF New
  <2>3. cl' \in [Procs -> Client]
    BY <1>0, <2>1, <2>2
  <2> QED
    BY <1>0, <1>1, <2>3 DEF Look, TypeOK
<1>2. CASE Mark(p)
  <2>1. marker' \in Procs
    BY <1>0, <1>2 DEF Mark, Claimed
  <2> DEFINE New == [cl[p] EXCEPT !.pc = "connect", !.req = marker']
  <2>2. New \in Client
    BY <1>0, <2>1, ClientUpdates
  <2>3. cl' = [cl EXCEPT ![p] = New]
    BY <1>0, <1>2 DEF Mark, Client
  <2> HIDE DEF New
  <2>4. cl' \in [Procs -> Client]
    BY <1>0, <2>2, <2>3
  <2> QED
    BY <1>0, <1>2, <2>1, <2>4 DEF Mark, TypeOK
<1>3. CASE Connect(p)
  <2>1. cl' \in [Procs -> Client]
    BY <1>0, <1>3, GotoEffect DEF Connect, Stages
  <2>2. sc' \in Session
    <3>1. cl[p].req # None
      BY <1>0, <1>3 DEF Connect, Is, ClientOK
    <3> QED
      BY <1>0, <1>3, <3>1, SendType DEF Connect
  <2> QED
    BY <1>0, <1>3, <2>1, <2>2 DEF Connect, TypeOK
<1>4. CASE Timeout(p)
  <2>1. cl' \in [Procs -> Client]
    BY <1>0, <1>4, GotoEffect, FinishEffect DEF Timeout, Stages
  <2>2. timeouts' \in 0 .. MaxTimeouts
    BY <1>0, <1>4, Constants DEF Timeout
  <2> QED
    BY <1>0, <1>4, <2>1, <2>2 DEF Timeout, TypeOK
<1> QED
  BY <1>1, <1>2, <1>3, <1>4

LEMMA CaptureTypes ==
    ASSUME WholeInv, NEW p \in Procs,
           CaptureAfter(p) \/ ReadSnapshot(p) \/ WriteSnapshot(p)
    PROVE  TypeOK'
<1>0. /\ TypeOK /\ cl \in [Procs -> Client] /\ ClientOK(cl[p])
      /\ disk \in Snapshot /\ baseline \in Snapshot \cup {None}
  BY DEF WholeInv, TypeOK, ClientInv
<1>1. CASE CaptureAfter(p)
  <2> DEFINE New == [cl[p] EXCEPT !.pc = "previous", !.after = disk]
  <2>1. New \in Client
    BY <1>0 DEF Client
  <2>2. cl' = [cl EXCEPT ![p] = New]
    BY <1>0, <1>1 DEF CaptureAfter, Client
  <2> HIDE DEF New
  <2>3. cl' \in [Procs -> Client]
    BY <1>0, <2>1, <2>2
  <2> QED
    BY <1>0, <1>1, <2>3 DEF CaptureAfter, TypeOK
<1>2. CASE ReadSnapshot(p)
  <2> DEFINE New == [cl[p] EXCEPT !.pc = "swap", !.before = baseline]
  <2>1. New \in Client
    BY <1>0 DEF Client
  <2>2. cl' = [cl EXCEPT ![p] = New]
    BY <1>0, <1>2 DEF ReadSnapshot, Client
  <2> HIDE DEF New
  <2>3. cl' \in [Procs -> Client]
    BY <1>0, <2>1, <2>2
  <2> QED
    BY <1>0, <1>2, <2>3 DEF ReadSnapshot, TypeOK
<1>3. CASE WriteSnapshot(p)
  <2> DEFINE T == IF cl[p].before = None THEN {}
                  ELSE Diff(cl[p].before, cl[p].after)
             New == [cl[p] EXCEPT !.pc = "append", !.via = "legacy",
                       !.before = None, !.after = None, !.todo = T]
  <2>1. /\ cl[p].before \in Snapshot \cup {None}
        /\ cl[p].after \in Snapshot
    BY <1>0, <1>3 DEF Client, WriteSnapshot, Is, ClientOK
  <2>2. T \subseteq Change
    BY <2>1, DiffType
  <2>3. cl' = [cl EXCEPT ![p] = New]
    BY <1>0, <1>3 DEF WriteSnapshot, Client
  <2> HIDE DEF T
  <2>4. New \in Client
    BY <1>0, <2>2, ClientUpdates
  <2> HIDE DEF New
  <2>5. cl' \in [Procs -> Client]
    BY <1>0, <2>3, <2>4
  <2>6. baseline' \in Snapshot
    BY <1>3, <2>1 DEF WriteSnapshot
  <2> QED
    BY <1>0, <1>3, <2>5, <2>6 DEF WriteSnapshot, TypeOK
<1> QED
  BY <1>1, <1>2, <1>3

(* The event a process appends for a change.                               *)
LEMMA EntryType ==
    ASSUME WholeInv, NEW p \in Procs, Is(p, "append"), NEW c \in cl[p].todo
    PROVE  /\ EntryOf(p, c) \in Entry
           /\ cl[p].via = "sidecar" => EntryOf(p, c).req = cl[p].req
           /\ EntryOf(p, c).via = cl[p].via
           /\ EntryOf(p, c).path = c.path /\ EntryOf(p, c).ver = c.ver
           /\ cl[p].req \in Procs /\ c \in Change
<1>1. /\ cl[p] \in Client /\ ClientOK(cl[p])
  BY DEF WholeInv, TypeOK, ClientInv
<1>2. /\ cl[p].req \in Procs /\ cl[p].via \in {"sidecar", "legacy"}
      /\ c \in Change
  BY <1>1 DEF Client, ClientOK, Is
<1>3. c.path \in Paths /\ c.ver \in Version
  BY <1>2 DEF Change
<1> QED
  BY <1>2, <1>3 DEF EntryOf, Entry

LEMMA RecordTypes ==
    ASSUME WholeInv, NEW p \in Procs,
           AppendChange(p) \/ Acknowledge(p) \/ Clear(p) \/ Crash(p)
    PROVE  TypeOK'
<1>0. /\ TypeOK /\ sc \in Session /\ cl \in [Procs -> Client] /\ ClientOK(cl[p])
      /\ ledger \subseteq Entry /\ crashes \in 0 .. MaxCrashes /\ seen \in Seen
  BY DEF WholeInv, TypeOK, ClientInv
<1>1. CASE AppendChange(p)
  <2>1. PICK c \in cl[p].todo :
          IF Conflicts(p, c)
          THEN Finish(p) /\ UNCHANGED ledger
          ELSE /\ ledger' = ledger \cup {EntryOf(p, c)}
               /\ cl' = [cl EXCEPT ![p].todo = @ \ {c}]
    BY <1>1 DEF AppendChange
  <2>2. ledger' \subseteq Entry
    BY <1>0, <1>1, <2>1, EntryType DEF AppendChange
  <2>3. cl' \in [Procs -> Client]
    <3> DEFINE New == [cl[p] EXCEPT !.todo = @ \ {c}]
    <3>1. New \in Client
      BY <1>0 DEF Client
    <3>2. Finish(p) \/ cl' = [cl EXCEPT ![p] = New]
      BY <1>0, <2>1 DEF Client
    <3> HIDE DEF New
    <3> QED
      BY <1>0, <3>1, <3>2, FinishEffect
  <2> QED
    BY <1>0, <1>1, <2>2, <2>3 DEF AppendChange, TypeOK
<1>2. CASE Acknowledge(p)
  <2>1. cl' \in [Procs -> Client]
    BY <1>0, <1>2, GotoEffect, FinishEffect DEF Acknowledge, Stages
  <2>2. sc' \in Session
    <3>1. cl[p].req # None
      BY <1>0, <1>2 DEF Acknowledge, Is, ClientOK
    <3> QED
      BY <1>0, <1>2, <3>1, SendType DEF Acknowledge
  <2> QED
    BY <1>0, <1>2, <2>1, <2>2 DEF Acknowledge, TypeOK
<1>3. CASE Clear(p)
  <2>1. cl[p].req \in Procs
    BY <1>0, <1>3 DEF Clear, Is, ClientOK, Client
  <2>2. seen' \in Seen
    <3>1. \/ seen' = seen
          \/ seen' = [seen EXCEPT !.dropped = @ \cup {cl[p].req}]
      BY <1>3 DEF Clear
    <3> QED
      BY <1>0, <2>1, <3>1 DEF Seen
  <2>3. marker' \in Procs \cup {None}
    BY <1>0, <1>3 DEF Clear, TypeOK
  <2>4. cl' \in [Procs -> Client]
    BY <1>0, <1>3, FinishEffect DEF Clear
  <2> QED
    BY <1>0, <1>3, <2>2, <2>3, <2>4 DEF Clear, TypeOK
<1>4. CASE Crash(p)
  <2>1. cl' \in [Procs -> Client]
    BY <1>0, <1>4, FinishEffect DEF Crash
  <2>2. crashes' \in 0 .. MaxCrashes
    BY <1>0, <1>4, Constants DEF Crash
  <2> QED
    BY <1>0, <1>4, <2>1, <2>2 DEF Crash, TypeOK
<1> QED
  BY <1>1, <1>2, <1>3, <1>4

LEMMA NextTypes == WholeInv /\ [Next]_vars => TypeOK'
<1> SUFFICES ASSUME WholeInv, [Next]_vars
             PROVE  TypeOK'
  OBVIOUS
<1>1. ASSUME NEW f \in Paths, Edit(f) \/ Notify(f) PROVE TypeOK'
  BY <1>1, DiskTypes
<1>2. CASE Sidecar
  BY <1>2, ServeTypes, WindowTypes, PersistTypes, SidecarTypes DEF Sidecar
<1>3. ASSUME NEW p \in Procs, Recorder(p) PROVE TypeOK'
  BY <1>3, MarkTypes, CaptureTypes, RecordTypes DEF Recorder
<1>4. CASE UNCHANGED vars
  BY <1>4 DEF vars, WholeInv, TypeOK
<1> QED
  BY <1>1, <1>2, <1>3, <1>4 DEF Next

-----------------------------------------------------------------------------
(* What every step does: the ledger, the committed requests and the        *)
(* history grow, and what a request was when first prepared stays.         *)
Grows ==
    /\ ledger \subseteq ledger' /\ state.committed \subseteq state'.committed
    /\ \A r \in Procs : seen.prepared[r] # None =>
          seen'.prepared[r] = seen.prepared[r]
    /\ seen.absorbed \subseteq seen'.absorbed /\ seen.dropped \subseteq seen'.dropped

LEMMA GrowsFacts ==
    ASSUME Grows
    PROVE  /\ \A r \in Procs : seen.prepared[r] # None =>
                 ChangesOf(r)' = ChangesOf(r) /\ seen'.prepared[r] # None
           /\ \A r, c : RecordedFor(r, c) => RecordedFor(r, c)'
           /\ \A c : Recorded(c) => Recorded(c)'
  BY DEF Grows, ChangesOf, RecordedFor, Recorded

(* The steps that change transactions: a window is written, or one is      *)
(* acknowledged.                                                           *)
LEMMA StateSteps ==
    ASSUME WholeInv, [Next]_vars
    PROVE  \/ state' = state /\ seen'.prepared = seen.prepared
           \/ Persist
           \/ Ack
<1>1. seen \in Seen
  BY DEF WholeInv, TypeOK
<1>2. ASSUME NEW f \in Paths, Edit(f) \/ Notify(f)
      PROVE  state' = state /\ seen' = seen
  BY <1>2 DEF Edit, Notify
<1>3. ASSUME Sidecar, ~Persist, ~Ack
      PROVE  state' = state /\ seen'.prepared = seen.prepared
  BY <1>1, <1>3 DEF Sidecar, SessionStart, DrainPending, DrainCommitted,
     BeginRestored, Begin, End, PersistFails, Reconcile, SidecarCrash,
     LockExpires, Seen
<1>4. ASSUME NEW p \in Procs, Recorder(p)
      PROVE  state' = state /\ seen'.prepared = seen.prepared
  BY <1>1, <1>4 DEF Recorder, Look, Mark, Connect, Timeout, CaptureAfter,
     ReadSnapshot, WriteSnapshot, AppendChange, Acknowledge, Clear, Crash, Seen
<1>5. CASE UNCHANGED vars
  BY <1>5 DEF vars
<1> QED
  BY <1>2, <1>3, <1>4, <1>5 DEF Next

(* A request that is prepared was not before.                              *)
LEMMA PersistEffect ==
    ASSUME WholeInv, Persist
    PROVE  /\ sc.job.req \in Procs /\ sc.job.req = Asked
           /\ ~IsPending(sc.job.req) /\ sc.job.req \notin state.committed
           /\ seen.prepared[sc.job.req] = None
           /\ Prepared \in Result /\ Prepared # None
           /\ state'.pending = [state.pending EXCEPT ![sc.job.req] = Prepared]
           /\ seen'.prepared = [seen.prepared EXCEPT ![sc.job.req] = Prepared]
           /\ seen'.absorbed = seen.absorbed /\ seen'.dropped = seen.dropped
           /\ state'.latest = state.latest /\ state'.committed = state.committed
<1>1. /\ sc.job.req \in Procs /\ sc.job.req = Asked
      /\ ~IsPending(Asked) /\ Asked \notin state.committed
      /\ sc.job.before \in Snapshot /\ sc.job.capture \in Snapshot
  BY SessionType DEF WholeInv, JobInv, Persist
<1>2. seen.prepared[Asked] = None
  BY <1>1 DEF WholeInv, TransactionInv
<1>3. Prepared \in Result /\ Prepared # None
  <2>1. Prepared \in Result
    BY <1>1 DEF Prepared, Result
  <2> QED
    BY <2>1, Constants
<1>4. /\ state'.pending = [state.pending EXCEPT ![sc.job.req] = Prepared]
      /\ state'.latest = state.latest /\ state'.committed = state.committed
  BY DEF Persist, WholeInv, TypeOK, State
<1>5. seen' = [seen EXCEPT !.prepared[sc.job.req] = Prepared]
  BY <1>1, <1>2 DEF Persist
<1>6. /\ seen'.prepared = [seen.prepared EXCEPT ![sc.job.req] = Prepared]
      /\ seen'.absorbed = seen.absorbed /\ seen'.dropped = seen.dropped
  BY <1>5 DEF WholeInv, TypeOK, Seen
<1> QED
  BY <1>1, <1>2, <1>3, <1>4, <1>6

(* A request that is acknowledged is in the ledger whole.                  *)
LEMMA AckEffect ==
    ASSUME WholeInv, Ack
    PROVE  /\ Asked \in Procs /\ seen.prepared[Asked] # None
           /\ \A c \in ChangesOf(Asked) : RecordedFor(Asked, c)
           /\ state'.latest = Commits(Asked) /\ state'.latest # None
           /\ state'.pending = [state.pending EXCEPT ![Asked] = None]
           /\ state'.committed = state.committed \cup {Asked}
           /\ ~IsPending(Asked) => Asked \in state.committed
           /\ sc.job.pc = "none" /\ seen' = seen
<1>1. Asked \in Procs /\ Head(sc.queue) \in Messages /\ Head(sc.queue).op = "ack"
  BY HeadType, HeadMessage DEF Ack, Serving, WholeInv
<1>2. /\ seen.prepared[Asked] # None
      /\ \A c \in ChangesOf(Asked) : RecordedFor(Asked, c)
  BY <1>1 DEF WholeInv, QueueInv, MessageOK, Asked
<1>3. ~IsPending(Asked) => Asked \in state.committed
  BY <1>1, <1>2 DEF WholeInv, TransactionInv
<1>4. Commits(Asked) # None
  <2>1. CASE IsPending(Asked)
    BY <1>1, <2>1, ResultType, Constants DEF Commits, WholeInv
  <2>2. CASE ~IsPending(Asked)
    BY <1>3, <2>2 DEF Commits, WholeInv, TransactionInv
  <2> QED
    BY <2>1, <2>2
<1>5. /\ state'.latest = Commits(Asked)
      /\ state'.pending = [state.pending EXCEPT ![Asked] = None]
      /\ state'.committed = state.committed \cup {Asked}
  BY DEF Ack
<1> QED
  BY <1>1, <1>2, <1>3, <1>4, <1>5 DEF Ack, Serving

LEMMA AllGrow == WholeInv /\ [Next]_vars => Grows
<1> SUFFICES ASSUME WholeInv, [Next]_vars
             PROVE  Grows
  OBVIOUS
<1>1. seen \in Seen /\ sc.job.pc \in {"none", "window", "persist"}
  BY SessionType DEF WholeInv, TypeOK, Job
<1>2. \A r \in Procs : seen.prepared[r] # None =>
         seen'.prepared[r] = seen.prepared[r]
  <2>1. seen.prepared \in [Procs -> Result \cup {None}]
    BY <1>1 DEF Seen
  <2> QED
    BY <2>1, StateSteps, PersistEffect, AckEffect
<1>3. state.committed \subseteq state'.committed
  BY StateSteps, PersistEffect, AckEffect
<1>4. ledger \subseteq ledger' /\ seen.absorbed \subseteq seen'.absorbed
      /\ seen.dropped \subseteq seen'.dropped
  <2>1. ASSUME NEW f \in Paths, Edit(f) \/ Notify(f)
        PROVE  ledger' = ledger /\ seen' = seen
    BY <2>1 DEF Edit, Notify
  <2>2. ASSUME SessionStart \/ DrainPending \/ DrainCommitted \/ BeginRestored
               \/ End \/ Ack \/ SidecarCrash \/ LockExpires
        PROVE  ledger' = ledger /\ seen' = seen
    BY <2>2 DEF SessionStart, DrainPending, DrainCommitted, BeginRestored, End,
       Ack, SidecarCrash, LockExpires
  <2>3. ASSUME Begin \/ PersistFails \/ Reconcile
        PROVE  /\ ledger' = ledger /\ seen.absorbed \subseteq seen'.absorbed
               /\ seen'.dropped = seen.dropped
    <3>1. PICK S : seen' = [seen EXCEPT !.absorbed = @ \cup S]
      BY <2>3 DEF Begin, PersistFails, Reconcile
    <3> QED
      BY <1>1, <2>3, <3>1 DEF Begin, PersistFails, Reconcile, Seen
  <2>4. ASSUME Persist
        PROVE  /\ ledger' = ledger /\ seen'.absorbed = seen.absorbed
               /\ seen'.dropped = seen.dropped
    BY <2>4, PersistEffect DEF Persist
  <2>5. ASSUME NEW p \in Procs, Recorder(p)
        PROVE  /\ ledger \subseteq ledger' /\ seen'.absorbed = seen.absorbed
               /\ seen.dropped \subseteq seen'.dropped
    BY <1>1, <2>5 DEF Recorder, Look, Mark, Connect, Timeout, CaptureAfter,
       ReadSnapshot, WriteSnapshot, AppendChange, Acknowledge, Clear, Crash, Seen
  <2>6. CASE UNCHANGED vars
    BY <2>6 DEF vars
  <2> QED
    BY <2>1, <2>2, <2>3, <2>4, <2>5, <2>6 DEF Next, Sidecar
<1> QED
  BY <1>2, <1>3, <1>4 DEF Grows

LEMMA TransactionsKept == WholeInv /\ [Next]_vars => TransactionInv'
<1> SUFFICES ASSUME WholeInv, [Next]_vars
             PROVE  TransactionInv'
  OBVIOUS
<1>0. /\ seen.prepared \in [Procs -> Result \cup {None}]
      /\ state.pending \in [Procs -> Result \cup {None}]
      /\ TransactionInv
  BY DEF WholeInv, TypeOK, Seen, State
<1>1. CASE state' = state /\ seen'.prepared = seen.prepared
  BY <1>0, <1>1 DEF TransactionInv, IsPending
<1>2. CASE Persist
  <2> DEFINE q == sc.job.req
             T == Prepared
  <2>1. /\ q \in Procs /\ q \notin state.committed /\ T # None
        /\ state'.pending = [state.pending EXCEPT ![q] = T]
        /\ seen'.prepared = [seen.prepared EXCEPT ![q] = T]
        /\ state'.committed = state.committed /\ state'.latest = state.latest
    BY <1>2, PersistEffect
  <2> HIDE DEF q, T
  <2>2. /\ \A r \in Procs : state'.pending[r] = IF r = q THEN T ELSE state.pending[r]
        /\ \A r \in Procs : seen'.prepared[r] = IF r = q THEN T ELSE seen.prepared[r]
    BY <1>0, <2>1
  <2>3. state.committed \subseteq Procs
    BY DEF WholeInv, TypeOK, State
  <2> QED
    BY <1>0, <2>1, <2>2, <2>3 DEF TransactionInv, IsPending
<1>3. CASE Ack
  <2> DEFINE a == Asked
  <2>1. /\ a \in Procs /\ seen.prepared[a] # None /\ state'.latest # None
        /\ state'.pending = [state.pending EXCEPT ![a] = None]
        /\ state'.committed = state.committed \cup {a}
        /\ seen'.prepared = seen.prepared
    BY <1>3, AckEffect
  <2> HIDE DEF a
  <2> QED
    BY <1>0, <2>1 DEF TransactionInv, IsPending
<1> QED
  BY <1>1, <1>2, <1>3, StateSteps

-----------------------------------------------------------------------------
(* The sidecar's job.                                                      *)

(* Sending leaves the request at the head of the queue where it is.        *)
LEMMA SendHead ==
    ASSUME TypeOK, NEW p \in Procs, NEW op \in {"drain", "ack"},
           cl[p].req # None, sc' = Send(p, op), sc.queue # <<>>
    PROVE  sc'.queue # <<>> /\ Head(sc'.queue) = Head(sc.queue)
<1> DEFINE m == [op |-> op, who |-> p, req |-> cl[p].req]
           S == Message
<1>1. m \in S /\ sc.queue \in Seq(S) /\ sc'.queue = Append(sc.queue, m)
  BY DEF TypeOK, Client, Message, Session, Send
<1> HIDE DEF m, S
<1> QED
  BY <1>1

(* What a step leaves of the session that JobInv is about.                 *)
SameJob ==
    /\ sc'.job = sc.job /\ sc'.cache = sc.cache /\ sc'.restored = sc.restored
    /\ state' = state
    /\ sc.queue # <<>> => sc'.queue # <<>> /\ Head(sc'.queue) = Head(sc.queue)

LEMMA RecorderJob ==
    ASSUME WholeInv,
           \/ \E f \in Paths : Edit(f) \/ Notify(f)
           \/ \E p \in Procs : Recorder(p)
           \/ LockExpires \/ UNCHANGED vars
    PROVE  SameJob
<1>0. sc \in Session
  BY DEF WholeInv, TypeOK
<1>1. ASSUME NEW f \in Paths, Edit(f) \/ Notify(f)
      PROVE  SameJob
  BY <1>0, <1>1 DEF Edit, Notify, Session, SameJob
<1>2. ASSUME NEW p \in Procs, Connect(p) \/ Acknowledge(p)
      PROVE  SameJob
  <2>1. cl[p].req # None
    BY <1>2 DEF Connect, Acknowledge, Is, WholeInv, ClientInv, ClientOK
  <2>2. sc' = sc \/ \E op \in {"drain", "ack"} : sc' = Send(p, op)
    BY <1>2 DEF Connect, Acknowledge
  <2>3. state' = state
    BY <1>2 DEF Connect, Acknowledge
  <2>4. ASSUME NEW op \in {"drain", "ack"}, sc' = Send(p, op)
        PROVE  SameJob
    <3>1. sc'.job = sc.job /\ sc'.cache = sc.cache /\ sc'.restored = sc.restored
      BY <1>0, <2>4 DEF Send, Session
    <3> QED
      BY <2>1, <2>3, <2>4, <3>1, SendHead DEF SameJob, WholeInv
  <2> QED
    BY <2>2, <2>3, <2>4 DEF SameJob
<1>3. ASSUME NEW p \in Procs, Recorder(p), ~Connect(p), ~Acknowledge(p)
      PROVE  SameJob
  BY <1>3 DEF Recorder, Look, Mark, Timeout, CaptureAfter, ReadSnapshot,
     WriteSnapshot, AppendChange, Clear, Crash, SameJob
<1> QED
  BY <1>1, <1>2, <1>3 DEF LockExpires, vars, SameJob

LEMMA JobKept == WholeInv /\ [Next]_vars => JobInv'
<1> SUFFICES ASSUME WholeInv, [Next]_vars
             PROVE  JobInv'
  OBVIOUS
<1>0. /\ sc \in Session /\ sc.job \in Job /\ JobInv /\ TransactionInv /\ TypeOK
      /\ disk \in Snapshot /\ disk # None
  BY SessionType, Constants DEF WholeInv, TypeOK
<1>1. CASE SameJob
  BY <1>0, <1>1 DEF SameJob, JobInv, IsPending, Asked
<1>2. ASSUME sc.job.pc = "none", sc'.job.pc = "none", sc'.cache = sc.cache,
             sc'.restored = sc.restored
      PROVE  JobInv'
  BY <1>0, <1>2 DEF JobInv
<1>3. CASE DrainPending \/ DrainCommitted \/ Ack
  BY <1>0, <1>2, <1>3 DEF DrainPending, DrainCommitted, Ack, Serving, Session
<1>4. ASSUME Prepares
      PROVE  /\ sc.queue # <<>> /\ Head(sc.queue).op = "drain"
             /\ ~IsPending(Asked) /\ Asked \notin state.committed
  BY <1>0, <1>4 DEF Prepares, Serving, IsCommitted, TransactionInv
<1>5. CASE BeginRestored \/ Begin
  <2> DEFINE J(before) == [NoJob EXCEPT !.pc = "window", !.req = Asked,
                                        !.before = before]
  <2>1. \A b : J(b).pc = "window" /\ J(b).req = Asked /\ J(b).before = b
    BY DEF NoJob
  <2>2. PICK c \in Snapshot, b \in Snapshot :
          sc'.cache = c /\ sc'.job = J(b) /\ sc'.queue = sc.queue
    <3>1. CASE BeginRestored
      <4>1. PICK written \in SUBSET Paths :
              sc' = [sc EXCEPT !.restored = TRUE, !.cache = Reconciled(written),
                       !.job = J(RestoredBefore)]
        BY <3>1 DEF BeginRestored
      <4>2. state.latest \in Snapshot
        BY <1>0, <3>1 DEF BeginRestored, TypeOK, State
      <4>3. Reconciled(written) \in Snapshot /\ RestoredBefore \in Snapshot
        BY <1>0, <4>2 DEF Reconciled, Snapshot, RestoredBefore
      <4> HIDE DEF J
      <4> QED
        BY <1>0, <4>1, <4>3 DEF Session
    <3>2. CASE Begin
      <4> DEFINE new == IF sc.cache = None THEN disk ELSE Incremental(sc.cache)
      <4>1. new \in Snapshot
        BY <1>0, SessionType, IncrementalType
      <4>2. sc' = [sc EXCEPT !.cache = new, !.journal = {}, !.job = J(new)]
        BY <3>2 DEF Begin
      <4> HIDE DEF new, J
      <4> QED
        BY <1>0, <4>1, <4>2 DEF Session
    <3> QED
      BY <1>5, <3>1, <3>2
  <2>3. /\ sc'.queue = sc.queue /\ state' = state /\ Prepares
        /\ sc'.job.pc = "window" /\ sc'.job.req = Asked /\ sc'.job.before # None
        /\ sc'.cache # None
    <3>1. state' = state /\ Prepares
      BY <1>5 DEF BeginRestored, Begin
    <3> HIDE DEF J
    <3> QED
      BY <2>1, <2>2, <3>1, Constants
  <2> QED
    BY <1>4, <2>3 DEF JobInv, IsPending, Asked
<1>6. CASE End
  <2>1. sc.cache \in Snapshot /\ sc.job.pc = "window"
    BY <1>0, <1>6, SessionType DEF End
  <2> DEFINE new == Incremental(sc.cache)
             J == [sc.job EXCEPT !.pc = "persist", !.capture = new]
  <2>2. new # None
    BY <1>0, <2>1, IncrementalType, Constants
  <2> HIDE DEF new
  <2>3. sc' = [sc EXCEPT !.cache = new, !.journal = {}, !.restored = TRUE, !.job = J]
    BY <1>0, <1>6 DEF End, Session, Job, new
  <2>4. /\ J.pc = "persist" /\ J.capture = new /\ J.before = sc.job.before
        /\ J.req = sc.job.req
    BY <1>0 DEF Job
  <2> HIDE DEF J
  <2>5. /\ sc'.cache = new /\ sc'.restored = TRUE /\ sc'.job = J
        /\ sc'.queue = sc.queue /\ state' = state
    BY <1>0, <1>6, <2>3 DEF Session, End
  <2> QED
    BY <1>0, <2>1, <2>2, <2>4, <2>5 DEF JobInv, IsPending, Asked
<1>7. CASE Persist \/ PersistFails
  <2>1. /\ sc'.job = NoJob /\ sc'.cache = sc.cache /\ sc'.restored = sc.restored
        /\ sc.job.pc = "persist"
    BY <1>0, <1>7 DEF Persist, PersistFails, Session
  <2>2. NoJob.pc = "none"
    BY DEF NoJob
  <2> QED
    BY <1>0, <2>1, <2>2 DEF JobInv
<1>8. CASE SessionStart \/ SidecarCrash
  <2>1. sc' = Down \/ sc' = [Down EXCEPT !.up = TRUE]
    BY <1>8 DEF SessionStart, SidecarCrash
  <2> QED
    BY <2>1 DEF Down, NoJob, JobInv
<1>9. CASE Reconcile
  BY <1>0, <1>9 DEF Reconcile, JobInv, Session
<1> QED
  BY <1>1, <1>3, <1>5, <1>6, <1>7, <1>8, <1>9, RecorderJob DEF Next, Sidecar

-----------------------------------------------------------------------------
(* The recorder processes.                                                 *)

Early == {"idle", "mark", "connect"}

(* A process that is good stays so where nothing of it changes, and where  *)
(* it moves to a stage that has nothing to append.                         *)
LEMMA ClientKept ==
    ASSUME WholeInv, Grows, NEW c \in Client, ClientOK(c)
    PROVE  ClientOK(c)'
<1>1. c.pc = "append" => c.req \in Procs
  BY DEF Client, ClientOK
<1>2. c.req \in state.committed => c.req \in state'.committed
  BY DEF Grows
<1>3. c.pc = "append" /\ c.via = "sidecar" =>
         /\ seen'.prepared[c.req] # None
         /\ c.todo \subseteq ChangesOf(c.req)'
         /\ \A ch \in ChangesOf(c.req)' \ c.todo : RecordedFor(c.req, ch)'
  BY <1>1, GrowsFacts DEF ClientOK
<1> QED
  BY <1>2, <1>3 DEF ClientOK

LEMMA ClientMoves ==
    ASSUME WholeInv, Grows, NEW d \in Client, ClientOK(d), d.pc # "clear",
           NEW c \in Client, c.req = d.req, c.acked = d.acked,
           c.pc \in {"mark", "capture", "wait", "acking", "clear"},
           d.pc \in {"idle", "mark", "done"} => c.pc = "mark"
    PROVE  ClientOK(c)'
  BY DEF ClientOK

LEMMA EndedOK == ClientOK(Ended)'
  BY EndedType DEF ClientOK

(* What a step may do to a process.                                        *)
Steps(c, d) == d = c \/ d = Ended \/ (d \in Client /\ \A x : x = d => ClientOK(x)')
Moves(c, d) == d = c \/ d = Ended
               \/ (c.pc \in Early /\ d.req \in {c.req, marker'})
               \/ (c.pc # "done" /\ d.req = c.req /\ d.pc \notin Early)
ClientStep == \A p \in Procs : Steps(cl[p], cl'[p]) /\ Moves(cl[p], cl'[p])

(* The request a message asks for is that of the process that waits.       *)
LEMMA HeadAsks ==
    ASSUME WholeInv, sc.queue # <<>>, NEW who, who = Head(sc.queue).who,
           cl[who].pc \in {"wait", "acking"}
    PROVE  cl[who].req = Asked
  BY HeadMessage DEF WholeInv, QueueInv, MessageOK, Asked

(* A process that is answered with what it has still to append.            *)
LEMMA AnsweredOK ==
    ASSUME NEW c \in Client, ClientOK(c), c.pc = "wait",
           NEW r \in Procs, c.req = r, NEW T \in SUBSET Change,
           seen'.prepared[r] # None, T \subseteq ChangesOf(r)',
           \A ch \in ChangesOf(r)' \ T : RecordedFor(r, ch)',
           NEW x, x = Answered(c, T)
    PROVE  x \in Client /\ ClientOK(x)' /\ x.req = c.req /\ x.pc = "append"
<1>1. /\ x \in Client /\ x.pc = "append" /\ x.via = "sidecar" /\ x.req = r
      /\ x.todo = T /\ x.acked = c.acked
  BY DEF Answered, Client
<1>2. ~c.acked /\ r # None
  BY Constants DEF ClientOK
<1> QED
  BY <1>1, <1>2 DEF ClientOK

LEMMA ReplyClients ==
    ASSUME WholeInv, sc.queue # <<>>, NEW r, r = Asked,
           NEW b \in Snapshot, NEW a \in Snapshot,
           Reply(Head(sc.queue).who, b, a),
           seen'.prepared[r] # None, Diff(b, a) \subseteq ChangesOf(r)',
           \A ch \in ChangesOf(r)' \ Diff(b, a) : RecordedFor(r, ch)'
    PROVE  ClientStep
<1> DEFINE who == Head(sc.queue).who
           T == Diff(b, a)
<1>1. who \in Procs /\ r \in Procs /\ T \in SUBSET Change
  BY HeadType, DiffType DEF WholeInv
<1>2. \A p \in Procs : cl[p] \in Client /\ ClientOK(cl[p])
  BY DEF WholeInv, TypeOK, ClientInv
<1>3. \A p \in Procs :
         cl'[p] = cl[p] \/ (p = who /\ Is(who, "wait") /\ cl'[p] = Answered(cl[p], T))
  BY <1>1, ReplyEffect DEF WholeInv
<1>4. Is(who, "wait") => cl[who].req = r
  BY HeadAsks DEF Is
<1> HIDE DEF who, T
<1>5. ASSUME NEW p \in Procs, p = who, Is(who, "wait"), cl'[p] = Answered(cl[p], T)
      PROVE  Steps(cl[p], cl'[p]) /\ Moves(cl[p], cl'[p])
  <2>1. \A x : x = cl'[p] => /\ x \in Client /\ ClientOK(x)' /\ x.req = cl[p].req
                           /\ x.pc = "append"
    BY <1>1, <1>2, <1>4, <1>5, AnsweredOK DEF T, Is
  <2> QED
    BY <1>5, <2>1 DEF Steps, Moves, Early, Is
<1> QED
  BY <1>3, <1>5 DEF ClientStep, Steps, Moves

LEMMA ServeClients ==
    ASSUME WholeInv, Grows, DrainPending \/ DrainCommitted \/ Persist
    PROVE  ClientStep
<1>0. sc.queue # <<>> /\ TypeOK /\ TransactionInv /\ Asked \in Procs
  BY HeadType DEF WholeInv, DrainPending, DrainCommitted, Persist, Serving, JobInv
<1>1. CASE DrainPending
  <2>1. /\ IsPending(Asked) /\ state.pending[Asked] = seen.prepared[Asked]
        /\ seen.prepared[Asked] # None
    BY <1>0, <1>1 DEF DrainPending, TransactionInv, IsPending
  <2>2. /\ ChangesOf(Asked) = Diff(state.pending[Asked].before,
                                  state.pending[Asked].capture)
        /\ state.pending[Asked].before \in Snapshot
        /\ state.pending[Asked].capture \in Snapshot
    BY <1>0, <2>1, ResultType DEF ChangesOf
  <2>3. ASSUME NEW r, r = Asked
        PROVE  seen'.prepared[r] # None /\ ChangesOf(r)' = ChangesOf(r)
    BY <1>0, <2>1, <2>3, GrowsFacts
  <2> QED
    BY <1>0, <1>1, <2>2, <2>3, ReplyClients DEF DrainPending
<1>2. CASE DrainCommitted
  <2>1. /\ state.latest \in Snapshot /\ Asked \in state.committed
        /\ seen.prepared[Asked] # None
        /\ \A c \in ChangesOf(Asked) : RecordedFor(Asked, c)
    BY <1>0, <1>2, SessionType DEF DrainCommitted, IsCommitted, TransactionInv,
       WholeInv, CommittedWhole, CommittedRecorded
  <2>2. Diff(state.latest, state.latest) = {}
    BY DEF Diff
  <2>3. ASSUME NEW r, r = Asked
        PROVE  /\ seen'.prepared[r] # None
               /\ \A c \in ChangesOf(r)' : RecordedFor(r, c)'
    BY <1>0, <2>1, <2>3, GrowsFacts
  <2> QED
    BY <1>0, <1>2, <2>1, <2>2, <2>3, ReplyClients DEF DrainCommitted
<1>3. CASE Persist
  <2>1. /\ sc.job.before \in Snapshot /\ sc.job.capture \in Snapshot
        /\ seen'.prepared = [seen.prepared EXCEPT ![Asked] = Prepared]
        /\ Prepared # None
    BY <1>0, <1>3, SessionType, PersistEffect DEF Persist, WholeInv
  <2>2. seen'.prepared[Asked] = Prepared
    BY <1>0, <2>1 DEF TypeOK, Seen
  <2>3. ASSUME NEW r, r = Asked
        PROVE  /\ seen'.prepared[r] # None
               /\ ChangesOf(r)' = Diff(sc.job.before, sc.job.capture)
    BY <2>1, <2>2, <2>3 DEF ChangesOf, Prepared
  <2> QED
    BY <1>0, <1>3, <2>1, <2>3, ReplyClients DEF Persist
<1> QED
  BY <1>1, <1>2, <1>3

(* One process moves to a stage with nothing to append.                    *)
LEMMA GotoClients ==
    ASSUME WholeInv, Grows, NEW p \in Procs, NEW pc, Goto(p, pc),
           pc \in {"capture", "wait", "acking", "clear"},
           cl[p].pc \notin {"idle", "mark", "done", "clear"}
    PROVE  ClientStep
<1> DEFINE c == [cl[p] EXCEPT !.pc = pc]
<1>1. cl[p] \in Client /\ ClientOK(cl[p]) /\ pc \in Stages
  BY DEF WholeInv, TypeOK, ClientInv, Stages
<1>2. c \in Client /\ c.pc = pc /\ c.req = cl[p].req /\ c.acked = cl[p].acked
  BY <1>1 DEF Client, Stages
<1>3. cl'[p] = c /\ \A q \in Procs : q # p => cl'[q] = cl[q]
  BY <1>1, GotoEffect DEF WholeInv
<1> HIDE DEF c
<1>4. \A x : x = c => ClientOK(x)'
  BY <1>1, <1>2, ClientMoves
<1>5. Steps(cl[p], cl'[p]) /\ Moves(cl[p], cl'[p])
  BY <1>2, <1>3, <1>4 DEF Steps, Moves, Early
<1> QED
  BY <1>3, <1>5 DEF ClientStep, Steps, Moves

LEMMA FinishClients ==
    ASSUME WholeInv, NEW p \in Procs, Finish(p)
    PROVE  ClientStep
  BY FinishEffect, EndedType DEF WholeInv, ClientStep, Steps, Moves

LEMMA SidecarClients ==
    ASSUME WholeInv, Grows, Sidecar
    PROVE  ClientStep
<1>0. cl \in [Procs -> Client] /\ \A p \in Procs : ClientOK(cl[p])
  BY DEF WholeInv, TypeOK, ClientInv
<1>1. CASE cl' = cl
  BY <1>1 DEF ClientStep, Steps, Moves
<1>2. CASE PersistFails
  <2> DEFINE who == Head(sc.queue).who
  <2>1. who \in Procs
    BY <1>2, HeadType DEF PersistFails, WholeInv, JobInv
  <2>2. cl' = cl \/ (Is(who, "wait") /\ Goto(who, "capture"))
    BY <1>2 DEF PersistFails, Goto
  <2> HIDE DEF who
  <2> QED
    BY <1>1, <2>1, <2>2, GotoClients DEF Is
<1>3. CASE Ack
  <2> DEFINE who == Head(sc.queue).who
             c == [cl[who] EXCEPT !.pc = "clear", !.acked = TRUE]
  <2>1. who \in Procs /\ sc.queue # <<>>
    BY <1>3, HeadType DEF Ack, Serving, WholeInv
  <2>2. \/ cl' = cl
        \/ Is(who, "acking") /\ cl' = [cl EXCEPT ![who] = c]
    BY <1>0, <1>3, <2>1 DEF Ack, Client
  <2>3. Is(who, "acking") => cl[who].req = Asked
    BY <2>1, HeadAsks DEF Is
  <2>4. Asked \in state'.committed /\ Asked \in Procs
    BY <1>3, AckEffect
  <2>5. \A d \in Client : /\ [d EXCEPT !.pc = "clear", !.acked = TRUE] \in Client
                          /\ [d EXCEPT !.pc = "clear", !.acked = TRUE].pc = "clear"
                          /\ [d EXCEPT !.pc = "clear", !.acked = TRUE].req = d.req
    BY DEF Client
  <2>6. c \in Client /\ c.pc = "clear" /\ c.req = cl[who].req
    BY <1>0, <2>1, <2>5
  <2> HIDE DEF who, c
  <2>7. ASSUME Is(who, "acking"), cl' = [cl EXCEPT ![who] = c]
        PROVE  ClientStep
    <3>1. \A x : x = c => ClientOK(x)'
      BY <2>3, <2>4, <2>6, <2>7, Constants DEF ClientOK
    <3>2. cl'[who] = c /\ \A q \in Procs : q # who => cl'[q] = cl[q]
      BY <1>0, <2>1, <2>7
    <3>3. Steps(cl[who], cl'[who]) /\ Moves(cl[who], cl'[who])
      BY <2>6, <2>7, <3>1, <3>2 DEF Steps, Moves, Early, Is
    <3> QED
      BY <3>2, <3>3 DEF ClientStep, Steps, Moves
  <2> QED
    BY <1>1, <2>2, <2>7
<1>4. CASE SidecarCrash
  <2>1. PICK errors \in SUBSET {p \in Procs : Is(p, "wait")} :
         cl' = [p \in Procs |->
                  IF p \in errors THEN [cl[p] EXCEPT !.pc = "capture"]
                  ELSE IF cl[p].pc \in {"wait", "acking"} THEN Ended ELSE cl[p]]
    BY <1>4 DEF SidecarCrash
  <2> SUFFICES ASSUME NEW p \in Procs
               PROVE  Steps(cl[p], cl'[p]) /\ Moves(cl[p], cl'[p])
    BY DEF ClientStep
  <2>2. CASE p \in errors
    <3> DEFINE c == [cl[p] EXCEPT !.pc = "capture"]
    <3>1. /\ cl'[p] = c /\ cl[p].pc = "wait"
      BY <2>1, <2>2 DEF Is
    <3>2. c \in Client /\ c.pc = "capture" /\ c.req = cl[p].req /\ c.acked = cl[p].acked
      BY <1>0 DEF Client
    <3> HIDE DEF c
    <3>3. \A x : x = c => ClientOK(x)'
      BY <1>0, <3>1, <3>2, ClientMoves
    <3> QED
      BY <3>1, <3>2, <3>3 DEF Steps, Moves, Early
  <2>3. CASE p \notin errors
    <3>1. cl'[p] = Ended \/ cl'[p] = cl[p]
      BY <2>1, <2>3
    <3> QED
      BY <3>1, EndedType DEF Steps, Moves
  <2> QED
    BY <2>2, <2>3
<1>5. ASSUME SessionStart \/ BeginRestored \/ Begin \/ End \/ Reconcile \/ LockExpires
      PROVE  cl' = cl
  BY <1>5 DEF SessionStart, BeginRestored, Begin, End, Reconcile, LockExpires
<1> QED
  BY <1>1, <1>2, <1>3, <1>4, <1>5, ServeClients DEF Sidecar

(* One process changes to something good.                                  *)
LEMMA OneChanges ==
    ASSUME WholeInv, NEW p \in Procs, NEW c \in Client,
           cl' = [cl EXCEPT ![p] = c], \A x : x = c => ClientOK(x)',
           Moves(cl[p], c)
    PROVE  ClientStep
<1>1. cl'[p] = c /\ \A q \in Procs : q # p => cl'[q] = cl[q]
  BY DEF WholeInv, TypeOK
<1>2. Steps(cl[p], c)
  BY DEF Steps
<1> QED
  BY <1>1, <1>2 DEF ClientStep, Steps, Moves

(* An appended change is recorded for the request of the process.          *)
LEMMA AppendClients ==
    ASSUME WholeInv, Grows, NEW p \in Procs, AppendChange(p)
    PROVE  ClientStep
<1>0. cl \in [Procs -> Client] /\ ClientOK(cl[p])
  BY DEF WholeInv, TypeOK, ClientInv
<1>1. PICK ch \in cl[p].todo :
        IF Conflicts(p, ch)
        THEN Finish(p) /\ UNCHANGED ledger
        ELSE /\ ledger' = ledger \cup {EntryOf(p, ch)}
             /\ cl' = [cl EXCEPT ![p].todo = @ \ {ch}]
  BY DEF AppendChange
<1>2. CASE Finish(p)
  BY <1>2, FinishClients
<1>3. CASE /\ ledger' = ledger \cup {EntryOf(p, ch)}
           /\ cl' = [cl EXCEPT ![p].todo = @ \ {ch}]
  <2> DEFINE c == [cl[p] EXCEPT !.todo = @ \ {ch}]
  <2>1. cl' = [cl EXCEPT ![p] = c]
    BY <1>0, <1>3 DEF Client
  <2>2. /\ c \in Client /\ c.pc = "append" /\ c.req = cl[p].req /\ c.via = cl[p].via
        /\ c.todo = cl[p].todo \ {ch} /\ c.acked = cl[p].acked
    BY <1>0 DEF Client, AppendChange, Is
  <2>3. /\ cl[p].pc = "append" /\ cl[p].req \in Procs
        /\ c.via = "sidecar" => EntryOf(p, ch).req = cl[p].req
        /\ EntryOf(p, ch).via = c.via
        /\ EntryOf(p, ch).path = ch.path /\ EntryOf(p, ch).ver = ch.ver
    BY <2>2, EntryType DEF AppendChange, Is
  <2> HIDE DEF c
  <2>4. ASSUME NEW x, x = c
        PROVE  ClientOK(x)'
    <3>1. /\ x.pc = "append" /\ x.req \in Procs /\ x.req # None /\ x.via # "none"
          /\ ~x.acked
      BY <1>0, <2>2, <2>3, <2>4, Constants DEF ClientOK
    <3>2. x.via = "sidecar" => RecordedFor(x.req, ch)'
      BY <1>3, <2>2, <2>3, <2>4 DEF RecordedFor
    <3>3. x.via = "sidecar" =>
            /\ seen'.prepared[x.req] # None
            /\ x.todo \subseteq ChangesOf(x.req)'
            /\ \A d \in ChangesOf(x.req)' \ cl[p].todo : RecordedFor(x.req, d)'
      BY <1>0, <2>2, <2>3, <2>4, GrowsFacts DEF ClientOK
    <3>4. x.todo = cl[p].todo \ {ch}
      BY <2>2, <2>4
    <3>5. x.via = "sidecar" =>
            \A d \in ChangesOf(x.req)' \ x.todo : RecordedFor(x.req, d)'
      BY <3>2, <3>3, <3>4
    <3> QED
      BY <3>1, <3>3, <3>5 DEF ClientOK
  <2>5. Moves(cl[p], c)
    BY <2>2, <2>3 DEF Moves, Early
  <2> QED
    BY <2>1, <2>2, <2>4, <2>5, OneChanges
<1> QED
  BY <1>1, <1>2, <1>3

LEMMA RecorderClients ==
    ASSUME WholeInv, Grows, TypeOK', NEW p \in Procs, Recorder(p)
    PROVE  ClientStep
<1>0. /\ cl \in [Procs -> Client] /\ cl[p] \in Client /\ ClientOK(cl[p])
      /\ disk \in Snapshot /\ disk # None
  BY Constants DEF WholeInv, TypeOK, ClientInv
<1>1. CASE Look(p)
  <2> DEFINE c == [cl[p] EXCEPT !.pc = "mark", !.existed = (marker # None)]
  <2>1. cl' = [cl EXCEPT ![p] = c]
    BY <1>0, <1>1 DEF Look, Client
  <2>2. /\ c \in Client /\ c.pc = "mark" /\ c.req = cl[p].req
        /\ c.acked = cl[p].acked /\ cl[p].pc = "idle"
    BY <1>0, <1>1 DEF Look, Client, Is
  <2> HIDE DEF c
  <2>3. \A x : x = c => ClientOK(x)'
    BY <1>0, <2>2, ClientMoves
  <2>4. Moves(cl[p], c)
    BY <2>2 DEF Moves, Early
  <2> QED
    BY <2>1, <2>2, <2>3, <2>4, OneChanges
<1>2. CASE Mark(p)
  <2>1. marker' \in Procs
    BY <1>2 DEF Mark, Claimed, WholeInv, TypeOK
  <2> DEFINE c == [cl[p] EXCEPT !.pc = "connect", !.req = marker']
  <2>2. cl' = [cl EXCEPT ![p] = c]
    BY <1>0, <1>2 DEF Mark, Client
  <2>3. /\ c \in Client /\ c.pc = "connect" /\ c.req = marker'
        /\ c.acked = cl[p].acked /\ cl[p].pc = "mark"
    BY <1>0, <1>2, <2>1 DEF Mark, Client, Is
  <2> HIDE DEF c
  <2>4. \A x : x = c => ClientOK(x)'
    BY <1>0, <2>1, <2>3, Constants DEF ClientOK
  <2>5. Moves(cl[p], c)
    BY <2>3 DEF Moves, Early
  <2> QED
    BY <2>2, <2>3, <2>4, <2>5, OneChanges
<1>3. CASE CaptureAfter(p) \/ ReadSnapshot(p)
  <2>1. PICK a \in Snapshot, b \in Snapshot \cup {None}, pc \in {"previous", "swap"} :
          /\ cl' = [cl EXCEPT ![p] = [cl[p] EXCEPT !.pc = pc, !.before = b, !.after = a]]
          /\ cl[p].pc \in {"capture", "previous"}
    <3>1. CASE CaptureAfter(p)
      <4>1. cl' = [cl EXCEPT ![p] = [cl[p] EXCEPT !.pc = "previous",
                                      !.before = cl[p].before, !.after = disk]]
        BY <1>0, <3>1 DEF CaptureAfter, Client
      <4> QED
        BY <1>0, <3>1, <4>1 DEF CaptureAfter, Client, Is
    <3>2. CASE ReadSnapshot(p)
      <4>1. cl' = [cl EXCEPT ![p] = [cl[p] EXCEPT !.pc = "swap",
                                      !.before = baseline, !.after = cl[p].after]]
        BY <1>0, <3>2 DEF ReadSnapshot, Client
      <4>2. cl[p].after \in Snapshot /\ baseline \in Snapshot \cup {None}
        BY <1>0, <3>2 DEF ReadSnapshot, Client, Is, ClientOK, WholeInv, TypeOK
      <4> QED
        BY <3>2, <4>1, <4>2 DEF ReadSnapshot, Is
    <3> QED
      BY <1>3, <3>1, <3>2
  <2> DEFINE c == [cl[p] EXCEPT !.pc = pc, !.before = b, !.after = a]
  <2>2. /\ c \in Client /\ c.pc = pc /\ c.req = cl[p].req /\ c.after = a
        /\ c.acked = cl[p].acked
    <3>1. \A d \in Client : LET x == [d EXCEPT !.pc = pc, !.before = b, !.after = a]
                           IN /\ x \in Client /\ x.pc = pc /\ x.req = d.req
                              /\ x.after = a /\ x.acked = d.acked
      BY DEF Client
    <3> QED
      BY <1>0, <3>1
  <2>3. cl' = [cl EXCEPT ![p] = c]
    BY <2>1
  <2> HIDE DEF c
  <2>4. \A x : x = c => ClientOK(x)'
    BY <1>0, <2>1, <2>2, Constants DEF ClientOK
  <2>5. Moves(cl[p], c)
    BY <2>1, <2>2 DEF Moves, Early
  <2> QED
    BY <2>2, <2>3, <2>4, <2>5, OneChanges
<1>4. CASE WriteSnapshot(p)
  <2> DEFINE T == IF cl[p].before = None THEN {}
                  ELSE Diff(cl[p].before, cl[p].after)
             c == [cl[p] EXCEPT !.pc = "append", !.via = "legacy",
                     !.before = None, !.after = None, !.todo = T]
  <2>1. cl' = [cl EXCEPT ![p] = c]
    BY <1>0, <1>4 DEF WriteSnapshot, Client
  <2> HIDE DEF T
  <2>2. /\ c.pc = "append" /\ c.via = "legacy" /\ c.req = cl[p].req
        /\ c.acked = cl[p].acked /\ cl[p].pc = "swap"
    BY <1>0, <1>4 DEF WriteSnapshot, Client, Is
  <2> HIDE DEF c
  <2>3. cl'[p] = c /\ c \in Client
    BY <1>0, <2>1 DEF TypeOK
  <2>4. \A x : x = c => ClientOK(x)'
    BY <1>0, <2>2 DEF ClientOK
  <2>5. Moves(cl[p], c)
    BY <2>2 DEF Moves, Early
  <2> QED
    BY <2>1, <2>3, <2>4, <2>5, OneChanges
<1>5. CASE Connect(p)
  BY <1>5, GotoClients DEF Connect, Is
<1>6. CASE Timeout(p)
  BY <1>6, GotoClients, FinishClients DEF Timeout, Is
<1>7. CASE Acknowledge(p)
  BY <1>7, GotoClients, FinishClients DEF Acknowledge, Is
<1>8. CASE AppendChange(p)
  BY <1>8, AppendClients
<1>9. CASE Clear(p) \/ Crash(p)
  BY <1>9, FinishClients DEF Clear, Crash
<1> QED
  BY <1>1, <1>2, <1>3, <1>4, <1>5, <1>6, <1>7, <1>8, <1>9 DEF Recorder

LEMMA AllStep == WholeInv /\ [Next]_vars => ClientStep
<1> SUFFICES ASSUME WholeInv, [Next]_vars
             PROVE  ClientStep
  OBVIOUS
<1>1. Grows /\ TypeOK'
  BY AllGrow, NextTypes
<1>2. CASE cl' = cl
  BY <1>2 DEF ClientStep, Steps, Moves
<1>3. ASSUME NEW f \in Paths, Edit(f) \/ Notify(f)
      PROVE  cl' = cl
  BY <1>3 DEF Edit, Notify
<1> QED
  BY <1>1, <1>2, <1>3, SidecarClients, RecorderClients DEF Next, vars

LEMMA ClientsKept == WholeInv /\ [Next]_vars => ClientInv'
<1> SUFFICES ASSUME WholeInv, [Next]_vars, NEW p \in Procs, NEW c, c = cl'[p]
             PROVE  ClientOK(c)'
  BY DEF ClientInv, ClientOK
<1>1. cl[p] \in Client /\ ClientOK(cl[p]) /\ Grows
  BY AllGrow DEF WholeInv, TypeOK, ClientInv
<1>2. c = cl[p] \/ c = Ended \/ ClientOK(c)'
  BY AllStep DEF ClientStep, Steps
<1>3. CASE c = cl[p]
  <2>1. c \in Client /\ ClientOK(c)
    BY <1>1, <1>3
  <2> QED
    BY <1>1, <2>1, ClientKept
<1>4. CASE c = Ended
  BY <1>4, EndedType DEF ClientOK
<1> QED
  BY <1>2, <1>3, <1>4

-----------------------------------------------------------------------------
(* The queue.                                                              *)

LEMMA QueueSteps ==
    ASSUME WholeInv, [Next]_vars
    PROVE  \/ Messages' \subseteq Messages
           \/ \E p \in Procs : \/ Connect(p) /\ sc' = Send(p, "drain")
                               \/ Acknowledge(p) /\ sc' = Send(p, "ack")
<1>0. sc \in Session /\ TypeOK
  BY DEF WholeInv, TypeOK
<1>1. CASE sc'.queue = sc.queue
  BY <1>1 DEF Messages
<1>2. CASE DrainPending \/ DrainCommitted \/ Persist \/ PersistFails \/ Ack
  <2>1. sc.queue # <<>> /\ sc'.queue = Tail(sc.queue)
    BY <1>0, <1>2 DEF DrainPending, DrainCommitted, Persist, PersistFails, Ack,
       Serving, WholeInv, JobInv, Session
  <2> QED
    BY <1>0, <2>1, TailMessages
<1>3. CASE SessionStart \/ SidecarCrash
  <2>1. sc'.queue = <<>>
    BY <1>3 DEF SessionStart, SidecarCrash, Down
  <2> QED
    BY <2>1 DEF Messages
<1>4. ASSUME BeginRestored \/ Begin \/ End \/ Reconcile \/ LockExpires
      PROVE  sc'.queue = sc.queue
  <2>1. ASSUME BeginRestored PROVE sc'.queue = sc.queue
    BY <1>0, <2>1 DEF BeginRestored, Session
  <2>2. ASSUME Begin PROVE sc'.queue = sc.queue
    BY <1>0, <2>2 DEF Begin, Session
  <2> QED
    BY <1>0, <1>4, <2>1, <2>2 DEF End, Reconcile, LockExpires, Session
<1>5. ASSUME NEW f \in Paths, Edit(f) \/ Notify(f) PROVE sc'.queue = sc.queue
  BY <1>0, <1>5 DEF Edit, Notify, Session
<1>6. ASSUME NEW p \in Procs, Recorder(p)
      PROVE  \/ sc' = sc
             \/ Connect(p) /\ sc' = Send(p, "drain")
             \/ Acknowledge(p) /\ sc' = Send(p, "ack")
  BY <1>6 DEF Recorder, Look, Mark, Connect, Timeout, CaptureAfter, ReadSnapshot,
     WriteSnapshot, AppendChange, Acknowledge, Clear, Crash
<1> QED
  BY <1>1, <1>2, <1>3, <1>4, <1>5, <1>6 DEF Next, Sidecar, vars

LEMMA MessageKept ==
    ASSUME WholeInv, Grows, ClientStep, NEW m \in Messages
    PROVE  MessageOK(m)'
<1>1. MessageOK(m) /\ m \in Message
  <2>1. sc.queue \in Seq(Message)
    BY DEF WholeInv, TypeOK, Session
  <2>2. Messages \subseteq Message
    <3> DEFINE S == Message
    <3>1. sc.queue \in Seq(S)
      BY <2>1
    <3> HIDE DEF S
    <3>2. \A i \in DOMAIN sc.queue : sc.queue[i] \in S
      BY <3>1
    <3> QED
      BY <3>2 DEF Messages, S
  <2> QED
    BY <2>2 DEF WholeInv, QueueInv
<1>2. m.who \in Procs /\ m.req \in Procs
  BY <1>1 DEF Message
<1>3. /\ cl'[m.who].pc \notin Early
      /\ cl'[m.who].pc # "done" => cl'[m.who].req = m.req
  <2>1. /\ cl[m.who].pc \notin Early
        /\ cl[m.who].pc # "done" => cl[m.who].req = m.req
    BY <1>1 DEF MessageOK, Early
  <2>2. Moves(cl[m.who], cl'[m.who])
    BY <1>2 DEF ClientStep
  <2> QED
    BY <2>1, <2>2, EndedType DEF Moves, Early
<1>4. m.op = "ack" => /\ seen'.prepared[m.req] # None
                     /\ \A c \in ChangesOf(m.req)' : RecordedFor(m.req, c)'
  BY <1>1, <1>2, GrowsFacts DEF MessageOK
<1> QED
  BY <1>3, <1>4 DEF MessageOK, Early

LEMMA QueueKept == WholeInv /\ [Next]_vars => QueueInv'
<1> SUFFICES ASSUME WholeInv, [Next]_vars
             PROVE  QueueInv'
  OBVIOUS
<1>1. Grows /\ ClientStep
  BY AllGrow, AllStep
<1>2. \A m \in Messages : MessageOK(m)'
  BY <1>1, MessageKept
<1>3. CASE Messages' \subseteq Messages
  BY <1>2, <1>3 DEF QueueInv
<1>4. ASSUME NEW p \in Procs, NEW op \in {"drain", "ack"}, sc' = Send(p, op),
             op = "drain" => Connect(p), op = "ack" => Acknowledge(p)
      PROVE  QueueInv'
  <2> DEFINE m == [op |-> op, who |-> p, req |-> cl[p].req]
  <2>1. Messages' = Messages \cup {m}
    BY <1>4, SendMessages DEF WholeInv
  <2>2. cl[p] \in Client /\ ClientOK(cl[p]) /\ sc' # sc
    <3>1. sc \in Session
      BY DEF WholeInv, TypeOK
    <3> DEFINE S == Message
    <3>2. sc.queue \in Seq(S) /\ m \in S
      BY <1>4 DEF WholeInv, TypeOK, Session, ClientInv, ClientOK, Client, Message,
         Connect, Acknowledge, Is
    <3> HIDE DEF m, S
    <3>3. Append(sc.queue, m) # sc.queue
      BY <3>2
    <3>4. sc'.queue = Append(sc.queue, m)
      BY <1>4, <3>1 DEF Send, m, Session
    <3> QED
      BY <3>3, <3>4 DEF WholeInv, TypeOK, ClientInv
  <2>3. Goto(p, IF op = "drain" THEN "wait" ELSE "acking")
    BY <1>4, <2>2 DEF Connect, Acknowledge
  <2>4. /\ cl'[p].pc \in {"wait", "acking"} /\ cl'[p].req = cl[p].req
    <3>1. cl'[p] = [cl[p] EXCEPT !.pc = IF op = "drain" THEN "wait" ELSE "acking"]
      BY <1>4, <2>3, GotoEffect DEF WholeInv, Stages
    <3> QED
      BY <2>2, <3>1 DEF Client
  <2>5. op = "ack" => /\ seen.prepared[cl[p].req] # None
                      /\ \A c \in ChangesOf(cl[p].req) : RecordedFor(cl[p].req, c)
                      /\ cl[p].req \in Procs
    <3>1. ASSUME op = "ack"
          PROVE  /\ cl[p].pc = "append" /\ cl[p].todo = {} /\ cl[p].via = "sidecar"
                 /\ cl[p].req \in Procs
      BY <1>4, <2>2, <3>1 DEF Acknowledge, Appended, Is, ClientOK, Client
    <3> QED
      BY <2>2, <3>1 DEF ClientOK
  <2>6. ASSUME NEW r, r = cl[p].req, op = "ack"
        PROVE  /\ seen'.prepared[r] # None
               /\ \A c \in ChangesOf(r)' : RecordedFor(r, c)'
    BY <1>1, <2>5, <2>6, GrowsFacts
  <2>7. ASSUME NEW x, x = m
        PROVE  MessageOK(x)'
    <3>1. x.who = p /\ x.req = cl[p].req /\ x.op = op
      BY <2>7
    <3> HIDE DEF m
    <3>2. x.op = "ack" => /\ seen'.prepared[x.req] # None
                         /\ \A c \in ChangesOf(x.req)' : RecordedFor(x.req, c)'
      BY <2>6, <3>1
    <3> QED
      BY <2>4, <3>1, <3>2 DEF MessageOK
  <2> HIDE DEF m
  <2> QED
    BY <1>2, <2>1, <2>7 DEF QueueInv
<1> QED
  BY <1>3, <1>4, QueueSteps

-----------------------------------------------------------------------------
(* A committed window is in the ledger, whole and alone.                   *)

LEMMA WholeKept == WholeInv /\ [Next]_vars => CommittedWhole'
<1> SUFFICES ASSUME WholeInv, [Next]_vars
             PROVE  CommittedWhole'
  OBVIOUS
<1>0. /\ Grows /\ TypeOK /\ TransactionInv /\ CommittedRecorded /\ OneWindow
      /\ state.committed \subseteq Procs /\ ledger \subseteq Entry
  BY AllGrow DEF WholeInv, CommittedWhole, TypeOK, State
<1>1. CommittedRecorded'
  <2>1. \A r \in state.committed : \A c \in ChangesOf(r)' : RecordedFor(r, c)'
    BY <1>0, GrowsFacts DEF CommittedRecorded, TransactionInv
  <2>2. CASE state'.committed = state.committed
    BY <2>1, <2>2 DEF CommittedRecorded
  <2>3. CASE Ack
    <3>1. ASSUME NEW r, r = Asked
          PROVE  \A c \in ChangesOf(r)' : RecordedFor(r, c)'
      BY <1>0, <2>3, <3>1, AckEffect, GrowsFacts
    <3>2. state'.committed = state.committed \cup {Asked}
      BY <2>3, AckEffect
    <3> QED
      BY <2>1, <3>1, <3>2 DEF CommittedRecorded
  <2> QED
    BY <2>2, <2>3, StateSteps, PersistEffect
<1>2. OneWindow'
  <2>1. \A e \in ledger : e.via = "sidecar" =>
          /\ e.req \in Procs
          /\ [path |-> e.path, ver |-> e.ver] \in ChangesOf(e.req)'
    <3>1. \A r \in Procs : ChangesOf(r) # {} => ChangesOf(r)' = ChangesOf(r)
      BY <1>0, GrowsFacts DEF ChangesOf
    <3>2. \A e \in ledger : e.req \in Procs
      BY <1>0 DEF Entry
    <3> QED
      BY <1>0, <3>1, <3>2 DEF OneWindow
  <2>2. CASE ledger' = ledger
    BY <2>1, <2>2 DEF OneWindow
  <2>3. ASSUME NEW p \in Procs, AppendChange(p)
        PROVE  OneWindow'
    <3>1. PICK ch \in cl[p].todo :
            ledger' = ledger \/ ledger' = ledger \cup {EntryOf(p, ch)}
      BY <2>3 DEF AppendChange
    <3> DEFINE n == EntryOf(p, ch)
    <3>2. n.via = "sidecar" =>
            /\ n.req = cl[p].req /\ n.req \in Procs
            /\ [path |-> n.path, ver |-> n.ver] = ch
            /\ ch \in ChangesOf(cl[p].req)
      <4>1. ClientOK(cl[p]) /\ cl[p].pc = "append" /\ ch \in Change
        BY <2>3, EntryType DEF WholeInv, ClientInv, AppendChange, Is
      <4>2. [path |-> ch.path, ver |-> ch.ver] = ch
        BY <4>1 DEF Change
      <4> QED
        BY <2>3, <4>1, <4>2, EntryType DEF ClientOK, AppendChange
    <3> HIDE DEF n
    <3>3. ASSUME NEW r, r = n.req, n.via = "sidecar"
          PROVE  [path |-> n.path, ver |-> n.ver] \in ChangesOf(r)'
      BY <1>0, <3>2, <3>3, GrowsFacts DEF ChangesOf
    <3>4. ledger' = ledger \/ ledger' = ledger \cup {n}
      BY <3>1 DEF n
    <3> QED
      BY <2>1, <3>3, <3>4 DEF OneWindow
  <2>4. (\E p \in Procs : AppendChange(p)) \/ ledger' = ledger
    <3>1. ASSUME NEW f \in Paths, Edit(f) \/ Notify(f) PROVE ledger' = ledger
      BY <3>1 DEF Edit, Notify
    <3>2. ASSUME Sidecar PROVE ledger' = ledger
      BY <3>2 DEF Sidecar, SessionStart, DrainPending, DrainCommitted,
         BeginRestored, Begin, End, Persist, PersistFails, Ack, Reconcile,
         SidecarCrash, LockExpires
    <3>3. ASSUME NEW p \in Procs, Recorder(p), ~AppendChange(p) PROVE ledger' = ledger
      BY <3>3 DEF Recorder, Look, Mark, Connect, Timeout, CaptureAfter,
         ReadSnapshot, WriteSnapshot, Acknowledge, Clear, Crash
    <3> QED
      BY <3>1, <3>2, <3>3 DEF Next, vars
  <2> QED
    BY <2>2, <2>3, <2>4
<1> QED
  BY <1>1, <1>2 DEF CommittedWhole

LEMMA InitWhole == Init => WholeInv
<1> SUFFICES ASSUME Init
             PROVE  WholeInv
  OBVIOUS
<1>1. TypeOK
  <2>1. disk \in Snapshot
    BY Constants DEF Init, Snapshot, Version
  <2>2. state \in State /\ seen \in Seen
    BY DEF Init, State, Seen
  <2>3. sc \in Session
    <3>1. NoJob \in Job /\ <<>> \in Seq(Message)
      BY DEF NoJob, Job
    <3> QED
      BY <3>1 DEF Init, Down, Session
  <2>4. cl \in [Procs -> Client]
    BY EndedType DEF Init
  <2>5. 0 \in 0 .. MaxCrashes /\ 0 \in 0 .. MaxTimeouts
    BY Constants
  <2> QED
    BY <2>1, <2>2, <2>3, <2>4, <2>5 DEF Init, TypeOK
<1>2. JobInv
  BY DEF Init, JobInv, Down, NoJob
<1>3. TransactionInv /\ CommittedWhole
  BY DEF Init, TransactionInv, IsPending, CommittedWhole, CommittedRecorded,
     OneWindow
<1>4. ClientInv
  BY DEF Init, ClientInv, ClientOK, NotStarted
<1>5. QueueInv
  BY DEF Init, QueueInv, Messages, Down
<1> QED
  BY <1>1, <1>2, <1>3, <1>4, <1>5 DEF WholeInv

LEMMA StepWhole == WholeInv /\ [Next]_vars => WholeInv'
  BY NextTypes, JobKept, TransactionsKept, ClientsKept, QueueKept, WholeKept
     DEF WholeInv

(* The inductive invariant: what the sidecar works for, what a request's   *)
(* transaction was, what each process has still to append and what is      *)
(* asked for in the queue.                                                 *)
THEOREM WholeInvariant == Spec => []WholeInv
  BY InitWhole, StepWhole, PTL DEF Spec

(* Every variable keeps its type.                                          *)
THEOREM TypeCorrect == Spec => []TypeOK
<1>1. WholeInv => TypeOK
  BY DEF WholeInv
<1> QED
  BY <1>1, WholeInvariant, PTL

(* "ledger writes before acknowledgement" (ingest.ts, recordTurnEffects):  *)
(* a committed window is in the ledger whole, and nothing is recorded for  *)
(* a request but what its window held when it was first prepared, whoever  *)
(* of any number of processes retries it and whichever of them dies.       *)
THEOREM CommittedIsWhole == Spec => []CommittedWhole
<1>1. WholeInv => CommittedWhole
  BY DEF WholeInv
<1> QED
  BY <1>1, WholeInvariant, PTL

-----------------------------------------------------------------------------
(* What is accounted for.                                                  *)

(* Nothing accounted for is forgotten: what a pending window holds is in   *)
(* the ledger when it is acknowledged.                                     *)
LEMMA AccountKept ==
    ASSUME WholeInv, [Next]_vars, NEW c, Accounted(c)
    PROVE  Accounted(c)'
<1>0. Grows
  BY AllGrow
<1>1. CASE Recorded(c)
  BY <1>0, <1>1, GrowsFacts DEF Accounted
<1>2. CASE \E a \in seen.absorbed : a.change = c
  BY <1>0, <1>2 DEF Grows, Accounted
<1>3. ASSUME NEW r \in Procs, IsPending(r), c \in ChangesOf(r)
      PROVE  Accounted(c)'
  <2>1. seen.prepared[r] # None /\ ChangesOf(r)' = ChangesOf(r)
    BY <1>0, <1>3, GrowsFacts DEF ChangesOf
  <2>2. CASE IsPending(r)'
    BY <1>3, <2>1, <2>2 DEF Accounted
  <2>3. ASSUME Ack, r = Asked
        PROVE  Recorded(c)
    BY <1>3, <2>3, AckEffect DEF RecordedFor, Recorded
  <2>4. IsPending(r)' \/ (Ack /\ r = Asked)
    <3>1. CASE state' = state
      BY <1>3, <3>1 DEF IsPending
    <3>2. state.pending \in [Procs -> Result \cup {None}]
      BY DEF WholeInv, TypeOK, State
    <3>3. CASE Persist
      BY <1>3, <3>2, <3>3, PersistEffect DEF IsPending
    <3>4. CASE Ack
      <4>1. \A q \in Procs : q # Asked => state'.pending[q] = state.pending[q]
        BY <3>2, <3>4, AckEffect
      <4> QED
        BY <1>3, <3>4, <4>1 DEF IsPending
    <3> QED
      BY <3>1, <3>3, <3>4, StateSteps
  <2> QED
    BY <1>0, <2>2, <2>3, <2>4, GrowsFacts DEF Accounted
<1> QED
  BY <1>1, <1>2, <1>3 DEF Accounted

LEMMA SnapshotKept ==
    ASSUME WholeInv, [Next]_vars, NEW s, AccountedIn(s)
    PROVE  AccountedIn(s)'
  BY AccountKept DEF AccountedIn

(* A snapshot is accounted for when an older one is, and what changed.     *)
LEMMA ChangedAccounts ==
    ASSUME NEW b \in Snapshot, NEW a \in Snapshot, AccountedIn(b)',
           \A c \in Diff(b, a) : Accounted(c)'
    PROVE  AccountedIn(a)'
<1> SUFFICES ASSUME NEW f \in Paths
             PROVE  Accounted([path |-> f, ver |-> a[f]])'
  BY DEF AccountedIn
<1>1. Accounted([path |-> f, ver |-> b[f]])'
  BY Constants DEF AccountedIn
<1>2. CASE b[f] = a[f]
  BY <1>1, <1>2
<1>3. CASE b[f] # a[f]
  BY <1>3 DEF Diff
<1> QED
  BY <1>2, <1>3

LEMMA LatestAccounts == WholeInv /\ AccountInv /\ [Next]_vars => AccountedIn(state.latest)'
<1> SUFFICES ASSUME WholeInv, AccountInv, [Next]_vars, NEW s, s = state'.latest
             PROVE  AccountedIn(s)'
  BY DEF AccountedIn, Accounted
<1>1. AccountedIn(s)
  <2>1. CASE state'.latest = state.latest
    BY <2>1 DEF AccountInv
  <2>2. CASE Ack
    BY <2>2, AckEffect DEF AccountInv, Commits
  <2> QED
    BY <2>1, <2>2, StateSteps, PersistEffect
<1> QED
  BY <1>1, SnapshotKept

(* The window that is written.                                             *)
LEMMA CaptureAccounts ==
    ASSUME WholeInv, AccountInv, Persist, [Next]_vars, NEW s, s = sc.job.capture
    PROVE  AccountedIn(s)'
<1>1. /\ sc.job.req \in Procs /\ Prepared \in Result /\ Prepared # None
      /\ state'.pending = [state.pending EXCEPT ![sc.job.req] = Prepared]
      /\ seen'.prepared = [seen.prepared EXCEPT ![sc.job.req] = Prepared]
  BY PersistEffect
<1>2. /\ state'.pending[sc.job.req] = Prepared
      /\ seen'.prepared[sc.job.req] = Prepared
  BY <1>1 DEF WholeInv, TypeOK, State, Seen
<1>3. ASSUME NEW c \in Diff(sc.job.before, sc.job.capture)
      PROVE  Accounted(c)'
  <2>1. ASSUME NEW r, r = sc.job.req
        PROVE  r \in Procs /\ IsPending(r)' /\ c \in ChangesOf(r)'
    BY <1>1, <1>2, <1>3, <2>1 DEF IsPending, ChangesOf, Prepared
  <2> QED
    BY <2>1 DEF Accounted
<1>4. ASSUME NEW b, b = sc.job.before
      PROVE  b \in Snapshot /\ s \in Snapshot /\ AccountedIn(b)'
  <2>1. AccountedIn(b) /\ b \in Snapshot /\ s \in Snapshot
    BY <1>4, SessionType DEF AccountInv, Persist, WholeInv
  <2> QED
    BY <2>1, SnapshotKept
<1> QED
  BY <1>3, <1>4, ChangedAccounts

LEMMA PendingAccounts ==
    ASSUME WholeInv, AccountInv, [Next]_vars, NEW r \in Procs, IsPending(r)'
    PROVE  AccountedIn(state.pending[r].capture)'
<1> SUFFICES ASSUME NEW s, s = state'.pending[r].capture
             PROVE  AccountedIn(s)'
  BY DEF AccountedIn, Accounted
<1>0. state.pending \in [Procs -> Result \cup {None}]
  BY DEF WholeInv, TypeOK, State
<1>1. CASE state'.pending[r] = state.pending[r]
  <2>1. AccountedIn(s)
    BY <1>1 DEF AccountInv, IsPending
  <2> QED
    BY <2>1, SnapshotKept
<1>2. CASE Persist /\ r = sc.job.req
  <2>1. s = sc.job.capture
    BY <1>0, <1>2, PersistEffect DEF Prepared
  <2> QED
    BY <1>2, <2>1, CaptureAccounts
<1>3. state'.pending[r] = state.pending[r] \/ (Persist /\ r = sc.job.req)
  BY <1>0, StateSteps, PersistEffect, AckEffect DEF IsPending
<1> QED
  BY <1>1, <1>2, <1>3

(* The snapshot the sidecar goes on from: while it has no job, its own.    *)
Base == IF sc.job.pc = "none" THEN sc.cache ELSE sc.job.before

LEMMA BaseKept ==
    ASSUME WholeInv, AccountInv, [Next]_vars, Base' = Base
    PROVE  AccountedIn(Base)'
<1> SUFFICES ASSUME NEW s, s = Base'
             PROVE  AccountedIn(s)'
  BY DEF AccountedIn, Accounted
<1>1. AccountedIn(s)
  BY DEF AccountInv, Base
<1> QED
  BY <1>1, SnapshotKept

(* A snapshot that takes in what changed outside of a window.              *)
LEMMA AsideAccounts ==
    ASSUME WholeInv, AccountInv, [Next]_vars, sc.job.pc = "none",
           sc.cache # None, NEW new \in Snapshot,
           Aside(sc.cache, new) \subseteq seen'.absorbed
    PROVE  AccountedIn(new)'
<1>1. ASSUME NEW c \in Diff(sc.cache, new)
      PROVE  Accounted(c)'
  <2>1. [how |-> "aside", change |-> c] \in seen'.absorbed
    BY <1>1 DEF Aside
  <2> QED
    BY <2>1 DEF Accounted
<1>2. ASSUME NEW b, b = sc.cache
      PROVE  b \in Snapshot /\ AccountedIn(b)'
  <2>1. b \in Snapshot /\ AccountedIn(b)
    BY <1>2, SessionType DEF AccountInv, WholeInv
  <2> QED
    BY <2>1, SnapshotKept
<1> QED
  BY <1>1, <1>2, ChangedAccounts

LEMMA BeginAccounts ==
    ASSUME WholeInv, AccountInv, [Next]_vars, Begin
    PROVE  AccountedIn(Base)'
<1> DEFINE new == IF sc.cache = None THEN disk ELSE Incremental(sc.cache)
<1>0. /\ sc \in Session /\ seen \in Seen /\ sc.job.pc = "none"
      /\ disk \in Snapshot /\ new \in Snapshot
  BY SessionType, IncrementalType DEF WholeInv, TypeOK, Begin, Prepares, Serving
<1>1. new = sc'.job.before /\ sc'.job.pc = "window"
  <2> DEFINE J(b) == [NoJob EXCEPT !.pc = "window", !.req = Asked, !.before = b]
  <2>1. sc' = [sc EXCEPT !.cache = new, !.journal = {}, !.job = J(new)]
    BY DEF Begin
  <2>2. J(new).before = new /\ J(new).pc = "window"
    BY DEF NoJob
  <2> HIDE DEF J, new
  <2> QED
    BY <1>0, <2>1, <2>2 DEF Session
<1>2. ASSUME NEW s, s = new
      PROVE  AccountedIn(s)'
  <2>1. CASE sc.cache = None
    <3>1. {[how |-> "first", change |-> [path |-> f, ver |-> disk[f]]] : f \in Paths}
            \subseteq seen'.absorbed
      BY <1>0, <2>1 DEF Begin, Seen
    <3>2. \A f \in Paths : Accounted([path |-> f, ver |-> s[f]])'
      <4> SUFFICES ASSUME NEW f \in Paths, NEW c, c = [path |-> f, ver |-> disk[f]]
                   PROVE  Accounted(c)'
        BY <1>2, <2>1
      <4>1. [how |-> "first", change |-> c] \in seen'.absorbed
        BY <3>1
      <4> QED
        BY <4>1 DEF Accounted
    <3> QED
      BY <3>2 DEF AccountedIn
  <2>2. CASE sc.cache # None
    <3>1. Aside(sc.cache, new) \subseteq seen'.absorbed
      BY <1>0, <2>2 DEF Begin, Seen
    <3> QED
      BY <1>0, <1>2, <2>2, <3>1, AsideAccounts
  <2> QED
    BY <2>1, <2>2
<1> HIDE DEF new
<1> SUFFICES ASSUME NEW s, s = Base'
             PROVE  AccountedIn(s)'
  BY DEF AccountedIn, Accounted
<1> QED
  BY <1>1, <1>2 DEF Base

LEMMA WindowAccounts ==
    ASSUME WholeInv, AccountInv, [Next]_vars, BeginRestored \/ End \/ Reconcile
    PROVE  AccountedIn(Base)'
<1>0. sc \in Session /\ seen \in Seen /\ disk \in Snapshot
  BY DEF WholeInv, TypeOK
<1> SUFFICES ASSUME NEW s, s = Base'
             PROVE  AccountedIn(s)'
  BY DEF AccountedIn, Accounted
<1>1. CASE BeginRestored
  <2> DEFINE J == [NoJob EXCEPT !.pc = "window", !.req = Asked,
                                !.before = RestoredBefore]
  <2>1. PICK written \in SUBSET Paths :
          sc' = [sc EXCEPT !.restored = TRUE, !.cache = Reconciled(written), !.job = J]
    BY <1>1 DEF BeginRestored
  <2>2. J.before = state.latest /\ J.pc = "window"
    BY DEF NoJob, RestoredBefore
  <2> HIDE DEF J
  <2>3. s = state.latest
    BY <1>0, <2>1, <2>2 DEF Session, Base
  <2> QED
    BY <2>3, SnapshotKept DEF AccountInv
<1>2. CASE End
  <2> DEFINE J == [sc.job EXCEPT !.pc = "persist", !.capture = Incremental(sc.cache)]
  <2>1. sc'.job = J
    BY <1>0, <1>2 DEF End, Session, Job
  <2>2. J.pc = "persist" /\ J.before = sc.job.before
    BY <1>0 DEF Session, Job
  <2> HIDE DEF J
  <2>3. s = Base
    BY <1>2, <2>1, <2>2 DEF End, Base
  <2>4. AccountedIn(s)
    BY <2>3 DEF AccountInv, Base
  <2> QED
    BY <2>4, SnapshotKept
<1>3. CASE Reconcile
  <2>1. /\ sc.job.pc = "none" /\ s = disk /\ sc.cache # None
        /\ Aside(sc.cache, disk) \subseteq seen'.absorbed
    BY <1>0, <1>3 DEF Reconcile, Session, Seen, Base, WholeInv, JobInv
  <2> QED
    BY <1>0, <2>1, AsideAccounts
<1> QED
  BY <1>1, <1>2, <1>3

LEMMA DoneAccounts ==
    ASSUME WholeInv, AccountInv, [Next]_vars, Persist \/ PersistFails
    PROVE  AccountedIn(Base)'
<1> SUFFICES ASSUME NEW s, s = Base'
             PROVE  AccountedIn(s)'
  BY DEF AccountedIn, Accounted
<1>0. sc \in Session /\ seen \in Seen /\ NoJob.pc = "none"
  BY DEF WholeInv, TypeOK, NoJob
<1>1. s = sc.job.capture /\ sc.job.pc = "persist"
  BY <1>0 DEF Persist, PersistFails, Session, Base, WholeInv, JobInv
<1>2. CASE Persist
  BY <1>1, <1>2, CaptureAccounts
<1>3. CASE PersistFails
  <2>1. {[how |-> "failed", change |-> c] : c \in Diff(sc.job.before, sc.job.capture)}
           \subseteq seen'.absorbed
    BY <1>0, <1>3 DEF PersistFails, Seen
  <2>2. ASSUME NEW c \in Diff(sc.job.before, sc.job.capture)
        PROVE  Accounted(c)'
    <3>1. [how |-> "failed", change |-> c] \in seen'.absorbed
      BY <2>1, <2>2
    <3> QED
      BY <3>1 DEF Accounted
  <2>3. ASSUME NEW b, b = sc.job.before
        PROVE  b \in Snapshot /\ s \in Snapshot /\ AccountedIn(b)'
    <3>1. b \in Snapshot /\ s \in Snapshot /\ AccountedIn(b)
      BY <1>1, <2>3, SessionType DEF AccountInv, WholeInv
    <3> QED
      BY <3>1, SnapshotKept
  <2> QED
    BY <1>1, <2>2, <2>3, ChangedAccounts
<1> QED
  BY <1>2, <1>3

LEMMA BaseAccounts == WholeInv /\ AccountInv /\ [Next]_vars => AccountedIn(Base)'
<1> SUFFICES ASSUME WholeInv, AccountInv, [Next]_vars
             PROVE  AccountedIn(Base)'
  OBVIOUS
<1>1. CASE SameJob
  BY <1>1, BaseKept DEF SameJob, Base
<1>2. CASE DrainPending \/ DrainCommitted \/ Ack
  <2>1. Base' = Base
    BY <1>2 DEF DrainPending, DrainCommitted, Ack, Serving, Session, Base,
       WholeInv, TypeOK
  <2> QED
    BY <2>1, BaseKept
<1>3. CASE SessionStart \/ SidecarCrash
  <2>1. Base' = None
    BY <1>3 DEF SessionStart, SidecarCrash, Down, NoJob, Base
  <2> QED
    BY <2>1 DEF AccountedIn
<1> QED
  BY <1>1, <1>2, <1>3, BeginAccounts, WindowAccounts, DoneAccounts, RecorderJob
     DEF Next, Sidecar

LEMMA StepAccounts == WholeInv /\ AccountInv /\ [Next]_vars => AccountInv'
  BY LatestAccounts, PendingAccounts, BaseAccounts DEF AccountInv, Base

LEMMA InitAccounts == Init => AccountInv
  BY DEF Init, AccountInv, AccountedIn, IsPending, Down, NoJob

(* What the sidecar has committed, it has recorded (sidecar.ts, ack;       *)
(* ingest.ts, recordTurnEffects), but for what entered its snapshot        *)
(* outside of any window, for windows it could not write and for those     *)
(* still pending: no write is lost, whoever died.                          *)
THEOREM CommittedIsAccounted == Spec => []CommittedAccounted
<1>1. AccountInv => CommittedAccounted
  BY DEF AccountInv, CommittedAccounted
<1>2. Init => WholeInv /\ AccountInv
  BY InitWhole, InitAccounts
<1>3. (WholeInv /\ AccountInv) /\ [Next]_vars => (WholeInv /\ AccountInv)'
  BY StepWhole, StepAccounts
<1> QED
  BY <1>1, <1>2, <1>3, PTL DEF Spec

-----------------------------------------------------------------------------
(* The order of snapshots.                                                 *)

LEMMA UpToTrans ==
    ASSUME NEW a \in Snapshot \cup {None}, NEW b \in Snapshot,
           NEW c \in Snapshot \cup {None}, UpTo(a, b), UpTo(b, c)
    PROVE  UpTo(a, c)
<1> SUFFICES ASSUME a # None, c # None, NEW f \in Paths
             PROVE  a[f] <= c[f]
  BY DEF UpTo
<1>1. a[f] <= b[f] /\ b[f] <= c[f]
  BY Constants DEF UpTo
<1>2. a[f] \in Nat /\ b[f] \in Nat /\ c[f] \in Nat
  BY Constants DEF Snapshot, Version
<1> QED
  BY <1>1, <1>2

LEMMA UpToSelf ==
    ASSUME NEW a \in Snapshot
    PROVE  UpTo(a, a)
<1>1. \A f \in Paths : a[f] \in Nat
  BY Constants DEF Snapshot, Version
<1> QED
  BY <1>1 DEF UpTo

(* What a capture takes in is between what it had and what is on disk.     *)
LEMMA IncrementalOrder ==
    ASSUME TypeOK, NEW cache \in Snapshot, UpTo(cache, disk)
    PROVE  UpTo(cache, Incremental(cache)) /\ UpTo(Incremental(cache), disk)
<1>1. \A f \in Paths : /\ cache[f] <= disk[f] /\ cache[f] \in Nat /\ disk[f] \in Nat
  BY Constants DEF UpTo, TypeOK, Snapshot, Version
<1> QED
  BY <1>1 DEF UpTo, Incremental

LEMMA ReconciledOrder ==
    ASSUME TypeOK, state.latest # None, UpTo(state.latest, disk),
           NEW written \in SUBSET Paths
    PROVE  /\ Reconciled(written) \in Snapshot
           /\ UpTo(state.latest, Reconciled(written))
           /\ UpTo(Reconciled(written), disk)
<1>1. state.latest \in Snapshot /\ disk \in Snapshot
  BY DEF TypeOK, State
<1>2. \A f \in Paths : /\ state.latest[f] <= disk[f] /\ state.latest[f] \in Nat
                      /\ disk[f] \in Nat
  BY <1>1, Constants DEF UpTo, Snapshot, Version
<1>3. Reconciled(written) \in Snapshot
  BY <1>1 DEF Reconciled, Snapshot
<1> QED
  BY <1>2, <1>3 DEF UpTo, Reconciled

(* Two windows of which one ends before the other begins share no change.  *)
LEMMA LaterChanges ==
    ASSUME NEW r \in Result, NEW q \in Result, UpTo(r.capture, q.before),
           UpTo(q.before, q.capture)
    PROVE  Diff(r.before, r.capture) \cap Diff(q.before, q.capture) = {}
<1> SUFFICES ASSUME NEW f \in Paths, NEW g \in Paths,
                    [path |-> f, ver |-> r.capture[f]] = [path |-> g, ver |-> q.capture[g]],
                    q.before[g] # q.capture[g]
             PROVE  FALSE
  BY DEF Diff
<1>1. f = g /\ r.capture[f] = q.capture[g]
  OBVIOUS
<1>2. /\ r.capture \in Snapshot /\ q.before \in Snapshot /\ q.capture \in Snapshot
  BY DEF Result
<1>3. /\ r.capture[f] \in Nat /\ q.before[f] \in Nat /\ q.capture[f] \in Nat
  BY <1>2, Constants DEF Snapshot, Version
<1>4. r.capture[f] <= q.before[f] /\ q.before[f] <= q.capture[f]
  BY <1>2, Constants DEF UpTo
<1> QED
  BY <1>1, <1>3, <1>4

-----------------------------------------------------------------------------
(* What each step does to the sidecar's snapshot and its window.           *)

(* Where the window begins, or None.                                       *)
Window == IF sc.job.pc = "none" THEN None ELSE sc.job.before

(* The sidecar's snapshot is taken from what it was, from the disk or from *)
(* the committed one: only the last can be older, and begins a window.     *)
Newer == /\ sc'.cache \in Snapshot /\ UpTo(sc'.cache, disk) /\ disk' = disk
         /\ sc.cache # None => UpTo(sc.cache, sc'.cache)
         /\ sc.cache = None => sc'.cache = disk

LEMMA CacheSteps ==
    ASSUME WholeInv, DiskInv, [Next]_vars
    PROVE  \/ sc'.cache = sc.cache /\ (Window' = Window \/ Window' = None)
           \/ sc'.cache = None /\ Window' = None
           \/ Newer /\ (Window' = Window \/ Window' = sc'.cache)
           \/ /\ Prepares /\ disk' = disk /\ Window' = state.latest /\ state.latest # None
              /\ sc'.cache \in Snapshot /\ UpTo(sc'.cache, disk)
              /\ UpTo(state.latest, sc'.cache)
<1>0. /\ sc \in Session /\ TypeOK /\ disk \in Snapshot /\ JobInv
      /\ sc.cache # None => sc.cache \in Snapshot
      /\ UpTo(disk, disk) /\ UpTo(sc.cache, disk)
  BY SessionType, UpToSelf DEF WholeInv, TypeOK, DiskInv
<1>1. CASE SameJob
  BY <1>1 DEF SameJob, Window
<1>2. CASE DrainPending \/ DrainCommitted \/ Ack
  BY <1>0, <1>2 DEF DrainPending, DrainCommitted, Ack, Serving, Session, Window
<1>3. CASE SessionStart \/ SidecarCrash
  BY <1>3 DEF SessionStart, SidecarCrash, Down, NoJob, Window
<1>4. CASE BeginRestored
  <2> DEFINE J == [NoJob EXCEPT !.pc = "window", !.req = Asked,
                                !.before = RestoredBefore]
  <2>1. PICK written \in SUBSET Paths :
          sc' = [sc EXCEPT !.restored = TRUE, !.cache = Reconciled(written), !.job = J]
    BY <1>4 DEF BeginRestored
  <2>2. J.before = state.latest /\ J.pc = "window"
    BY DEF NoJob, RestoredBefore
  <2> HIDE DEF J
  <2>3. sc'.cache = Reconciled(written) /\ Window' = state.latest
    BY <1>0, <2>1, <2>2 DEF Session, Window
  <2>4. state.latest # None /\ UpTo(state.latest, disk) /\ disk' = disk /\ Prepares
    BY <1>4 DEF BeginRestored, DiskInv
  <2> QED
    <3>1. /\ Reconciled(written) \in Snapshot
          /\ UpTo(state.latest, Reconciled(written))
          /\ UpTo(Reconciled(written), disk)
      BY <1>0, <2>4, ReconciledOrder
    <3> QED
      BY <2>3, <2>4, <3>1 DEF UpTo
<1>5. CASE Begin
  <2> DEFINE new == IF sc.cache = None THEN disk ELSE Incremental(sc.cache)
             J == [NoJob EXCEPT !.pc = "window", !.req = Asked, !.before = new]
  <2>1. new \in Snapshot
    BY <1>0, IncrementalType
  <2>2. /\ UpTo(new, disk)
        /\ sc.cache # None => UpTo(sc.cache, new)
        /\ sc.cache = None => new = disk
    BY <1>0, IncrementalOrder
  <2>3. sc' = [sc EXCEPT !.cache = new, !.journal = {}, !.job = J] /\ disk' = disk
    BY <1>5 DEF Begin
  <2>4. J.before = new /\ J.pc = "window"
    BY DEF NoJob
  <2> HIDE DEF new, J
  <2>5. sc'.cache = new /\ Window' = new
    BY <1>0, <2>3, <2>4 DEF Session, Window
  <2> QED
    <3>1. /\ sc'.cache \in Snapshot /\ disk' = disk
          /\ sc.cache = None => sc'.cache = disk
      BY <2>1, <2>2, <2>3, <2>5
    <3>2. UpTo(sc'.cache, disk) /\ (sc.cache # None => UpTo(sc.cache, sc'.cache))
      BY <2>2, <2>5 DEF UpTo
    <3>3. Newer
      BY <3>1, <3>2 DEF Newer
    <3> QED
      BY <2>5, <3>3
<1>6. CASE End
  <2> DEFINE new == Incremental(sc.cache)
             J == [sc.job EXCEPT !.pc = "persist", !.capture = new]
  <2>1. /\ new \in Snapshot /\ UpTo(new, disk) /\ UpTo(sc.cache, new)
        /\ sc.cache # None
    BY <1>0, <1>6, IncrementalType, IncrementalOrder DEF End, JobInv
  <2>2. sc'.cache = new /\ sc'.job = J /\ disk' = disk
    BY <1>0, <1>6 DEF End, Session, Job
  <2>3. J.pc = "persist" /\ J.before = sc.job.before /\ sc.job.pc = "window"
    BY <1>0, <1>6 DEF Session, Job, End
  <2> HIDE DEF new, J
  <2>4. Window' = Window
    BY <2>2, <2>3 DEF Window
  <2> QED
    BY <2>1, <2>2, <2>4 DEF Newer
<1>7. CASE Persist \/ PersistFails
  <2>1. sc' = [sc EXCEPT !.queue = Tail(@), !.job = NoJob]
    BY <1>7 DEF Persist, PersistFails
  <2>2. sc'.cache = sc.cache /\ sc'.job = NoJob
    BY <1>0, <2>1 DEF Session
  <2> QED
    BY <2>2 DEF NoJob, Window
<1>8. CASE Reconcile
  <2>1. sc'.cache = disk /\ Window' = Window /\ disk' = disk
    BY <1>0, <1>8 DEF Reconcile, Session, Window
  <2> QED
    BY <1>0, <2>1 DEF Newer
<1> QED
  BY <1>1, <1>2, <1>3, <1>4, <1>5, <1>6, <1>7, <1>8, RecorderJob DEF Next, Sidecar

(* The committed snapshot moves only to that of an acknowledged window.    *)
LEMMA LatestSteps ==
    ASSUME WholeInv, [Next]_vars
    PROVE  \/ state'.latest = state.latest
           \/ /\ Ack /\ IsPending(Asked) /\ Asked \in Procs /\ Asked \notin state.committed
              /\ sc.queue # <<>>
              /\ state'.latest = state.pending[Asked].capture
              /\ sc'.cache = sc.cache /\ Window' = None /\ disk' = disk
<1>1. ASSUME Ack
      PROVE  sc.queue # <<>> /\ sc'.cache = sc.cache /\ Window' = None /\ disk' = disk
  BY <1>1 DEF Ack, Serving, Window, WholeInv, TypeOK, Session
<1>2. ASSUME Ack, IsPending(Asked)
      PROVE  Asked \in Procs /\ Asked \notin state.committed
  BY <1>2, AckEffect DEF WholeInv, TransactionInv
<1> QED
  BY <1>1, <1>2, StateSteps, PersistEffect, AckEffect DEF Commits

LEMMA DiskGrows == TypeOK /\ [Next]_vars => UpTo(disk, disk')
<1> SUFFICES ASSUME TypeOK, [Next]_vars
             PROVE  UpTo(disk, disk')
  OBVIOUS
<1>1. ASSUME NEW f \in Paths, Edit(f)
      PROVE  UpTo(disk, disk')
  <2>1. \A g \in Paths : disk[g] \in Nat
    BY Constants DEF TypeOK, Snapshot, Version
  <2>2. disk' = [disk EXCEPT ![f] = @ + 1] /\ DOMAIN disk = Paths
    BY <1>1 DEF Edit, TypeOK, Snapshot
  <2>3. \A g \in Paths : disk'[g] = IF g = f THEN disk[g] + 1 ELSE disk[g]
    BY <2>2
  <2> QED
    BY <2>1, <2>3 DEF UpTo
<1>2. disk' = disk \/ \E f \in Paths : Edit(f)
  <2>1. ASSUME NEW f \in Paths, Notify(f) PROVE disk' = disk
    BY <2>1 DEF Notify
  <2>2. ASSUME Sidecar PROVE disk' = disk
    BY <2>2 DEF Sidecar, SessionStart, DrainPending, DrainCommitted,
       BeginRestored, Begin, End, Persist, PersistFails, Ack, Reconcile,
       SidecarCrash, LockExpires
  <2>3. ASSUME NEW p \in Procs, Recorder(p) PROVE disk' = disk
    BY <2>3 DEF Recorder, Look, Mark, Connect, Timeout, CaptureAfter,
       ReadSnapshot, WriteSnapshot, AppendChange, Acknowledge, Clear, Crash
  <2> QED
    BY <2>1, <2>2, <2>3 DEF Next, vars
<1>3. ASSUME disk' = disk
      PROVE  UpTo(disk, disk')
  BY <1>3, UpToSelf DEF TypeOK
<1> QED
  BY <1>1, <1>2, <1>3

(* The snapshots a session and its transactions hold.                      *)
LEMMA SnapshotTypes ==
    ASSUME WholeInv
    PROVE  /\ disk \in Snapshot /\ sc.cache \in Snapshot \cup {None}
           /\ state.latest \in Snapshot \cup {None}
           /\ Window \in Snapshot \cup {None}
           /\ Window # None => sc.cache \in Snapshot
           /\ sc.job.pc # "none" => Window = sc.job.before /\ Window # None
           /\ sc.job.pc = "none" => Window = None
           /\ sc.job.pc = "persist" => sc.job.capture = sc.cache
  BY SessionType, Constants DEF WholeInv, TypeOK, Window, JobInv

LEMMA NewTypes ==
    ASSUME WholeInv, [Next]_vars
    PROVE  /\ disk' \in Snapshot /\ sc'.cache \in Snapshot \cup {None}
           /\ state'.latest \in Snapshot \cup {None}
  BY NextTypes DEF TypeOK, Session, State

LEMMA DiskKept == WholeInv /\ DiskInv /\ [Next]_vars => DiskInv'
<1> SUFFICES ASSUME WholeInv, DiskInv, [Next]_vars
             PROVE  DiskInv'
  OBVIOUS
<1>0. /\ UpTo(disk, disk') /\ disk \in Snapshot /\ disk' \in Snapshot
      /\ UpTo(Window, sc.cache) /\ TypeOK
  BY DiskGrows, SnapshotTypes, NewTypes DEF WholeInv, DiskInv, UpTo
<1>1. UpTo(sc'.cache, disk')
  <2>1. UpTo(sc'.cache, disk)
    BY CacheSteps DEF DiskInv, Newer, UpTo
  <2> QED
    BY <1>0, <2>1, NewTypes, UpToTrans
<1>2. UpTo(state'.latest, disk')
  <2>1. UpTo(state'.latest, disk)
    <3>1. ASSUME IsPending(Asked), Asked \in Procs
          PROVE  UpTo(state.pending[Asked].capture, disk)
      <4>1. state.pending[Asked] = seen.prepared[Asked] /\ seen.prepared[Asked] # None
        BY <3>1 DEF WholeInv, TransactionInv, IsPending
      <4> QED
        BY <3>1, <4>1 DEF DiskInv
    <3> QED
      BY <3>1, LatestSteps DEF DiskInv
  <2> QED
    BY <1>0, <2>1, NewTypes, UpToTrans
<1>3. UpTo(Window', sc'.cache)
  <2>1. CASE sc'.cache = sc.cache /\ (Window' = Window \/ Window' = None)
    BY <1>0, <2>1 DEF UpTo
  <2>2. CASE sc'.cache = None
    BY <2>2 DEF UpTo
  <2>3. CASE Newer /\ Window' = Window
    <3>1. CASE Window = None
      BY <2>3, <3>1 DEF UpTo
    <3>2. CASE Window # None
      <4>1. /\ sc.cache \in Snapshot /\ Window \in Snapshot \cup {None}
            /\ UpTo(sc.cache, sc'.cache)
        BY <2>3, <3>2, SnapshotTypes, Constants DEF Newer
      <4>2. UpTo(Window, sc'.cache)
        BY <1>0, <2>3, <4>1, UpToTrans DEF Newer
      <4> QED
        BY <2>3, <4>2
    <3> QED
      BY <3>1, <3>2
  <2>4. CASE Newer /\ Window' = sc'.cache
    <3>1. UpTo(sc'.cache, sc'.cache)
      BY <2>4, UpToSelf DEF Newer
    <3> QED
      BY <2>4, <3>1
  <2>5. CASE Window' = state.latest /\ UpTo(state.latest, sc'.cache)
    BY <2>5
  <2> QED
    BY <2>1, <2>2, <2>3, <2>4, <2>5, CacheSteps
<1>4. ASSUME NEW r \in Procs, NEW t, t = seen'.prepared[r], t # None
      PROVE  UpTo(t.before, t.capture) /\ UpTo(t.capture, disk')
  <2>1. seen.prepared \in [Procs -> Result \cup {None}]
    BY <1>0 DEF TypeOK, Seen
  <2>2. UpTo(t.before, t.capture) /\ UpTo(t.capture, disk) /\ t \in Result
    <3>1. CASE t = seen.prepared[r]
      BY <1>4, <2>1, <3>1 DEF DiskInv
    <3>2. CASE Persist /\ t = Prepared
      <4>1. /\ t.before = Window /\ t.capture = sc.cache /\ t \in Result
        BY <3>2, SnapshotTypes, PersistEffect DEF Persist, Prepared
      <4> QED
        BY <1>0, <4>1 DEF DiskInv
    <3> QED
      BY <1>4, <2>1, <3>1, <3>2, StateSteps, PersistEffect, AckEffect
  <2>3. t.capture \in Snapshot
    BY <2>2 DEF Result
  <2> QED
    BY <1>0, <2>2, <2>3, UpToTrans
<1>5. sc'.job.pc # "none" => UpTo(sc'.job.before, sc'.cache)
  BY <1>3 DEF Window
<1> QED
  BY <1>1, <1>2, <1>4, <1>5 DEF DiskInv

-----------------------------------------------------------------------------
(* One request at a time.                                                  *)

(* A request is under way from the moment a process holds it.              *)
Begun(r) == \/ seen.prepared[r] # None
            \/ \E p \in Procs : cl[p].req = r
            \/ \E m \in Messages : m.req = r

(* The marker is created where there is none, and removed for a request    *)
(* that is committed, unless it is dropped.                                *)
LEMMA MarkerSteps ==
    ASSUME WholeInv, [Next]_vars, seen'.dropped = {}
    PROVE  marker' = marker \/ marker = None \/ marker \in state.committed
<1>0. TypeOK /\ seen \in Seen
  BY DEF WholeInv, TypeOK
<1>1. ASSUME NEW f \in Paths, Edit(f) \/ Notify(f) PROVE marker' = marker
  BY <1>1 DEF Edit, Notify
<1>2. ASSUME Sidecar PROVE marker' = marker
  BY <1>2 DEF Sidecar, SessionStart, DrainPending, DrainCommitted, BeginRestored,
     Begin, End, Persist, PersistFails, Ack, Reconcile, SidecarCrash, LockExpires
<1>3. ASSUME NEW p \in Procs, Mark(p) PROVE marker' = marker \/ marker = None
  BY <1>3 DEF Mark, Claimed
<1>4. ASSUME NEW p \in Procs, Clear(p)
      PROVE  marker' = marker \/ marker \in state.committed
  <2>1. CASE cl[p].acked /\ marker = cl[p].req
    BY <2>1 DEF WholeInv, ClientInv, ClientOK
  <2>2. CASE marker = cl[p].req /\ MayClear(p) /\ ~cl[p].acked
    <3>1. seen'.dropped = seen.dropped \cup {cl[p].req}
      BY <1>0, <1>4, <2>2 DEF Clear, Seen
    <3> QED
      BY <3>1
  <2> QED
    BY <1>4, <2>1, <2>2 DEF Clear
<1>5. ASSUME NEW p \in Procs, Recorder(p), ~Mark(p), ~Clear(p)
      PROVE  marker' = marker
  BY <1>5 DEF Recorder, Look, Connect, Timeout, CaptureAfter, ReadSnapshot,
     WriteSnapshot, AppendChange, Acknowledge, Crash
<1> QED
  BY <1>1, <1>2, <1>3, <1>4, <1>5 DEF Next, vars

(* A request begins with the marker.                                       *)
LEMMA BegunBefore ==
    ASSUME WholeInv, [Next]_vars, NEW r \in Procs, Begun(r)'
    PROVE  Begun(r) \/ r = marker'
<1>1. CASE seen'.prepared[r] # None
  <2>1. seen.prepared \in [Procs -> Result \cup {None}]
    BY DEF WholeInv, TypeOK, Seen
  <2>2. ASSUME Persist, r = sc.job.req
        PROVE  Begun(r)
    <3>1. Head(sc.queue) \in Messages /\ Head(sc.queue).req = r
      BY <2>2, PersistEffect, HeadMessage DEF Persist, WholeInv, JobInv, Asked
    <3> QED
      BY <3>1 DEF Begun
  <2>3. seen'.prepared[r] = seen.prepared[r] \/ (Persist /\ r = sc.job.req)
    BY <2>1, StateSteps, PersistEffect, AckEffect
  <2> QED
    BY <1>1, <2>2, <2>3 DEF Begun
<1>2. ASSUME NEW p \in Procs, cl'[p].req = r
      PROVE  Begun(r) \/ r = marker'
  <2>1. Moves(cl[p], cl'[p])
    BY AllStep DEF ClientStep
  <2>2. cl'[p].req \in {cl[p].req, marker', None}
    BY <2>1, EndedType DEF Moves
  <2> QED
    BY <1>2, <2>2, Constants DEF Begun
<1>3. ASSUME NEW m \in Messages', m.req = r
      PROVE  Begun(r)
  <2>1. CASE m \in Messages
    BY <1>3, <2>1 DEF Begun
  <2>2. ASSUME NEW p \in Procs, NEW op \in {"drain", "ack"}, sc' = Send(p, op),
               m \notin Messages
        PROVE  Begun(r)
    <3>1. m = [op |-> op, who |-> p, req |-> cl[p].req]
      BY <1>3, <2>2, SendMessages DEF WholeInv
    <3> QED
      BY <1>3, <3>1 DEF Begun
  <2> QED
    BY <1>3, <2>1, <2>2, QueueSteps
<1> QED
  BY <1>1, <1>2, <1>3 DEF Begun

LEMMA OneRequestKept ==
    ASSUME WholeInv, OneRequest, [Next]_vars, seen'.dropped = {}
    PROVE  OneRequest'
<1> SUFFICES ASSUME NEW r \in Procs, Begun(r)'
             PROVE  r \in state'.committed \/ r = marker'
  BY DEF OneRequest, Begun
<1>1. Begun(r) => r \in state.committed \/ r = marker
  BY DEF OneRequest, Begun
<1>2. state.committed \subseteq state'.committed
  BY AllGrow DEF Grows
<1> QED
  BY <1>1, <1>2, BegunBefore, MarkerSteps, Constants

(* The one at work.                                                        *)
LEMMA Alone ==
    ASSUME WholeInv, OneRequest, sc.queue # <<>>, Asked \notin state.committed,
           NEW q \in Procs, IsPending(q)
    PROVE  q = Asked
<1>1. Asked \in Procs /\ Head(sc.queue) \in Messages /\ Head(sc.queue).req = Asked
  BY HeadType, HeadMessage DEF WholeInv, Asked
<1>2. seen.prepared[q] # None /\ q \notin state.committed
  BY DEF WholeInv, TransactionInv, IsPending
<1> QED
  BY <1>1, <1>2 DEF OneRequest

-----------------------------------------------------------------------------
(* Each window begins where the committed snapshot is, or later.           *)

LEMMA CacheOrder ==
    ASSUME WholeInv, DiskInv, InOrder, [Next]_vars
    PROVE  UpTo(state'.latest, sc'.cache) /\ UpTo(state'.latest, Window')
<1>0. /\ UpTo(state.latest, sc.cache) /\ UpTo(state.latest, Window)
      /\ UpTo(state.latest, disk)
  BY SnapshotTypes DEF InOrder, DiskInv, UpTo
<1>1. CASE state'.latest = state.latest
  <2>1. CASE sc'.cache = sc.cache /\ (Window' = Window \/ Window' = None)
    BY <1>0, <1>1, <2>1 DEF UpTo
  <2>2. CASE sc'.cache = None /\ Window' = None
    BY <2>2 DEF UpTo
  <2>3. CASE Newer /\ (Window' = Window \/ Window' = sc'.cache)
    <3>1. UpTo(state.latest, sc'.cache)
      <4>1. CASE sc.cache = None
        BY <1>0, <2>3, <4>1 DEF Newer
      <4>2. CASE sc.cache # None
        <5>1. UpTo(sc.cache, sc'.cache) /\ sc.cache \in Snapshot
          BY <2>3, <4>2, SnapshotTypes DEF Newer
        <5> QED
          BY <1>0, <5>1, SnapshotTypes, NewTypes, UpToTrans
      <4> QED
        BY <4>1, <4>2
    <3> QED
      BY <1>0, <1>1, <2>3, <3>1
  <2>4. CASE /\ Window' = state.latest /\ state.latest # None
             /\ UpTo(state.latest, sc'.cache)
    <3>1. UpTo(state.latest, state.latest)
      BY <2>4, SnapshotTypes, UpToSelf
    <3> QED
      BY <1>1, <2>4, <3>1
  <2> QED
    BY <2>1, <2>2, <2>3, <2>4, CacheSteps
<1>2. CASE /\ IsPending(Asked) /\ Asked \in Procs
           /\ state'.latest = state.pending[Asked].capture
           /\ sc'.cache = sc.cache /\ Window' = None
  <2>1. UpTo(state.pending[Asked].capture, sc.cache)
    BY <1>2 DEF InOrder
  <2> QED
    BY <1>2, <2>1 DEF UpTo
<1> QED
  BY <1>1, <1>2, LatestSteps

LEMMA PendingOrder ==
    ASSUME WholeInv, DiskInv, OneRequest, InOrder, [Next]_vars,
           NEW r \in Procs, IsPending(r)', NEW t, t = state'.pending[r]
    PROVE  UpTo(state'.latest, t.before) /\ UpTo(t.capture, sc'.cache)
<1>0. state.pending \in [Procs -> Result \cup {None}]
  BY DEF WholeInv, TypeOK, State
<1>1. CASE Persist /\ r = sc.job.req
  <2>1. /\ t.before = Window /\ t.capture = sc.cache /\ state'.latest = state.latest
        /\ sc'.cache = sc.cache /\ sc.cache \in Snapshot /\ Window = sc.job.before
        /\ sc.job.pc # "none"
    <3>1. t = Prepared /\ state'.latest = state.latest /\ sc.job.pc = "persist"
      BY <1>0, <1>1, PersistEffect DEF Persist
    <3>2. sc'.cache = sc.cache
      BY <1>1 DEF Persist, WholeInv, TypeOK, Session
    <3> QED
      BY <3>1, <3>2, SnapshotTypes, SessionType DEF Prepared, WholeInv
  <2>2. UpTo(sc.cache, sc.cache) /\ UpTo(state.latest, Window)
    BY <2>1, UpToSelf DEF InOrder
  <2> QED
    BY <2>1, <2>2
<1>2. CASE t = state.pending[r] /\ IsPending(r)
  <2>1. /\ UpTo(state.latest, t.before) /\ UpTo(t.capture, sc.cache)
        /\ t \in Result /\ t = seen.prepared[r] /\ UpTo(t.capture, disk)
    <3>1. t \in Result
      BY <1>2, ResultType DEF WholeInv
    <3>2. t = seen.prepared[r] /\ seen.prepared[r] # None
      BY <1>2 DEF WholeInv, TransactionInv, IsPending
    <3> QED
      BY <1>2, <3>1, <3>2 DEF InOrder, DiskInv
  <2>2. t.capture \in Snapshot /\ t.capture \in Snapshot \cup {None}
    BY <2>1 DEF Result
  <2>3. state'.latest = state.latest
    <3>1. ASSUME Ack, IsPending(Asked), Asked \notin state.committed, sc.queue # <<>>
          PROVE  FALSE
      <4>1. r = Asked
        BY <1>2, <3>1, Alone
      <4>2. state'.pending[r] = None
        BY <1>0, <3>1, <4>1, AckEffect
      <4> QED
        BY <4>2 DEF IsPending
    <3> QED
      BY <3>1, LatestSteps
  <2>4. UpTo(t.capture, sc'.cache)
    <3>1. CASE sc'.cache = sc.cache
      BY <2>1, <3>1
    <3>2. CASE sc'.cache = None
      BY <3>2 DEF UpTo
    <3>3. CASE Newer
      <4>1. CASE sc.cache = None
        BY <2>1, <3>3, <4>1 DEF Newer
      <4>2. CASE sc.cache # None
        <5>1. UpTo(sc.cache, sc'.cache) /\ sc.cache \in Snapshot
          BY <3>3, <4>2, SnapshotTypes DEF Newer
        <5> QED
          BY <2>1, <2>2, <5>1, NewTypes, UpToTrans
      <4> QED
        BY <4>1, <4>2
    <3>4. CASE Prepares
      <4>1. sc.queue # <<>> /\ Asked \notin state.committed /\ ~IsPending(Asked)
        BY <3>4 DEF Prepares, Serving, IsCommitted, WholeInv, TransactionInv
      <4> QED
        BY <1>2, <4>1, Alone
    <3> QED
      BY <3>1, <3>2, <3>3, <3>4, CacheSteps
  <2> QED
    BY <2>1, <2>3, <2>4
<1>3. (Persist /\ r = sc.job.req) \/ (t = state.pending[r] /\ IsPending(r))
  BY <1>0, StateSteps, PersistEffect, AckEffect DEF IsPending
<1> QED
  BY <1>1, <1>2, <1>3

(* An acknowledged window becomes the committed snapshot, which is not     *)
(* older.                                                                  *)
LEMMA AckOrder ==
    ASSUME WholeInv, DiskInv, InOrder, [Next]_vars
    PROVE  state.latest # None =>
              UpTo(state.latest, state'.latest) /\ state'.latest \in Snapshot
<1> SUFFICES ASSUME state.latest # None
             PROVE  UpTo(state.latest, state'.latest) /\ state'.latest \in Snapshot
  OBVIOUS
<1>0. state.latest \in Snapshot
  BY SnapshotTypes
<1>1. CASE state'.latest = state.latest
  BY <1>0, <1>1, UpToSelf
<1>2. ASSUME IsPending(Asked), Asked \in Procs,
             state'.latest = state.pending[Asked].capture
      PROVE  UpTo(state.latest, state'.latest) /\ state'.latest \in Snapshot
  <2> DEFINE t == state.pending[Asked]
  <2>1. /\ t = seen.prepared[Asked] /\ seen.prepared[Asked] # None
        /\ t.before \in Snapshot /\ t.capture \in Snapshot
    <3>1. t = seen.prepared[Asked] /\ t # None
      BY <1>2 DEF WholeInv, TransactionInv, IsPending
    <3>2. t.before \in Snapshot /\ t.capture \in Snapshot
      BY <1>2, ResultType DEF WholeInv
    <3> QED
      BY <3>1, <3>2
  <2>2. UpTo(state.latest, t.before) /\ UpTo(t.before, t.capture)
    BY <1>2, <2>1 DEF InOrder, DiskInv
  <2> HIDE DEF t
  <2>3. UpTo(state.latest, t.capture)
    BY <1>0, <2>1, <2>2, UpToTrans
  <2> QED
    BY <1>2, <2>1, <2>3 DEF t
<1> QED
  BY <1>1, <1>2, LatestSteps

LEMMA CommittedOrder ==
    ASSUME WholeInv, DiskInv, InOrder, [Next]_vars,
           NEW r \in state'.committed, NEW t, t = seen'.prepared[r]
    PROVE  UpTo(t.capture, state'.latest)
<1>0. /\ seen.prepared \in [Procs -> Result \cup {None}] /\ state.committed \subseteq Procs
      /\ state.committed # {} => state.latest # None
  BY DEF WholeInv, TypeOK, Seen, State, TransactionInv
<1>1. CASE r \in state.committed
  <2>1. seen.prepared[r] # None /\ state.latest \in Snapshot
    BY <1>0, <1>1, SnapshotTypes DEF WholeInv, TransactionInv
  <2>2. t = seen.prepared[r]
    BY <1>0, <1>1, <2>1, AllGrow DEF Grows
  <2>3. t.capture \in Snapshot /\ UpTo(t.capture, state.latest)
    BY <1>0, <1>1, <2>1, <2>2, ResultType DEF InOrder, WholeInv
  <2>4. UpTo(state.latest, state'.latest) /\ state'.latest \in Snapshot
    BY <2>1, AckOrder, Constants
  <2> QED
    BY <2>1, <2>3, <2>4, UpToTrans
<1>2. CASE r \notin state.committed
  <2>1. Ack /\ r = Asked /\ IsPending(Asked)
    <3>1. Ack /\ r = Asked
      BY <1>2, StateSteps, PersistEffect, AckEffect
    <3> QED
      BY <1>2, <3>1, AckEffect
  <2>2. /\ state'.latest = state.pending[Asked].capture /\ seen' = seen
        /\ Asked \in Procs
    BY <2>1, AckEffect DEF Commits
  <2>3. t = state.pending[Asked] /\ t.capture \in Snapshot
    BY <2>1, <2>2, ResultType DEF WholeInv, TransactionInv
  <2> QED
    BY <2>2, <2>3, UpToSelf
<1> QED
  BY <1>1, <1>2

(* The windows prepared before the one that is written are committed.      *)
LEMMA ChangesApart ==
    ASSUME WholeInv, DiskInv, OneRequest, InOrder, [Next]_vars,
           NEW r \in Procs, NEW q \in Procs, r # q
    PROVE  (ChangesOf(r) \cap ChangesOf(q))' = {}
<1>0. /\ seen.prepared \in [Procs -> Result \cup {None}] /\ TypeOK /\ TransactionInv
      /\ state.committed \subseteq Procs
  BY DEF WholeInv, TypeOK, Seen, State
<1>1. CASE seen'.prepared = seen.prepared
  BY <1>1 DEF ChangesOf, InOrder
<1>2. ASSUME Persist, NEW n \in Procs, n = sc.job.req, NEW o \in Procs, o # n
      PROVE  (ChangesOf(n) \cap ChangesOf(o))' = {}
  <2>1. /\ seen'.prepared[n] = Prepared /\ seen'.prepared[o] = seen.prepared[o]
        /\ Prepared \in Result /\ Prepared # None
        /\ Prepared.before = Window /\ Prepared.capture = sc.cache
        /\ sc.job.pc # "none" /\ Window \in Snapshot
    <3>1. sc.job.pc = "persist"
      BY <1>2 DEF Persist
    <3>2. Window \in Snapshot
      BY <3>1, SnapshotTypes
    <3> QED
      BY <1>0, <1>2, <3>1, <3>2, PersistEffect, SnapshotTypes DEF Prepared
  <2>2. CASE seen.prepared[o] = None
    BY <2>1, <2>2 DEF ChangesOf
  <2>3. CASE seen.prepared[o] # None
    <3>1. o \in state.committed
      <4>1. sc.queue # <<>> /\ Asked = n /\ Asked \notin state.committed
        BY <1>2, PersistEffect DEF Persist, WholeInv, JobInv
      <4>2. ~IsPending(o)
        BY <1>2, <4>1, Alone
      <4> QED
        BY <1>0, <2>3, <4>2 DEF TransactionInv
    <3> DEFINE b == seen.prepared[o]
               t == Prepared
    <3>2. b \in Result /\ b.capture \in Snapshot /\ state.latest \in Snapshot
      BY <1>0, <2>3, <3>1, ResultType, SnapshotTypes DEF TransactionInv
    <3>3. UpTo(b.capture, state.latest) /\ UpTo(state.latest, t.before)
      BY <2>1, <3>1 DEF InOrder, Window
    <3>4. UpTo(t.before, t.capture)
      BY <2>1 DEF DiskInv, Window
    <3>5. /\ ChangesOf(o)' = Diff(b.before, b.capture)
          /\ ChangesOf(n)' = Diff(t.before, t.capture)
          /\ t \in Result /\ t.before \in Snapshot
      BY <2>1, <2>3 DEF ChangesOf
    <3> HIDE DEF b, t
    <3>6. UpTo(b.capture, t.before)
      BY <3>2, <3>3, <3>5, UpToTrans
    <3>7. Diff(b.before, b.capture) \cap Diff(t.before, t.capture) = {}
      BY <3>2, <3>4, <3>5, <3>6, LaterChanges
    <3> QED
      BY <3>5, <3>7
  <2> QED
    BY <2>2, <2>3
<1>3. CASE Persist
  <2>1. sc.job.req \in Procs
    BY <1>3, PersistEffect
  <2>2. ASSUME NEW n, n = sc.job.req
        PROVE  (ChangesOf(r) \cap ChangesOf(q))' = {}
    <3>1. CASE r = n \/ q = n
      BY <1>2, <1>3, <2>1, <2>2, <3>1
    <3>2. CASE r # n /\ q # n
      <4>1. seen'.prepared[r] = seen.prepared[r] /\ seen'.prepared[q] = seen.prepared[q]
        BY <1>0, <1>3, <2>2, <3>2, PersistEffect
      <4> QED
        BY <4>1 DEF ChangesOf, InOrder
    <3> QED
      BY <3>1, <3>2
  <2> QED
    BY <2>2
<1> QED
  BY <1>1, <1>3, StateSteps, AckEffect

LEMMA StepOrder == WholeInv /\ OrderInv /\ [Next]_vars => OrderInv'
<1> SUFFICES ASSUME WholeInv, OrderInv, [Next]_vars
             PROVE  OrderInv'
  OBVIOUS
<1>1. DiskInv'
  BY DiskKept DEF OrderInv
<1>2. ASSUME seen'.dropped = {}
      PROVE  OneRequest' /\ InOrder'
  <2>1. DiskInv /\ OneRequest /\ InOrder
    BY <1>2, AllGrow DEF Grows, OrderInv
  <2>2. UpTo(state'.latest, sc'.cache) /\ UpTo(state'.latest, Window')
    BY <2>1, CacheOrder
  <2>3. sc'.job.pc # "none" => UpTo(state'.latest, sc'.job.before)
    BY <2>2 DEF Window
  <2>4. \A r \in Procs : IsPending(r)' =>
          /\ UpTo(state'.latest, state'.pending[r].before)
          /\ UpTo(state'.pending[r].capture, sc'.cache)
    BY <2>1, PendingOrder
  <2>5. \A r \in state'.committed : UpTo(seen'.prepared[r].capture, state'.latest)
    BY <2>1, CommittedOrder
  <2>6. \A r, q \in Procs : r # q => (ChangesOf(r) \cap ChangesOf(q))' = {}
    BY <2>1, ChangesApart
  <2> QED
    BY <1>2, <2>1, <2>2, <2>3, <2>4, <2>5, <2>6, OneRequestKept DEF InOrder
<1> QED
  BY <1>1, <1>2 DEF OrderInv

LEMMA InitOrder == Init => OrderInv
<1> SUFFICES ASSUME Init
             PROVE  OrderInv
  OBVIOUS
<1>1. DiskInv
  BY DEF Init, DiskInv, UpTo, Down, NoJob
<1>2. OneRequest
  BY Constants DEF Init, OneRequest, Messages, Down, NotStarted
<1>3. InOrder
  BY DEF Init, InOrder, UpTo, Down, NoJob, IsPending, ChangesOf
<1> QED
  BY <1>1, <1>2, <1>3 DEF OrderInv

LEMMA Orders == Spec => [](WholeInv /\ OrderInv)
<1>1. Init => WholeInv /\ OrderInv
  BY InitWhole, InitOrder
<1>2. (WholeInv /\ OrderInv) /\ [Next]_vars => (WholeInv /\ OrderInv)'
  BY StepWhole, StepOrder
<1> QED
  BY <1>1, <1>2, PTL DEF Spec

(* No write is recorded by two transactions (sidecar.ts, drain; ingest.ts, *)
(* readOrCreateObservationRequest), as long as no request was dropped:     *)
(* neither a restart of the sidecar nor a retry reports a window again.    *)
THEOREM EachWriteOnce == Spec => []RecordedOnce
<1>1. WholeInv /\ OrderInv => RecordedOnce
  <2> SUFFICES ASSUME WholeInv, OrderInv, seen.dropped = {},
                      NEW e \in ledger, NEW f \in ledger,
                      e.via = "sidecar", f.via = "sidecar",
                      e.path = f.path, e.ver = f.ver
               PROVE  e.req = f.req
    BY DEF RecordedOnce
  <2>1. e.req \in Procs /\ f.req \in Procs
    BY DEF WholeInv, TypeOK, Entry
  <2>2. /\ [path |-> e.path, ver |-> e.ver] \in ChangesOf(e.req)
        /\ [path |-> e.path, ver |-> e.ver] \in ChangesOf(f.req)
    BY DEF WholeInv, CommittedWhole, OneWindow
  <2> QED
    BY <2>1, <2>2 DEF OrderInv, InOrder
<1> QED
  BY <1>1, Orders, PTL

(* The committed snapshot never goes back to an older one (sidecar.ts,     *)
(* ack), as long as no request was dropped: transactions are acknowledged  *)
(* in the order they were prepared.                                        *)
THEOREM CommitsInOrder == Spec => NeverBack
<1>1. ASSUME WholeInv, OrderInv, [Next]_vars, state.latest # None, seen.dropped = {},
             NEW f \in Paths
      PROVE  state'.latest[f] >= state.latest[f]
  <2>1. UpTo(state.latest, state'.latest) /\ state'.latest \in Snapshot
    BY <1>1, AckOrder DEF OrderInv
  <2>2. state.latest \in Snapshot /\ state'.latest # None
    BY <1>1, <2>1, SnapshotTypes, Constants
  <2>3. state.latest[f] \in Nat /\ state'.latest[f] \in Nat
    BY <2>1, <2>2, Constants DEF Snapshot, Version
  <2>4. state.latest[f] <= state'.latest[f]
    BY <1>1, <2>1, <2>2 DEF UpTo
  <2> QED
    BY <2>3, <2>4
<1>2. (WholeInv /\ OrderInv) /\ [Next]_vars =>
        [state.latest # None /\ seen.dropped = {} =>
            \A f \in Paths : state'.latest[f] >= state.latest[f]]_vars
  BY <1>1
<1> QED
  BY <1>2, Orders, PTL DEF Spec, NeverBack
===============================================================================
