--------------------------- MODULE RecorderJournal ---------------------------
(***************************************************************************)
(* The recorder's write path: host hooks append lines to one live journal  *)
(* file, and any number of short-lived ingest processes rename it aside,   *)
(* drain it into the ledger and delete it.                                 *)
(*                                                                         *)
(*   packages/recorder/src/journal.ts   appendJournalEntry                 *)
(*   packages/recorder/src/ingest.ts    ingestJournal and its helpers      *)
(*   packages/recorder/src/turn.ts      readTurnState, writeTurnState      *)
(*   packages/recorder/src/inflight.ts  readInFlightCalls                  *)
(*                                                                         *)
(* Processes share nothing but the file system and the ledger.  Each       *)
(* action is one system call of one process, or one ledger transaction;    *)
(* whatever a process does between two of them is local and is folded into *)
(* the neighbouring action.                                                *)
(***************************************************************************)
EXTENDS Integers, Sequences, FiniteSets

CONSTANTS
    Sessions,       \* host sessions recording into this checkout
    Calls,          \* tool calls, each with its own tool_use_id
    Owner,          \* the session that makes each call
    Rejectable,     \* calls whose events may fail to build or to append
    Ingesters,      \* slots in which an ingest process may run
    ClaimName,      \* names `journal.ndjson.<pid>.<ms>.processing` in use
    StaleClaim,     \* STALE_CLAIM_MS, in ticks
    AbandonedAfter, \* ABANDONED_AFTER_MS, in ticks
    TurnTTL,        \* TURN_STATE_TTL_MS, in ticks
    MaxTurns,       \* bound: prompts per session
    MaxCrashes,     \* bound: ingest processes that die
    MaxAdoptions,   \* bound: claims renamed as stale (two drains can trade
                    \*   one old claim for ever)
    HostUntil,      \* bound: last tick of host activity and of crashes
    MaxTime         \* bound: the clock stops here

Live == "journal.ndjson"    \* the path hooks append to
Gone == "unlinked"          \* where a handle points once its file is removed
Shut == "closed"            \* the path of a handle that is not open
Path == ClaimName \cup {Live}
Writer == Sessions \cup Calls \cup Ingesters

ASSUME OwnerAssumption == Owner \in [Calls -> Sessions]
ASSUME RejectableAssumption == Rejectable \subseteq Calls
ASSUME NameAssumption == \A n \in ClaimName : n \notin {Live, Gone, Shut}
ASSUME WriterAssumption ==
    /\ Sessions \cap Calls = {}
    /\ Sessions \cap Ingesters = {}
    /\ Calls \cap Ingesters = {}
ASSUME BoundAssumption ==
    /\ {StaleClaim, AbandonedAfter, TurnTTL, MaxTurns} \subseteq Nat
    /\ {MaxCrashes, MaxAdoptions, HostUntil, MaxTime} \subseteq Nat

VARIABLES
    now,        \* the wall clock every process reads
    turnNo,     \* the prompt each session is on; 0 before the first
    call,       \* where each call is in its life
    callTurn,   \* the prompt each call was made for
    startedAt,  \* when each call's start hook ran
    files,      \* the journal and its claims: contents and mtime
    handle,     \* what each writer has open, and the line it is about to write
    turnFile,   \* turns.json: the open turn of each session
    ledger,     \* the task of every completion recorded for each call
    rejected,   \* calls whose completion line is in some `.rejected` file
    ing,        \* the local state of each ingest process
    crashes,    \* ingest processes that died so far
    adoptions,  \* stale claims adopted so far
    straddled   \* history: lines whose append was open across a rename

hostVars == <<turnNo, call, callTurn, startedAt>>
diskVars == <<files, handle>>
sinkVars == <<turnFile, ledger, rejected>>
histVars == <<crashes, adoptions, straddled>>
vars == <<now, hostVars, diskVars, sinkVars, ing, histVars>>

-----------------------------------------------------------------------------
(* Data.                                                                   *)

Task == 0 .. MaxTurns       \* 0 is the null task
Position == Nat \ {0}
Time == 0 .. MaxTime

Entry == [kind : {"marker", "start", "post"}, who : Sessions \cup Calls,
          turn : Task, at : Time]
NoEntry == [kind |-> "none", who |-> Shut, turn |-> 0, at |-> 0]
Marker(s, t, at) == [kind |-> "marker", who |-> s, turn |-> t, at |-> at]
Start(c, at) == [kind |-> "start", who |-> c, turn |-> 0, at |-> at]
Post(c) == [kind |-> "post", who |-> c, turn |-> 0, at |-> 0]

File == [exists : BOOLEAN, lines : Seq(Entry), mtime : Time]
NoFile == [exists |-> FALSE, lines |-> <<>>, mtime |-> 0]

Handle == [path : Path \cup {Gone}, entry : Entry]
Closed == [path |-> Shut, entry |-> NoEntry]
IsOpen(w) == handle[w].path # Shut

OpenTurn == [task : Task, at : Time]
NoTurn == [task |-> 0, at |-> 0]

Idle == [pc |-> "idle", held |-> <<>>, todo |-> {}, listedAt |-> 0,
         next |-> 1, lines |-> <<>>, turns |-> [s \in Sessions |-> NoTurn],
         unfinished |-> {}, rejects |-> {}]
IngestState ==
    [pc : {"idle", "list", "adopt", "drain", "remove", "carry"},
     held : Seq(ClaimName), todo : SUBSET ClaimName, listedAt : Time,
     next : Position, lines : Seq(Entry), turns : [Sessions -> OpenTurn],
     unfinished : SUBSET Entry, rejects : SUBSET Calls]

Lines(p) == {files[p].lines[i] : i \in 1 .. Len(files[p].lines)}
Held(p) == {ing[p].held[i] : i \in 1 .. Len(ing[p].held)}

(* A new name embeds pid and milliseconds, so it is neither on disk nor    *)
(* remembered by a running process; which one it is does not matter.       *)
FreshNames == {n \in ClaimName : /\ ~files[n].exists
                                 /\ \A p \in Ingesters : n \notin Held(p)
                                 /\ \A w \in Writer : handle[w].path # n}
NewName == CHOOSE n \in FreshNames : TRUE

-----------------------------------------------------------------------------
(* appendJournalEntry: appendFileSync opens (creating the file), then      *)
(* writes.  The line carries the time its caller read before the open.     *)

Open(w, e) ==
    /\ handle' = [handle EXCEPT ![w] = [path |-> Live, entry |-> e]]
    /\ files' = IF files[Live].exists THEN files
                ELSE [files EXCEPT ![Live] =
                        [exists |-> TRUE, lines |-> <<>>, mtime |-> now]]

Write(w) ==
    /\ IsOpen(w)
    /\ handle' = [handle EXCEPT ![w] = Closed]
    /\ files' = LET p == handle[w].path IN
                IF p = Gone THEN files
                ELSE [files EXCEPT ![p].lines = Append(@, handle[w].entry),
                                   ![p].mtime = now]
    /\ UNCHANGED <<now, turnNo, callTurn, startedAt, sinkVars, histVars>>

(* Mutated form: the journal is copied aside instead of renamed.           *)
RenameToCopies(from, to) ==
    /\ files' = [files EXCEPT ![to] = files[from]]
    /\ UNCHANGED handle

(* renameSync keeps contents and mtime, and open handles follow the file.  *)
RenameTo(from, to) ==
    /\ files' = [files EXCEPT ![to] = files[from], ![from] = NoFile]
    /\ handle' = [w \in Writer |-> IF handle[w].path = from
                                   THEN [handle[w] EXCEPT !.path = to]
                                   ELSE handle[w]]

-----------------------------------------------------------------------------
(* The host: prompts and tool calls, each announced by a hook the host     *)
(* waits for.                                                              *)

Prompt(s) ==
    /\ now <= HostUntil
    /\ turnNo[s] < MaxTurns
    /\ ~IsOpen(s)
    /\ \A c \in Calls : Owner[c] = s => call[c] \in {"new", "done"}
    /\ turnNo' = [turnNo EXCEPT ![s] = @ + 1]
    /\ Open(s, Marker(s, turnNo[s] + 1, now))
    /\ UNCHANGED <<now, call, callTurn, startedAt, sinkVars, ing, histVars>>

StartCall(c) ==
    /\ now <= HostUntil
    /\ call[c] = "new"
    /\ turnNo[Owner[c]] > 0
    /\ ~IsOpen(Owner[c])
    /\ call' = [call EXCEPT ![c] = "starting"]
    /\ callTurn' = [callTurn EXCEPT ![c] = turnNo[Owner[c]]]
    /\ startedAt' = [startedAt EXCEPT ![c] = now]
    /\ Open(c, Start(c, now))
    /\ UNCHANGED <<now, turnNo, sinkVars, ing, histVars>>

FinishCall(c) ==
    /\ now <= HostUntil
    /\ call[c] = "running"
    /\ call' = [call EXCEPT ![c] = "finishing"]
    /\ Open(c, Post(c))
    /\ UNCHANGED <<now, turnNo, callTurn, startedAt, sinkVars, ing, histVars>>

WriteCall(c) ==
    /\ Write(c)
    /\ call' = [call EXCEPT ![c] = IF @ = "starting" THEN "running" ELSE "done"]
    /\ UNCHANGED ing

WriteMarker(s) == Write(s) /\ UNCHANGED <<call, ing>>

-----------------------------------------------------------------------------
(* ingestJournal, step by step.                                            *)

At(p, pc) == ing[p].pc = pc

(* claimJournal: existsSync and renameSync.  The rename fails when another *)
(* ingest got there first, and may fail while a writer holds the file open *)
(* (it does not everywhere: then the writer's line lands in the claim).    *)
Claim(p) ==
    /\ At(p, "idle")
    /\ \/ /\ files[Live].exists
          /\ FreshNames # {}
          /\ RenameTo(Live, NewName)
          /\ ing' = [ing EXCEPT ![p].pc = "list", ![p].held = <<NewName>>]
          /\ straddled' = straddled \cup
                {handle[w].entry : w \in {v \in Writer : handle[v].path = Live}}
       \/ /\ \/ ~files[Live].exists
             \/ \E w \in Writer : handle[w].path = Live
          /\ ing' = [ing EXCEPT ![p].pc = "list"]
          /\ UNCHANGED <<diskVars, straddled>>
    /\ UNCHANGED <<now, hostVars, sinkVars, crashes, adoptions>>

(* adoptStaleClaims: readdirSync, and the time its age checks use.         *)
ListClaims(p) ==
    /\ At(p, "list")
    /\ ing' = [ing EXCEPT ![p].pc = "adopt",
                          ![p].todo = {n \in ClaimName : files[n].exists},
                          ![p].listedAt = now]
    /\ UNCHANGED <<now, hostVars, diskVars, sinkVars, histVars>>

(* Mutated form: no claim ever counts as abandoned.                        *)
StaleNever(p, n) == FALSE

(* One directory entry, in any order: a stale one that is still there is   *)
(* renamed to a name of this process's own.  Past the bound the rename is  *)
(* taken to fail, which the code answers by skipping the entry.            *)
Stale(p, n) == files[n].exists /\ ing[p].listedAt - files[n].mtime >= StaleClaim

Adopt(p, n) ==
    /\ At(p, "adopt")
    /\ n \in ing[p].todo
    /\ IF Stale(p, n) /\ adoptions < MaxAdoptions
       THEN /\ FreshNames # {}
            /\ RenameTo(n, NewName)
            /\ ing' = [ing EXCEPT ![p].todo = @ \ {n},
                                  ![p].held = Append(@, NewName)]
            /\ adoptions' = adoptions + 1
       ELSE /\ ing' = [ing EXCEPT ![p].todo = @ \ {n}]
            /\ UNCHANGED <<diskVars, adoptions>>
    /\ UNCHANGED <<now, hostVars, sinkVars, crashes, straddled>>

(* Nothing claimed: the early return.                                      *)
NothingToDrain(p) ==
    /\ At(p, "adopt") /\ ing[p].todo = {} /\ ing[p].held = <<>>
    /\ ing' = [ing EXCEPT ![p] = Idle]
    /\ UNCHANGED <<now, hostVars, diskVars, sinkVars, histVars>>

(* readTurnState: turns older than the TTL are dropped.                    *)
Current(turns) == [s \in Sessions |-> IF turns[s].at < now - TurnTTL
                                      THEN NoTurn ELSE turns[s]]

ReadTurns(p) ==
    /\ At(p, "adopt") /\ ing[p].todo = {} /\ ing[p].held # <<>>
    /\ ing' = [ing EXCEPT ![p].pc = "drain", ![p].turns = Current(turnFile)]
    /\ UNCHANGED <<now, hostVars, diskVars, sinkVars, histVars>>

(* drainClaim's readFileSync, claim by claim: one that is gone reads as no *)
(* lines.                                                                  *)
ReadClaim(p) ==
    /\ At(p, "drain") /\ ing[p].lines = <<>>
    /\ ing[p].next <= Len(ing[p].held)
    /\ LET n == ing[p].held[ing[p].next] IN
       ing' = [ing EXCEPT ![p].lines = files[n].lines, ![p].next = @ + 1]
    /\ UNCHANGED <<now, hostVars, diskVars, sinkVars, histVars>>

(* The three kinds of line.  A start is remembered; a marker opens a turn; *)
(* a completion forgets its start and is one atomic append to the ledger,  *)
(* or is set aside when its events cannot be built or appended.            *)
WithoutStart(p, c) == {e \in ing[p].unfinished : e.who # c}

(* Mutated form: a start counts as a completion.                           *)
DrainStartRecords(p, e) ==
    /\ e.kind = "start"
    /\ ing' = [ing EXCEPT ![p].lines = Tail(@)]
    /\ ledger' = [ledger EXCEPT ![e.who] = Append(@, 0)]

DrainStart(p, e) ==
    /\ e.kind = "start"
    /\ ing' = [ing EXCEPT ![p].lines = Tail(@),
                          ![p].unfinished = WithoutStart(p, e.who) \cup {e}]
    /\ UNCHANGED ledger

(* Mutated forms: a marker that cannot replace an open turn; one that      *)
(* closes an open turn.                                                    *)
DrainMarkerFirstOnly(p, e) ==
    /\ e.kind = "marker"
    /\ ing' = [ing EXCEPT ![p].lines = Tail(@),
                          ![p].turns[e.who] = IF @ = NoTurn
                             THEN [task |-> e.turn, at |-> e.at] ELSE @]
    /\ UNCHANGED ledger
DrainMarkerToggles(p, e) ==
    /\ e.kind = "marker"
    /\ ing' = [ing EXCEPT ![p].lines = Tail(@),
                          ![p].turns[e.who] =
                             [task |-> IF @.task = 0 THEN e.turn ELSE 0,
                              at |-> e.at]]
    /\ UNCHANGED ledger

DrainMarker(p, e) ==
    /\ e.kind = "marker"
    /\ ing' = [ing EXCEPT ![p].lines = Tail(@),
                          ![p].turns[e.who] = [task |-> e.turn, at |-> e.at]]
    /\ UNCHANGED ledger

DrainPost(p, e) ==
    /\ e.kind = "post"
    /\ ing' = [ing EXCEPT ![p].lines = Tail(@),
                          ![p].unfinished = WithoutStart(p, e.who)]
    /\ ledger' = [ledger EXCEPT ![e.who] =
                    Append(@, ing[p].turns[Owner[e.who]].task)]

DrainReject(p, e) ==
    /\ e.kind = "post" /\ e.who \in Rejectable
    /\ ing' = [ing EXCEPT ![p].lines = Tail(@),
                          ![p].unfinished = WithoutStart(p, e.who),
                          ![p].rejects = @ \cup {e.who}]
    /\ UNCHANGED ledger

DrainLine(p) ==
    /\ At(p, "drain") /\ ing[p].lines # <<>>
    /\ LET e == Head(ing[p].lines) IN
       DrainStart(p, e) \/ DrainMarker(p, e) \/ DrainPost(p, e)
                        \/ DrainReject(p, e)
    /\ UNCHANGED <<now, hostVars, diskVars, turnFile, rejected, histVars>>

(* Mutated form: the rejects are never written.                            *)
WriteRejectedNothing(p) ==
    /\ At(p, "drain") /\ ing[p].lines = <<>>
    /\ ing[p].next > Len(ing[p].held)
    /\ ing' = [ing EXCEPT ![p].pc = "remove", ![p].next = 1,
                          ![p].rejects = {}]
    /\ UNCHANGED <<now, hostVars, diskVars, sinkVars, histVars>>

(* What could not be recorded is written beside the first claim.           *)
WriteRejected(p) ==
    /\ At(p, "drain") /\ ing[p].lines = <<>>
    /\ ing[p].next > Len(ing[p].held)
    /\ rejected' = rejected \cup ing[p].rejects
    /\ ing' = [ing EXCEPT ![p].pc = "remove", ![p].next = 1,
                          ![p].rejects = {}]
    /\ UNCHANGED <<now, hostVars, diskVars, turnFile, ledger, histVars>>

(* Mutated form: off by one at the cutoff.                                 *)
CarriedAfter(e) == e.at > now - AbandonedAfter

(* rmSync with force, one claim at a time.  After the last one carryForward *)
(* reads the clock and leaves behind the starts older than the cutoff.     *)
Carried(e) == e.at >= now - AbandonedAfter

RemoveClaim(p) ==
    /\ At(p, "remove") /\ ing[p].next <= Len(ing[p].held)
    /\ LET n == ing[p].held[ing[p].next] IN
       /\ files' = [files EXCEPT ![n] = NoFile]
       /\ handle' = [w \in Writer |-> IF handle[w].path = n
                                      THEN [handle[w] EXCEPT !.path = Gone]
                                      ELSE handle[w]]
    /\ ing' = IF ing[p].next < Len(ing[p].held)
              THEN [ing EXCEPT ![p].next = @ + 1]
              ELSE [ing EXCEPT ![p].pc = "carry",
                               ![p].unfinished = {e \in @ : Carried(e)}]
    /\ UNCHANGED <<now, hostVars, sinkVars, histVars>>

(* Each start goes back to the live journal in an append of its own.       *)
CarryOpen(p) ==
    /\ At(p, "carry") /\ ~IsOpen(p)
    /\ \E e \in ing[p].unfinished :
        /\ Open(p, e)
        /\ ing' = [ing EXCEPT ![p].unfinished = @ \ {e}]
    /\ UNCHANGED <<now, hostVars, sinkVars, histVars>>

CarryWrite(p) == Write(p) /\ UNCHANGED <<call, ing>>

(* writeTurnState replaces the whole file; the process then exits.         *)
SaveTurns(p) ==
    /\ At(p, "carry") /\ ~IsOpen(p) /\ ing[p].unfinished = {}
    /\ turnFile' = Current(ing[p].turns)
    /\ ing' = [ing EXCEPT ![p] = Idle]
    /\ UNCHANGED <<now, hostVars, diskVars, ledger, rejected, histVars>>

Ingest(p) ==
    \/ Claim(p) \/ ListClaims(p) \/ (\E n \in ClaimName : Adopt(p, n))
    \/ NothingToDrain(p) \/ ReadTurns(p) \/ ReadClaim(p) \/ DrainLine(p)
    \/ WriteRejected(p) \/ RemoveClaim(p) \/ CarryOpen(p) \/ CarryWrite(p)
    \/ SaveTurns(p)

(* The process dies, or an exception reaches ingest-bin's catch (a ledger  *)
(* that does not open, a disk that is full): its claims stay on disk.      *)
Crash(p) ==
    /\ crashes < MaxCrashes /\ now <= HostUntil
    /\ ~At(p, "idle")
    /\ crashes' = crashes + 1
    /\ ing' = [ing EXCEPT ![p] = Idle]
    /\ handle' = [handle EXCEPT ![p] = Closed]
    /\ UNCHANGED <<now, hostVars, files, sinkVars, adoptions, straddled>>

(* Past HostUntil the clock waits for open appends, so that the last write *)
(* leaves MaxTime - HostUntil ticks for its file to become stale.          *)
Tick ==
    /\ now < MaxTime
    /\ now >= HostUntil => \A w \in Writer : ~IsOpen(w)
    /\ now' = now + 1
    /\ UNCHANGED <<hostVars, diskVars, sinkVars, ing, histVars>>

-----------------------------------------------------------------------------
Init ==
    /\ now = 0
    /\ turnNo = [s \in Sessions |-> 0]
    /\ call = [c \in Calls |-> "new"]
    /\ callTurn = [c \in Calls |-> 0]
    /\ startedAt = [c \in Calls |-> 0]
    /\ files = [p \in Path |-> NoFile]
    /\ handle = [w \in Writer |-> Closed]
    /\ turnFile = [s \in Sessions |-> NoTurn]
    /\ ledger = [c \in Calls |-> <<>>]
    /\ rejected = {}
    /\ ing = [p \in Ingesters |-> Idle]
    /\ crashes = 0
    /\ adoptions = 0
    /\ straddled = {}

Next ==
    \/ \E s \in Sessions : Prompt(s) \/ WriteMarker(s)
    \/ \E c \in Calls : StartCall(c) \/ FinishCall(c) \/ WriteCall(c)
    \/ \E p \in Ingesters : Ingest(p) \/ Crash(p)
    \/ Tick

Spec == Init /\ [][Next]_vars

(* A process that runs keeps running, an append once open is written, and  *)
(* ingests go on being launched: every Stop and every report starts one.   *)
FairSpec ==
    /\ Spec
    /\ \A s \in Sessions : WF_vars(WriteMarker(s))
    /\ \A c \in Calls : WF_vars(WriteCall(c))
    /\ \A p \in Ingesters : WF_vars(Ingest(p))
    /\ WF_vars(Tick)

-----------------------------------------------------------------------------
(* Properties.                                                             *)

(* Every variable has its type.                                            *)
TypeOK ==
    /\ now \in Time
    /\ turnNo \in [Sessions -> Task]
    /\ call \in [Calls -> {"new", "starting", "running", "finishing", "done"}]
    /\ callTurn \in [Calls -> Task]
    /\ startedAt \in [Calls -> Time]
    /\ files \in [Path -> File]
    /\ handle \in [Writer -> Handle \cup {Closed}]
    /\ turnFile \in [Sessions -> OpenTurn]
    /\ ledger \in [Calls -> Seq(Task)]
    /\ rejected \in SUBSET Calls
    /\ ing \in [Ingesters -> IngestState]
    /\ crashes \in 0 .. MaxCrashes
    /\ adoptions \in 0 .. MaxAdoptions
    /\ straddled \in SUBSET Entry

Settled(c) == ledger[c] # <<>> \/ c \in rejected
Journalled(c) == call[c] = "done"
OnDisk(e) == \E p \in Path : e \in Lines(p)

(* No completion is lost: once the hook has written a call's completion it *)
(* is in the journal, in some claim, in the ledger or set aside, whatever  *)
(* dies and whoever adopts what.  Only a line whose append was open across *)
(* a rename is excepted.                                                   *)
NoLoss ==
    \A c \in Calls : Journalled(c) =>
        Settled(c) \/ OnDisk(Post(c)) \/ Post(c) \in straddled

(* NoLoss is not inductive: it needs to know what a drain has dealt with   *)
(* before it unlinks a claim, and which handles can still grow one.        *)
Accounted(c) == Settled(c) \/ Post(c) \in straddled
Remaining(p) == {ing[p].lines[i] : i \in 1 .. Len(ing[p].lines)}

(* A path without a file has no lines, and a handle has a file.            *)
FilesOK ==
    /\ \A q \in Path : ~files[q].exists => files[q].lines = <<>>
    /\ \A w \in Writer : handle[w].path \in Path =>
                            files[handle[w].path].exists

(* Only a straddled line can still land in a claim, or nowhere; a call's   *)
(* handle holds the line its state says.                                   *)
HandlesOK ==
    /\ \A w \in Writer : handle[w].path \notin {Live, Shut} =>
                            handle[w].entry \in straddled
    /\ \A c \in Calls :
          /\ IsOpen(c) => call[c] \in {"starting", "finishing"}
          /\ IsOpen(c) /\ call[c] = "finishing" => handle[c].entry = Post(c)

(* What a drain has read it has accounted for, or still has in hand; what  *)
(* it is about to unlink is all accounted for.                             *)
DrainOK(p) ==
    /\ ing[p].pc \in {"idle", "list", "adopt"} => ing[p].next = 1
    /\ ing[p].pc = "drain" =>
          \A k \in 1 .. Len(ing[p].held) : \A c \in Calls :
              k < ing[p].next /\ Post(c) \in Lines(ing[p].held[k]) =>
                 \/ Accounted(c)
                 \/ c \in ing[p].rejects
                 \/ Post(c) \in Remaining(p)
    /\ ing[p].pc = "remove" =>
          \A k \in 1 .. Len(ing[p].held) : \A c \in Calls :
              Post(c) \in Lines(ing[p].held[k]) => Accounted(c)

DrainsOK == \A p \in Ingesters : DrainOK(p)

LossInv == TypeOK /\ FilesOK /\ HandlesOK /\ DrainsOK /\ NoLoss

(* "no entry is observed twice": a call has at most one completion.        *)
RecordedOnce == \A c \in Calls : Len(ledger[c]) <= 1

(* Drains that run at once never share a line: what is recorded twice was  *)
(* in a claim that some ingest adopted.                                    *)
OncePerClaim == adoptions = 0 => RecordedOnce

(* A running call stays visible: until its start is older than the cutoff, *)
(* the start is in a file readInFlightCalls scans, or some drain has begun *)
(* removing its claim and is about to put it back (or the append of the    *)
(* start was itself open across a rename).  A drain that dies there takes  *)
(* the start with it.                                                      *)
Starts(c, E) == {e \in E : e.kind = "start" /\ e.who = c}
BeingCarried(p) ==
    {handle[p].entry} \cup
    (IF ing[p].pc \in {"remove", "carry"} THEN ing[p].unfinished ELSE {})
RunningStartKept ==
    crashes = 0 => \A c \in Calls :
        call[c] = "running" /\ startedAt[c] >= now - AbandonedAfter =>
            \/ \E p \in Path : Starts(c, Lines(p)) # {}
            \/ \E p \in Ingesters : Starts(c, BeingCarried(p)) # {}
            \/ Starts(c, straddled) # {}

(* What those two need to know, and ImplementsLog.  A line that says a     *)
(* call is complete was made by that call, and is on disk, or in the hands *)
(* of a drain, only once its hook has returned; starts alone are carried.  *)
PostDone(e) == e.kind = "post" => e.who \in Calls /\ call[e.who] = "done"
PostsMade ==
    /\ \A q \in Path : \A e \in Lines(q) : PostDone(e)
    /\ \A p \in Ingesters :
          /\ \A e \in Remaining(p) : PostDone(e)
          /\ \A c \in ing[p].rejects : call[c] = "done"
          /\ \A e \in ing[p].unfinished : e.kind = "start"
    /\ \A w \in Writer : handle[w].entry.kind = "post" =>
          w \in Calls /\ call[w] = "finishing" /\ handle[w].entry = Post(w)

(* A line is still to be drained when it is in the journal, or in a claim  *)
(* some drain holds and has not read; it is in hand once it was read.      *)
IsPost(e, c) == e.kind = "post" /\ e.who = c
UnreadBy(p, q) == /\ ing[p].pc \in {"list", "adopt", "drain"}
                  /\ \E k \in ing[p].next .. Len(ing[p].held) : ing[p].held[k] = q
Unread(q) == q = Live \/ \E p \in Ingesters : UnreadBy(p, q)
ToDrain(c, q, i) ==
    q \in Path /\ Unread(q) /\ i \in 1 .. Len(files[q].lines) /\ IsPost(files[q].lines[i], c)
InHand(c, p, i) ==
    p \in Ingesters /\ i \in 1 .. Len(ing[p].lines) /\ IsPost(ing[p].lines[i], c)

(* Until a claim is adopted, no two drains hold the same claim, and a      *)
(* completion is to be drained, or in hand, or recorded, in one place.     *)
HeldApart ==
    /\ \A p \in Ingesters : Len(ing[p].held) <= 1
    /\ \A p \in Ingesters : ing[p].pc = "idle" => ing[p].held = <<>>
    /\ \A p, q \in Ingesters : p # q => Held(p) \cap Held(q) = {}
OnePlace(c) ==
    /\ \A q, r \in Path, i, j \in Nat : ToDrain(c, q, i) /\ ToDrain(c, r, j) => q = r /\ i = j
    /\ \A p, r \in Ingesters, i, j \in Nat : InHand(c, p, i) /\ InHand(c, r, j) => p = r /\ i = j
    /\ \A q \in Path, p \in Ingesters, i, j \in Nat : ~(ToDrain(c, q, i) /\ InHand(c, p, j))
    /\ Len(ledger[c]) <= 1
    /\ call[c] # "done" => ledger[c] = <<>>
    /\ ledger[c] # <<>> =>
          /\ \A q \in Path, i \in Nat : ~ToDrain(c, q, i)
          /\ \A p \in Ingesters, i \in Nat : ~InHand(c, p, i)
PlacesInv == adoptions = 0 => HeldApart /\ \A c \in Calls : OnePlace(c)

(* A start line says when its call was started, and is seen once its hook  *)
(* has returned.                                                           *)
StartTrue(e) == e.kind = "start" =>
    e.who \in Calls /\ call[e.who] \notin {"new", "starting"} /\ e.at = startedAt[e.who]
StartsTrue ==
    /\ \A q \in Path : \A e \in Lines(q) : StartTrue(e)
    /\ \A p \in Ingesters : \A e \in Remaining(p) \cup ing[p].unfinished : StartTrue(e)
    /\ \A w \in Writer \ Calls : StartTrue(handle[w].entry)
    /\ \A c \in Calls :
          /\ call[c] = "starting" => handle[c].entry = Start(c, startedAt[c])
          /\ handle[c].entry.kind = "start" => call[c] = "starting"

(* A drain that has read the start of a running call remembers it.         *)
RunningLately(c) ==
    /\ call[c] = "running" /\ startedAt[c] >= now - AbandonedAfter
    /\ Starts(c, straddled) = {}
Remembered(p, c) ==
    /\ ing[p].pc = "drain" => \A k \in 1 .. Len(ing[p].held) :
          k < ing[p].next /\ Starts(c, Lines(ing[p].held[k])) # {} =>
             Starts(c, ing[p].unfinished \cup Remaining(p)) # {}
    /\ ing[p].pc = "remove" => \A k \in 1 .. Len(ing[p].held) :
          Starts(c, Lines(ing[p].held[k])) # {} => Starts(c, ing[p].unfinished) # {}
StartsInv ==
    crashes = 0 => /\ \A c \in Calls, p \in Ingesters : RunningLately(c) => Remembered(p, c)
                   /\ RunningStartKept

(* A completion is recorded for the turn its call was made in, or for no   *)
(* turn at all (unless the hook append of that turn's marker was open      *)
(* across a rename).                                                       *)
OwnTurn ==
    \A c \in Calls : \A i \in 1 .. Len(ledger[c]) :
        \/ ledger[c][i] \in {0, callTurn[c]}
        \/ \E e \in straddled : /\ e.kind = "marker" /\ e.who = Owner[c]
                                /\ e.turn = callTurn[c]

(* A drain never reopens a turn an earlier drain saw closed: the open turn *)
(* it persists is the same or newer, or has expired.                       *)
OpenTurnAdvances ==
    [][\A s \in Sessions : \/ turnFile'[s] = NoTurn
                           \/ turnFile'[s].task >= turnFile[s].task]_vars

(* Every completion written is eventually recorded or set aside, crashes   *)
(* and adoptions included.                                                 *)
EventuallySettled ==
    \A c \in Calls :
        Journalled(c) ~> (Settled(c) \/ Post(c) \in straddled)

(* The log this implements.                                                *)
Log == INSTANCE WorkLog WITH
    Items <- Calls,
    journalled <- {c \in Calls : Journalled(c)},
    atRisk <- {c \in Calls : Post(c) \in straddled},
    settled <- {c \in Calls : Settled(c)}
ImplementsLog == Log!Spec
=============================================================================
