# PatchMesh in TLA+

PatchMesh lets several coding agents work in one repository and know of each
other. It runs no server of its own: every hook of a host (Claude Code, Codex,
OpenCode) starts a short process that reads and writes files under
`.patchmesh/` and rows of one SQLite ledger, and exits. What makes it work or
fail is therefore what these processes leave to each other, in which order, and
what happens when one of them dies in between. That is what this development
models, checks with TLC and, for the central invariants, proves with TLAPS.

Paths below are relative to the root of the repository's sources, `src/`.

## 1. The system

### Components

| Component | State it keeps | Operations that change it |
| --- | --- | --- |
| **Recorder journal and ingest** (`packages/recorder/src/{journal,ingest,turn,inflight}.ts`) | `journal.ndjson`, its claims `journal.ndjson.<pid>.<ms>.processing`, `.rejected` files, `turns.json` | append by a hook; claim by rename, adoption of stale claims, drain, removal, carry-forward of unfinished starts, saving of the open turns by an ingest |
| **Event store** (`packages/storage/src/event-store.ts`) | tables `events` and `pending_events` | `appendAtomic` with its two options, `prune` |
| **Work graph and checkpoint** (`packages/storage/src/{projection-cache,projection-checkpoint,work-graph,replay}.ts`) | the one row of `projection_checkpoint` | `projectWorkGraphCached`: load, check, extend or rebuild, save |
| **Edit guard** (`packages/recorder/src/{bin,advisory,leader,claims,sidecar,recent-writes}.ts`, claim tools of `packages/gateway/src/server.ts`) | claim files, retry files, pending advisories, notice cursors | PreToolUse, PostToolUse, `patchmesh_claim`, `patchmesh_release`, expiry sweep, session end |
| **Effect capture** (`packages/observation/src/{sidecar,node-observation,effects}.ts`, `packages/recorder/src/{effects,ingest}.ts`) | `sidecar.json` (latest, pending, committed), its lock, token and socket, the watcher session in the sidecar's memory, `recorder-request.json`, `snapshot.json` | starting a sidecar, drain and ack, restore and reconcile, `recordTurnEffects` and its fallback |
| **Mailbox** (`packages/query/src/mailbox.ts`, `packages/gateway/src/{mailbox-inject,injection-state,session-start-bin}.ts`, `packages/recorder/src/bin.ts`) | message and delivery events; delivery markers; what each session was told last; the call counter | send, acknowledge, pull, inject at session start, push after a call, cleanup of markers |
| **Query services and gateway tools** (`packages/query`, `packages/gateway/src/server.ts`) | none | overlaps, recap, recall, adoption, performance, roles, status, filtered graph: pure answers from the ledger |
| **Event cache** (`packages/storage/src/{event-cache,database}.ts`) | cached windows of the ledger; schema version | fingerprinted reads; applying migrations |
| **MCP proxy and site gateway** (`packages/adapters`) | the queue of calls, lifetimes, read tokens, pairs already proven, in memory | dispatch of a call between a request, an observation window and a completion; proofs |
| **Detectors and daemon** (`packages/core`, `apps/daemon`) | finding, decision, feedback and delivery events | detection runs, responses |
| **Protocol** (`packages/protocol`) | none | validation of an event set |
| **Command line** (`apps/cli`) | the host's settings, `.mcp.json`, plugin, `.gitignore`, `.patchmesh/` | `init`, `exit`, `doctor`; reports that drain the journal first; pages drawn from the graph |
| **Analyzers** (`packages/analyzers`), **hosts and redaction** (`packages/recorder/src/hosts`) | none | parsing and translation |

### Interactions

* A hook appends to the journal **before** anything else. The edit guard reads
  the journal and its claims to see who is at work, so its correctness depends
  on what an ingest has in its hands at that moment.
* An ingest (at Stop, SessionStart, or before a report) turns journal lines
  into ledger events and hands the calls it drained to effect capture, which
  asks the sidecar what changed on disk and appends `file.changed` events.
* The MCP proxy brackets each call of a host by events of its own and by an
  observation window, and the daemon derives findings from the same log while
  the proxy appends to it.
* Messages are events; what keeps them from being shown twice is split between
  the ledger, marker files and a per-session record of the last injection.
* Everything that reports reads the ledger, through the projection checkpoint,
  the gateway's cache or a follower's cursor; `prune` removes history under
  all three, and `exit` the whole directory.
* Nothing but the file system and SQLite synchronises any two processes. Every
  process may die, or be killed by its host, between any two system calls.

### What is hard, and the property it calls for

* *Losing work.* Rename, read, append, unlink and carry-forward by processes
  that may die at each step: no completion may be lost
  (`RecorderJournal!NoLoss`), every one must be settled
  (`EventuallySettled`), a running call must stay visible
  (`RunningStartKept`), and nothing is recorded twice unless a claim was
  adopted (`OncePerClaim`).
* *Attributing work.* The turn a call belongs to is carried in `turns.json`
  across drains (`OwnTurn`, `OpenTurnAdvances`); the changes seen in a window
  are the caller's only if its executor wrote them (`AttributedWritten`).
* *A causally closed, single-valued log* whatever arrives in whatever order
  and whatever is pruned (`EventStore!CausallyClosed`, `OneContent`,
  `RowsPromoted`, `AcceptedStays`), also when gateway, daemon and agents append
  to it at once (`LogReplays`).
* *A cache that never lies*: the checkpoint is computed and used by several
  statements with appends and prunes between them (`ReadsExact`,
  `ReadsSound`); the gateway keeps windows under a fingerprint of the file
  (`CacheExact`); a follower pages by a cursor (`FollowedOnce`).
* *Mutual exclusion without locks*: two agents may edit one file at once only
  by one of the named exceptions (`EditGuard!GuardedEdits`), and the fail-open
  limit is earned and bounded (`FailOpen`).
* *Prepare, append, acknowledge* across a crash of either side
  (`EffectCapture!CommittedWhole`, `CommittedAccounted`, `RecordedOnce`,
  `NeverBack`).
* *Proofs about others.* A claim that two agents worked on one symbol at once
  must be true, must not be missed, and rests on an evidence slice that can be
  read back (`ConcurrencySound`, `OverlapReported`, `SliceWhole`); findings rest
  on what they cite and are made once (`FindingsGrounded`, `ReportedOnce`).
* *Delivering once, losing nothing*: four ways to a message, three stores that
  say it was shown (`HiddenWasShown`, `PullsOnlyNew`, `QuietWasTold`,
  `HiddenStays`).
* *Reports computed in different places from rows that arrive late and out of
  order* (`HandOffQuiet`, `InterleavingSeen`, `ReportsAgree`, `LensesAgree`).
* *Files shared with people and other tools*, rewritten whole by commands that
  may die half-way (`InitSettles`, `ExitClean`, `ForeignKept`), and reports
  given while the journal is drained by others or removed (`AnswersTrue`).

`PROJECT.json` lists every hazard at its line, with the properties that would
catch it going wrong.

## 2. The modules

| Module | What it is |
| --- | --- |
| `RecorderJournal` | journal, ingest, turns, in-flight starts; one action per system call or ledger transaction |
| `WorkLog` | abstract specification of what the recorder promises of a completion |
| `EventStore` | the ledger; one action per transaction |
| `WorkGraph` | the graph of a set of events, by extension and by the reducer: operators |
| `ProjectionCache` | readers of the work graph; one action per SQL statement |
| `GraphPages` | filters, pages and lenses drawn from a graph: operators |
| `EditGuard` | hooks around an edit and claim tools; one action per file read or written |
| `EffectCapture` | sidecar, recorders and the checkout; one action per file operation, message or transaction |
| `SidecarStart` | finding and starting a sidecar: token, probe, listen, unlink |
| `EventRules` | what makes a set of events valid, and what a call's events prove: operators |
| `SiteGateway` | dispatch of calls through proxy and site gateway; actions split at every await |
| `Detection` | the daemon's detection runs and the responses, beside `SiteGateway` |
| `Mailbox` | messages and the processes that show them; one action per file or ledger access |
| `Selections` | parts of a sequence and sets put in order: operators |
| `Overlaps`, `Reports` | the query services over rows of the ledger: operators |
| `Answers` | who asks the ledger while it is written: cache, follower, late rows, prune |
| `Setup` | `init`, `exit`, `doctor` over a worktree's files; one action per read or write |
| `CommandLine` | every other command, from its arguments to its exit code, beside `Setup` |
| `RecorderJournal_proofs` | theorems about `RecorderJournal`: nothing is lost, the refinement of `WorkLog`, running starts, one record per claim, the turns |
| `EventStore_proofs`, `EditGuard_proofs`, `EffectCapture_proofs`, `Mailbox_proofs`, `Detection_proofs`, `Answers_proofs` | theorems about the module of that name |
| `CommandLine_proofs` | theorems about `CommandLine` and the `Setup` it extends |
| `MC*` | small instances for TLC |

How they are composed: `ProjectionCache` is built on `WorkGraph`, and its
instance checks `GraphPages` over the same ledgers; `Detection` extends
`SiteGateway`, which extends `EventRules`; `Answers` extends `Reports`, which
extends `Overlaps`, which extends `Selections`; `CommandLine` extends `Setup`, so that commands run while
`init` and `exit` do; both filter lines and groups by `Selections`. The recorder appears where others depend on it in the
reduced form they can notice.

Operators named `...Loosely`, `...Early`, `...Never` and the like, commented
as a mutated form or mutant, are deliberate bugs that stand before the
definition they break. No specification uses them; substituting one for the
definition after it must make a property fail, which shows that the property
depends on that code.

### RecorderJournal

`files` is the directory: the live journal and the claims, each with lines and
mtime. `handle` is what each writer has open: `appendFileSync` is an open and a
write, and a rename between the two carries the open handle along, as on POSIX
(where the rename can fail for an open file, `Claim` has that outcome too).
`ing[p]` is the local state of an ingest process, its `pc` naming the next
system call:

    idle --Claim--> list --ListClaims--> adopt --Adopt*, ReadTurns--> drain
      --(ReadClaim, DrainLine*)*, WriteRejected--> remove --RemoveClaim*-->
      carry --(CarryOpen, CarryWrite)*, SaveTurns--> idle

`DrainLine` has one disjunct per kind of line. `Rejectable` names the calls
whose events may fail to build or append (an input of the model, since it
depends on content). `Crash` ends a process anywhere, leaving its claims.
Time is a clock of a few ticks; `STALE_CLAIM_MS`, `ABANDONED_AFTER_MS` and
`TURN_STATE_TTL_MS` are constants in ticks, compared as the code compares
them. A clock stopped past `HostUntil` bounds the host's activity, not the
ingests. The variable `straddled` is history: lines whose append was open when
the journal was renamed. They are excepted from the properties because the
code really can lose them (section 6).

`WorkLog` says the same without files: an item is journalled, may be at risk,
and is settled. `ImplementsLog` is the refinement: each step of
`RecorderJournal` is a `WorkLog` step or leaves its state alone.

### EventStore

An action is a whole call, because each runs in one `BEGIN IMMEDIATE`
transaction; a call that throws leaves no trace, so `AppendAtomic` either
commits or stutters. Events are values with an id, parent, references,
correlation and time given by constants; two events with one id are two
contents. `accepted` and `unbuffered` are history: what a call was told is in
the ledger, and whether a call that does not buffer was ever accepted. The two loops to a fixpoint in `appendAtomic` are the least fixed
point `Resolvable`, written without recursion as an intersection of closed
sets so that it can be proved about; `Protected` is the recursive query of
`prune` in the same form. `Batches` and `Cutoffs` are the calls made.

### WorkGraph and ProjectionCache

`WorkGraph` has every kind of node and edge of `work-graph.ts`: a node keeps
the ids of all events that touched it and what the first of them said. It is
given both ways, as `extendProjection` computes it event by event in insertion
order and as the reducer does in causal order, with attribution corrections,
findings, decisions, deliveries, feedback, sequence gaps and coverage derived
beside it. Ids of events are numbers unrelated to the order of rows, as random
ids are.

Each reader of `ProjectionCache` runs `Load, Check, (ReadDelta, Extend |
ReadAll), Mark, Save, Close`, one statement each, so that appends and prunes
land anywhere between. Late corrections are what makes `ReachesBack` refuse an
extension. `ReadsExact` excepts what section 6 names: fields of which the first
event to touch them decides, and a checkpoint that outlives rows it maps.

### GraphPages

`filterGraph`, `listFindings` and `explainDecision` of the query services, the
model of the graph page, the lenses of the console and the routes that serve
them, with their caps. `LensesAgree` relates them: every change is in the pages
once, with whom it is attributed to, counts of pages are those of the lenses and of
the events, folding loses no event, caps say what they leave out, a filter
keeps exactly what it names.

### EditGuard

A call goes through `journalled, scanned, checked`, then either `running` or
`counting, denying, denied`, and after the edit `posted, releasing, clearing,
done`. `Scan` is `computeContentionAdvisory` (only writes), `Check` is
`checkContention` (any call that names a file, as the hook's matcher is `.*`),
`Allow` and `Refuse` are the retry decision, `Count` and `Deny` the two halves
of its read-modify-write. The ingest is reduced to what the guard can notice:
`TakeAside` (a start is in a claim's gap and invisible), `CarryForward`,
`Drain`. `RecorderJournal` has the same steps in detail. The cap of
`MAX_IN_FLIGHT` on calls listed is left out: instances stay below it.
`unseen`, `forced` and `refusals` are history.

### EffectCapture

`sc` is the sidecar process: its watcher session (`cache`, the snapshot in
memory; `raised`, what the operating system has yet to report; `journal`, what
it reported), its queue of requests, and `job`, the drain it is in the middle
of. A drain is `DrainPending`, `DrainCommitted`, or the sequence
`Begin | BeginRestored, End, Persist | PersistFails`; `Ack` installs the
capture of a transaction as `latest`. A file is the number of its last write,
so a snapshot is a function from paths to numbers. A recorder runs
`Look, Mark, Connect`, then waits for an answer or captures the checkout
itself, appends one change at a time, acknowledges and clears the marker.
Ids of changes prepared by the sidecar are derived from the request, so an
entry of the ledger is identified by request, path and version; `by` stands for
its timestamp, which is that of the process that appends it.

A dead sidecar's lock (`orphan`) may expire at any time. The model lets a
client whose sidecar died either see an error or never get an answer, because
a socket closed without one leaves the client's promise unsettled. `seen` is
history: each request's transaction when first prepared, what entered the
snapshot outside of a window (`absorbed`), and the requests whose marker was
removed unacknowledged (`dropped`).

### SidecarStart

A client reads the token and pings; if that fails it spawns a sidecar, which
writes its own token over whatever is there, probes, listens, and on
`EADDRINUSE` probes again and unlinks. The path of the socket and the process
that listens are apart, as on POSIX: a socket that was unlinked is still
listened on by a process nobody can reach.

### EventRules, SiteGateway and Detection

`EventRules` is `validateEventSet` rule by rule, and the coverage that the
events of a call prove. A digest is the content it is computed from.

In `SiteGateway` calls wait in one queue and are dispatched one at a time; a
dispatch is split wherever the code awaits: `Start, BeginWindow, Execute,
EndWindow, AppendChange*, Analyse, Resolve, Complete, Claim, Prove`, the last of
which reads the evidence slice back. In between
other processes edit a checkout, task lifetimes begin and end, the daemon
appends, or something fails (`MaxFaults`). What commutes with the steps it could
fall between is taken at one of them: only `Refuse`, `Start` and `Prove` look at
lifetimes or the queue, so a host's step during a dispatch is taken just before
`Prove` or after it (`Between`), and an edit when the dispatch looks at the
checkout next. Calls differ in what they
write, what they report to have written, whether they read a symbol first, name
a target, pass a read token, or are opaque. Every file exports one symbol whose
signature depends on the content, so a change may or may not break an importer.

`Detection` reads the log, derives findings by the three detectors, and appends
each finding with its decision, one pair a step; agents respond to them.

### Mailbox

`proc[p]` is a hook or tool call: a pull marks in the ledger and then answers;
a session start reads the inbox, consults the record of what this session was
told last, claims it, writes and marks; a push after a call counts, reads the
markers, writes and puts new markers down. A process can die at each step, and
a write can fail. A message is a name with an audience, a size and a lifetime;
`MaxContext` and `InboxCap` cut what is shown, newest first for the inbox and
oldest first for what an injection fits in. `seen`, `printed` and `gone` are
history.

### Overlaps, Reports and Answers

`Overlaps` is `findOverlappingWork` with its participants, boundary text, roles
and precision, and `Reports` the recap, recall, adoption, time to resume,
performance, agents, status and paging of events. Both are operators over the
sequence of rows, in insertion order, which need not be the order of times.
The filters and sorts they are made of are in `Selections`, by their indices:
the rows kept are those at the indices kept, in order, and a sorted set is the
sequence in which each element has as many before it as come before it.

In `Answers` agents perform acts (calls, changes, failures, role claims,
corrections) that reach the ledger at once or later from a journal; the gateway
asks through `readCached`; the daemon holds the ledger open and a follower
polls it page by page; old rows are pruned. The ledger is in WAL mode: the file
whose size and time are the cache's fingerprint changes only on a checkpoint.

### Setup and CommandLine

`Setup` has one action per file a command reads or writes back, and people,
other tools and installs that act between. A group of hooks is a set of
commands, each ours from some install or foreign. A session keeps the hooks it
loaded when it started. `Killed` ends a command anywhere.

`CommandLine` follows a command through `Ask` (its arguments, `parseArgs`),
`Resolve` (which ledger), `CountPending, ClaimJournal, RecordClaim` (the drain
before a report), `OpenLedger`, and then `Report`, `Respond`, `Prune` or
`Doctor`. A call is a number that is in the journal, a claim or a ledger, so
that "shown", "lost" and "counted twice" can be said.

## 3. What is checked

| Run | Properties | Instance | What it shows |
| --- | --- | --- | --- |
| `journal_loss` | `NoLoss`, `OncePerClaim`, `RunningStartKept` | 1 session, 1 call that may be rejected, 2 ingests, a crash, an adoption, 2 ticks | no completion is lost; recording twice needs an adoption; a running start stays where the in-flight scan or a carry-forward finds it |
| `journal_turns` | `OwnTurn`, `OpenTurnAdvances` | 2 calls over 2 turns of a session, drains one after another that may adopt an old claim, a TTL of 0 ticks | a completion gets its own turn's task or none; a drain never reopens an older turn |
| `journal_live` | `EventuallySettled`, `ImplementsLog` | 1 call, 1 ingest slot, a crash, fair | every completion is settled in the end; the recorder implements `WorkLog` |
| `store` | `CausallyClosed`, `OneContent`, `AcceptedStays`, `RowsPromoted` | two ways of use: every batch of up to 3 of two chains with every option, or buffered calls only with a second content for one id; prunes in both | no durable event loses its parent; one content per id; what was accepted stays until a prune and a prune keeps the log replayable (any use), fresh events are never refused (buffered use); a row whose parent has landed does not wait any longer |
| `projection_concurrent` | `ReadsExact`, `ReadsSound`, `LensesAgree` | 5 histories: 2 readers with late corrections; a call with a gap in its numbers; finding, decision, delivery and feedback; dependency and task; a prune | an undisturbed read is what a full projection and the reducer give; no read misses what it had to see or shows what never was; the pages of every ledger on the way agree with its events |
| `guard_guard` | `GuardedEdits`, `FailOpen` | 3 calls of 2 agents on one file, a claim, ageing, one abandoned start, retry limit 1 | edits are guarded; the limit is earned; denials are bounded |
| `effects_commit` | `CommittedWhole`, `CommittedAccounted`, `RecordedOnce`, `NeverBack` | 3 recorders, 1 file written once, 2 crashes or failed writes, 1 timeout | what the sidecar has committed is in the ledger, or entered its snapshot aside of any window, or is pending; a request is one window; nothing is reported twice or taken back |
| `sidecar_race` | `WinnerKept` | 2 sidecars, 2 clients | *violation*, see section 6 |
| `gateway` | `LogReplays`, `ConcurrencySound`, `OverlapReported`, `AttributedWritten`, `SliceWhole`, `ReportedOnce`, `FindingsGrounded` | 4 calls of 2 agents in 2 worktrees on 2 files, 1 failure or foreign edit, 2 detection runs or responses | the log replays at every await; proofs of concurrency are true and complete; attribution is to the writer; the evidence of a dispatch is whole; findings are grounded and made once |
| `mailbox` | `HiddenWasShown`, `PullsOnlyNew`, `QuietWasTold`, `HiddenStays` | 2 agents, 2 messages (one a broadcast), 2 processes, 3 hooks or calls, 1 death or failed write, time 2 | mail is hidden only from who was given it; pulled once; a quiet session start was told before; markers' cleanup brings nothing back |
| `answers` | `HandOffQuiet`, `InterleavingSeen`, `ReportsAgree`, `FollowedOnce`, `CacheExact` | four scenes: 4 acts of two workers on one file, one of them on the other's task, with one late; 4 acts with role claims; 4 acts with signs of life and a correction; 3 acts read through cache and follower with prunes | one worker after another is no overlap, two sides at once are told or counted as left out; reports of one ledger agree; a follower sees each row once; a cached window is the ledger |
| `setup` | `InitSettles`, `ExitClean`, `AnswersTrue`, `ForeignKept` | two scenes: 2 commands, with 3 values of `--host`, and 2 edits by others (a move of the install among them) from no files or from files of its own; or 2 calls, a drain of at most 1 and a command of 5 kinds with 5 sets of options while `exit` runs | init is settled and idempotent; exit leaves nothing of its own and its dry run says what it removes; others' entries stay; reports show what waited in the journal, and nothing reaches a foreign ledger |

Deadlock is checked in the runs of the journal, the store, the projection and
the guard.
The others say `CHECK_DEADLOCK FALSE` because what they model ends: hooks and
tool calls that are over stay over, and the number of commands, calls, acts,
sidecars and runs is bounded.

### Why these bounds

* *Journal.* Losing a line takes one writer, a claim, and at most two
  processes at odds over it; a third adds a second adopter, which the one
  adoption bound stands for. A crash, an adoption and a rejected line meet in
  every combination. Attribution needs two turns and two calls, one drain
  after another; a drain at the same time as another, or after one that died,
  is known to disturb turns (section 6). After the tick a journal is as old as
  an abandoned claim, so a drain also adopts what it has just claimed. The
  theorems cover any number.
* *Store.* A chain of four exercises promotion of a chain longer than one batch
  of three can carry; the second chain gives a call something unrelated. The
  proofs cover the rest.
* *Projection.* Two readers are what it takes to overwrite a checkpoint with an
  older one; two changes of a file and two corrections give a delta on both
  sides of the watermark. The other histories have one reader and four or five
  events each, and between them every kind of node and edge.
* *Guard.* Two agents make a race; the third call gives one of them a retry.
  The theorem covers any number.
* *Effects.* Three recorders are the first, one that retries its request and
  one that comes after; two faults reach crash, retry, crash. One write is
  enough for every window to be empty or not. Instances with two files, and
  with two writes of one file and one crash, were explored too and hold.
* *Gateway.* Agent `a` writes, then reads and writes, then makes a dependent
  write of two files; `b` writes the same symbol at any time. That is the least
  that has a concurrent pair, a stale read, a broken importer and a dependent
  write. A fault and the daemon are explored in turn, not together
  (`Together`): the daemon only appends, and what a fault does to the log is
  what it then reads.
* *Mailbox.* Three hooks or calls on two processes are one that shows, one that
  interleaves and one that comes after. Caps of two put the cut inside the
  instance; the lifetimes put expiry on both sides of the markers'.
* *Answers.* The overlap questions need two workers, two changes of a file and
  one sign of life after; a fourth act makes a third change. What each scene
  leaves out (rows that arrive late, a third tick, reading while it is
  written) another has. The cache needs one kept window and one other.
* *Setup.* Hook events are merged one by one, so one stands for all; two
  commands with two edits between reach the lost update and the half-done init
  or exit that the next command meets. The journal has a budget of one call
  and two are recorded.

The symmetry sets permute process or call names that no action and no property
distinguishes, and no liveness property is checked with symmetry.

### Fairness

Only `journal_live` assumes any. `FairSpec` asks for weak fairness of the
write that follows an open (the same `appendFileSync`), of each ingest slot,
and of time. The last but one is justified by ingests being launched again by
every Stop, SessionStart and report; an ingest never waits for another process,
so weak fairness is enough. Nothing is assumed of prompts, of calls finishing,
or of crashes. A crash in the last tick still leaves a tick for its claim to
become stale and be adopted, which `HostUntil < MaxTime` ensures.

## 4. What is proved

For every value of the constants, under their named assumptions:

| Theorem | Statement |
| --- | --- |
| `RecorderJournal_proofs!TypeCorrect`, `NothingLost` | `Spec => []TypeOK`, `[]NoLoss` |
| `RecorderJournal_proofs!LogImplemented` | `Spec => ImplementsLog`, the refinement of `WorkLog` |
| `RecorderJournal_proofs!RunningCallsSeen`, `RecordedOncePerClaim` | `Spec => []RunningStartKept`, `[]OncePerClaim` |
| `RecorderJournal_proofs!RecordedForItsTurn` | one ingest slot implies `Spec => [](crashes = 0 => OwnTurn)` |
| `RecorderJournal_proofs!TurnNeverReopened` | one ingest slot and `MaxCrashes = 0` imply `Spec => OpenTurnAdvances` |
| `EventStore_proofs!TypeCorrect` | `Spec => []TypeOK` |
| `EventStore_proofs!DurableLogClosed` | `SelfContained` implies `Spec => []CausallyClosed` |
| `EventStore_proofs!OneContentPerId`, `FreshAppendsAccepted` | `AlwaysBuffered` implies `Spec => []OneContent`, `[]FreshAccepted` |
| `EventStore_proofs!NothingGivenUp`, `PromotedAtOnce` | `Spec => []AcceptedStays`, `RowsPromoted` |
| `EditGuard_proofs!TypeCorrect`, `GuardHolds`, `EditsGuarded`, `LimitEarned` | `Spec => []TypeOK`, `[]GuardInv`, `[]GuardedEdits`, `[]FailOpen` |
| `Mailbox_proofs!TypeCorrect`, `MailInvariant`, `MailNotLost`, `PulledOnce` | `Spec => []TypeOK`, `[]MailInv`, `[]HiddenWasShown`, `[]PullsOnlyNew` |
| `Mailbox_proofs!QuietSessionsWereTold`, `HiddenForGood` | `Spec => QuietWasTold`, `HiddenStays` |
| `EffectCapture_proofs!TypeCorrect`, `WholeInvariant`, `CommittedIsWhole` | `Spec => []TypeOK`, `[]WholeInv`, `[]CommittedWhole` |
| `EffectCapture_proofs!CommittedIsAccounted`, `EachWriteOnce`, `CommitsInOrder` | `Spec => []CommittedAccounted`, `[]RecordedOnce`, `NeverBack` |
| `Detection_proofs!Inductive`, `ConcurrencyProven`, `AttributionProven` | `DetectionSpec => []IInv`, `[]ConcurrencySound`, `[]AttributedWritten` |
| `Detection_proofs!FindingsProven`, `SlicesProven` | `DetectionSpec => []FindingsGrounded`, `[]SliceWhole` |
| `Detection_proofs!ReplaysProven`, `ReportedProven` | `NullIsNoId` implies `DetectionSpec => []LogReplays`, `[]ReportedOnce` |
| `Detection_proofs!OverlapsProven` | `NullIsNoId` and `LivesApart` imply `DetectionSpec => []OverlapReported` |
| `Answers_proofs!CacheProven`, `HandOffProven` | `Spec => []CacheExact`, `[]HandOffQuiet` |
| `Answers_proofs!FollowedProven`, `SeenProven` | `Spec => []FollowedOnce`, `[]InterleavingSeen` |
| `CommandLine_proofs!AnswersProven` | `CommandSpec => []AnswersTrue` |
| `CommandLine_proofs!SettlesProven`, `ExitProven` | `CommandSpec => []InitSettles`, `[]ExitClean` |
| `CommandLine_proofs!KeptProven` | `CommandSpec => ForeignKept` |

The assumptions on constants say what kind of value each is (a bound is a
natural number, an owner a function from calls to sessions) and that the null
value is none of the values it stands beside. Each is evaluated by TLC on the
instances. `SelfContained` and `AlwaysBuffered` are hypotheses about how
`appendAtomic` is called, discussed below.

**NothingLost.** `NoLoss` alone is not inductive: a drain unlinks a claim, so
one must know that it has dealt with every line the claim holds, and that
nobody still writes to it. `LossInv` adds `FilesOK` (a missing file has no
lines, an open handle has a file), `HandlesOK` (a handle on anything but the
live journal holds a straddled line, so a claim cannot grow otherwise) and
`DrainsOK` (what a drain has read it has recorded, set aside or still has in
hand; what it is about to unlink is all accounted for). The proof has one lemma
per kind of disk operation (`OpenDisk`, `WriteDisk`, `RenameDisk`,
`RemoveDisk`) on the lines of a file, and one per action on `LossInv`. The
`RenameStep` lemma is the heart: an adopted claim may be one that a live drain
is reading, and both then have to account for it.

**LogImplemented.** The write of a call's last line is the abstract `Journal`,
the rename of the journal `Risk` (of the calls whose append is then open), the
drain of a completion or its writing aside `Settle`; every other step leaves
the abstract state alone. That a call is settled only after it was journalled
needs `PostsMade`: a line that says a call is complete was made by that call,
and is on disk, or in a drain's hands, only once its hook has returned.

**RunningCallsSeen, RecordedOncePerClaim.** Both are about what a drain has in
its hands when others run. `StartsInv` says that until it has put it back, a
drain remembers the start of each running call it has read (`Remembered`), and
`StartsTrue` that a start line carries the time its call was started, so that
the cut-off for abandoned calls treats line and call alike. `PlacesInv` says
that until a claim is adopted no two drains hold the same one (`HeldApart`) and
that a completion is in one place only: one line still to be drained, or one in
hand, or recorded (`OnePlace`).

**RecordedForItsTurn, TurnNeverReopened.** What has still to be drained has an
order: what the drain has in hand, then the claim it has yet to read, then the
live journal. `Ordered` says that along it the lines of a session never go back
to an earlier turn, and that no marker comes after a completion or marker of its
own turn. It holds because a host waits for the hook of a prompt and starts none
while a call is under way (`HostTurns`), so no line is ahead of its session's
turn (`NoneAhead`), and because an append open across a rename still comes
before whatever is in the new journal (`LateWrites`). `Advancing` says that the
open turn is behind nothing saved and ahead of nothing pending, and
`MarkersKnown` that the marker of a pending completion's turn is itself pending,
or was the last one drained (and may have expired since), or was open across a
rename. With one drain that lives, no claim but its last is on disk
(`ClaimsHeld`), whichever it adopts. The two hypotheses are those under which
the code keeps its turns: two drains at once overwrite each other's
`turns.json`, and with one crash TLC finds a completion with a wrong turn, since
the claim of a drain that died is adopted once it is old, after newer lines were
drained.

**DurableLogClosed.** `ResolvableClosed` shows that what the fixpoint admits
has its parent among what was known or admitted; `CommitClosed` and
`PruneClosed` follow. The assumption `SelfContained`, that a call which neither
checks nor buffers brings the parents of its events along, is what the
ingest does with a request and its completion. A `file.changed` is outside it:
it names a completion the same process appended before, in a call of its own,
which is safe as long as no prune removes that completion in between.
`OneContentPerId` rests on `TablesApart`: no id is in both tables, which a plain
append can break; hence `AlwaysBuffered`.

**NothingGivenUp, PromotedAtOnce.** `Kept` is inductive once it says by what an
accepted row may be replaced: a durable row of its id that was accepted too.
`CausesSurvive` shows that the causes of a survivor survive a prune, and
`SurvivorsReplay` from it that what was valid is valid still, as far as events
refer to nothing but their cause; the third part follows from `TablesStayApart`
for a ledger that only buffering calls have written. `ResolvableComplete` is the
converse of `ResolvableClosed`: whatever has its parent among what was known or
admitted is admitted itself, however long the chain, so a second pass would
promote nothing more.

**EditsGuarded.** The code's order is that of Dekker's algorithm: a hook
journals its start, then reads the journal. `OneSees` says that of two
conflicting calls past `Check` at least one found the other, unless one looked
abandoned or was in an ingest's hands; `Passed` says that a contended call runs
only when forced. `Journalled` ties the state of a call to its line. Calls of
one agent in parallel are included.

**LimitEarned.** `DenialInv` bounds each count in a retry file, and each count a
hook has read and is about to write back, by the calls that were in fact denied
(`CountsDenied`: a lost update can only lower a count). For an agent with one
call at a time no refusal is lost between the two reads of the file and its
write (`CountsRefused`), so it is denied at most `MaxRetries` times.

**Mailbox.** `MailInv` relates four stores. A marker or a delivery event is
there only for what was written to that agent, or for a pull is on its way
(`MarkersTrue`, `CountsTrue`, `MarkingTrue`); a pull is alone with its agent
between its read and its mark, and what it read was unmarked (`PullsApart`);
what the file of told sessions remembers, also in a copy about to be written
back, that session was given, is being given, or would have been given by a
process that died (`ToldWasGiven`).

**CommittedIsWhole.** `WholeInv` says that the sidecar works for the request at
the head of its queue, which is neither pending nor committed (`JobInv`); that
a request is prepared once and from then on pending until committed
(`TransactionInv`); that a process has still to append exactly what of its
request is not in the ledger, whoever prepared it (`ClientInv`); and that an
acknowledgement in the queue is for a request whose changes all are
(`QueueInv`). The last survives its sender, which may have died or given up
since, because ledger and transactions only grow (`Grows`); that is the heart of
the proof.

**CommittedIsAccounted.** Each snapshot that may be committed (the committed
one, those of pending windows, and what the sidecar's next window starts from)
is accounted for (`AccountInv`). `AccountKept` shows that nothing accounted for
is forgotten: when a pending window is acknowledged, `WholeInv` says its changes
are in the ledger. `ChangedAccounts` carries it from the snapshot a window
began with to its capture.

**EachWriteOnce, CommitsInOrder.** `OrderInv` orders snapshots by their files'
writes: all are at most the disk, and as long as no request was dropped, each
window begins where the committed snapshot is or later (`InOrder`). That holds
because one request at a time is under way, the marked one (`OneRequest`): a
restarted sidecar, whose first window begins at the committed snapshot, cannot
find another request's window pending (`Alone`).

**ConcurrencyProven, AttributionProven, FindingsProven, SlicesProven.** One
invariant, `IInv`, carries them. `LogInv` gives events ids of their own and
says of each event what it rests on: a proof of concurrency on two lifetimes
that were together, a change on the window it was seen in. `LifeInv` says the
same of what the lifetimes remember, `RunInv` of the dispatch in progress, one
conjunct for each thing it carries across an await (its request, the effects
bound to it, the window, what is still to be appended), and `DetectorInv` of
the pairs the daemon has still to append. Since the log only grows while a
dispatch waits, what it has read stays true; that is why nobody removes its
evidence.

**ReplaysProven.** `LogReplays` needs the log to be acyclic, which
`validateEventSet` decides by walking down from the roots: `Acyclic` does so
by a recursive function on sets of events. `AcyclicBelow` and what follows it
show that this function exists, and that a log is acyclic exactly when only the
whole of it holds its roots and all they cause. Each append then extends an
acyclic log by events whose cause is there (`ValidGrowsCaused`). `NullIsNoId`
says that null is not the id of an event; it is a hypothesis and not an
assumption of the module because TLC cannot evaluate a quantifier over all
values.

**ReportedProven.** An id of a finding is drawn from what the finding cites
and from the coverage of the calls cited. `OnceInv` says that each call has one
dispatch and one completion (`Dispatches`) and that everything told so far cites
complete calls (`Told`). A coverage that is sufficient never changes once its
call has completed, because what comes later belongs to other calls; so a later
run that finds the same evidence draws the same id and appends nothing.

**OverlapsProven.** The theorems above say that what is reported is true; this
one says that what should be reported is, and it needs most of what they prove.
A pair of changes that clash must have its proof from the moment the later of
the two is recorded, for nothing appends it afterwards. So `OverlapInv` is kept
along this argument (`Knows` names its parts):

* What a clash consists of is there before the step that would disturb it. The
  ledger only grows, and what it grows by belongs to calls that were not yet
  complete (`Adds`, `Ledger`, `Unresolved`); so the coverage and the evidence of
  two recorded changes are those they had (`ClashBack`), and a clash that is new
  has a change that this very dispatch records.
* The dispatch finds the other change. Lifetimes that met know each other,
  whichever began first and whether or not they ended in between, and hold
  changes of completed calls only (`LifesMet`, `StepMet`); the dispatch pairs
  what it records with all of them (`ProofOf`).
* The ledger accepts the proof (`ClashValid`): it is of two lifetimes, two
  tasks, two worktrees and two changes, each with its coverage. A pair is passed
  over only when its id has been used, and then the proof is there
  (`EmittedInv`).
* Nothing on the way is refused for another reason. While nothing failed,
  statements are about what the ledger holds (`There`, `ThereInv`), so a ledger
  that is valid after an append was valid before it (`ValidBack`, `SoundInv`).

`LivesApart` says that lifetimes are of agents, tasks and worktrees of their own
and that their events come from an adapter or the gateway. The site gateway
demands the kind of source (`assertRuntimeIdentity`), and passes over two
lifetimes of one agent or one worktree, between which there is nothing to
report; but it does not refuse to begin them, so this is a hypothesis of the
theorem. TLC evaluates it on the instance (`ASSUME` in `MCDetection`).

**CacheProven.** `CacheInv` says that entries under the present size and time
of the main file hold the rows, as long as the write-ahead log is empty: every
write leaves either a newer file or a row in the log, and a log is there only
while somebody holds the ledger open.

**HandOffProven, SeenProven.** `ActsInv` says that the ledger holds findings and
the acts that are not in the journal, once each, in any order, and that kept
windows are sequences. For a hand-off, the first and last time of each worker on
a file are those of its acts in the window (`Extremes`), so no two intervals
meet, whatever arrived late. For contention seen, the rows of both sides pass
every filter with their order kept, and the first of each is the boundary the
answer tells. The proof of `InterleavingSeen` failed at two agents that declare
one task: `participantKeyFor` (`overlap.ts`) takes them for one side, and so
does the property.

**FollowedProven.** `Sent` says that what a follower got is exactly the
matching rows up to the row of its cursor, each once. `PageKeeps` carries it over
a page: the rows of a page are those after the cursor, and the new cursor is the
last row scanned, also when nothing on the page matched. Late rows come after
the cursor because they are inserted after it, whatever their time.

**AnswersProven.** `CommandsInv` keeps a call in one place: the journal, a claim
(of the command, of another drain, or left behind), or a row of this
repository's ledger. Calls a report owes are on their way to its ledger and in
it before it is opened (`QueryInv`); only a ledger of the repository's own is
drained into; a response is numbered above every call, so no prune or drain
confuses them; and what `doctor` saw in the ledger is never in the journal
again.

**SettlesProven, ExitProven, KeptProven.** `SetupInv` says that every file is in
order, in particular that an event has at most one group of PatchMesh's, *and
that so is what a command is about to write*, however long ago it read
(`CliInv`); hence no interleaving or kill makes a second hook. Of a command left
alone it says that each thing it is for is still ahead of it or achieved
(`WorkInv`), and that the draft in its hands achieves its step, undoes no other
and keeps what others put in that file (`Fits`). `RemovedHooks`,
`Unregistered` and `Unignored` show that the steps of `exit` change a file just
when the dry run says so. `SelectKeeps` and `SelectAll` are the facts about
filtered sequences these rest on.

Only model-checked:

* *Liveness*: `EventuallySettled`; the prover has no ENABLED.
* *Projection and what is drawn from it* (`ReadsExact`, `ReadsSound`,
  `LensesAgree`): `WorkGraph` and `GraphPages` fold and recurse over the events,
  and what a fold gives for every input is an induction over data, out of the
  prover's reach. The run compares each with a definition of what it should give.
* `ReportsAgree`, which relates several reports that count and sum over the
  ledger, for the same reason.
* `WinnerKept`, which is violated.

## 5. What is not modelled

* *Whole components*: completion of turns and back-filling of attribution after
  a drain, and the notices of recent writes; translation of a host's hook
  payload, redaction and tool mapping; the analyzers; the schema of each event
  type; migrations; shadow reports and evaluation corpora; development tools.
  `PROJECT.json` gives the reason for each.
* *Recorder*: the format of lines; the turn-start advisory and the Bash
  snapshot of the hook binary; the cap of 50 calls listed in flight.
* *Store*: row encoding and re-validation of stored bytes.
* *Effect capture*: gaps, quiescence and degradation of the observation
  boundary, the bound on the watcher's journal, ignore rules, attribution by
  mtime or declared path (`bindChange`), derived symbol events. `disk` is
  captured in one step: a capture that reads files while they change can mix
  versions, but it only compares hashes per path, so a mixture is a sequence of
  captures of the paths one by one, and the properties are stated per path.
* *Gateway and proxy*: the MCP transport, several sites at once, several
  symbols per file, analysis of source text (an external function from content
  to signature).
* *Mailbox*: threads and text.
* *Reports*: labels and wording; `liveContentionFrom` and the list of active
  agents (`active.ts`), whose dependence on the clock is described in section 6.
* *Command line*: markup, text rendering, the HTTP server of the console.

## 6. Where the code and its promises disagree

One is exhibited by a run and listed as a finding. `sidecar_race`:
`sidecar.ts:410` says a peer that won the race "is never unlinked after its
listener becomes live", but the loser has overwritten the token file before it
probes, so its probe is refused and it unlinks the winner's socket.

The others were met while modelling; the properties exclude them by the
exceptions or instances named.

**Journal.** A claim that a live drain has held for `STALE_CLAIM_MS` is adopted
by another (`ingest.ts:688`), and both record its lines, which get fresh event
ids (`OncePerClaim` excepts adoption). A hook whose open and write straddle the
rename can lose its line when the claim is drained between (`straddled`).
`carryForward` can restore a start whose completion another drain has already
recorded, leaving a phantom in flight. Drains at the same time overwrite each
other's `turns.json`, and a drain reads its fresh claim before older adopted
ones, so markers can be applied out of order. So can those of a drain that
died: its claim is adopted only once it is old, after newer lines were drained.

**Store**, with the buffering option (which has no caller outside tests yet). A
candidate whose parent is promoted by the same call is buffered and waits for a
later buffered append. A buffered event that also arrives by a plain append
makes every append of its missing ancestor fail, which is why `AcceptedStays`
promises fresh events a place only until a call that does not buffer is
accepted. An accepted pending event can be replaced by another content under
its id that was accepted as well. `prune` keeps causes and nothing else a survivor
refers to, so a full read can fail closed on what survives, although
`event-store.ts` says "Anything a survivor still points at is retained"; and it
empties the pending table whatever the age of its rows.

**Projection.** `databaseHasPosition` (`projection-cache.ts:64`) looks for the
watermarked row only, so a prune that spares it leaves a checkpoint of history
that is gone. Of several events that touch one node or edge the first processed
decides what it says, against "Nothing else observes processing order": two
whose ids and insertion order differ are told differently by the two paths. In
a read by delta the findings, decisions and coverage are derived from a later
snapshot than the nodes (`projection-cache.ts:142`). A pruned event appended
again could put the watermark ahead of rows it has not mapped. The graph page
filtered by an agent shows no before and after for a version another agent's
event touched first, and an agent filter keeps all findings.

**Guard.** A denied call has a start and never a completion, so until it looks
abandoned it is contention for everybody else (`leader.ts:87`). `advisory.ts`
says "Scoped to Edit/Write only" and the README says advisories never block,
but the hook's matcher is `.*` and `checkContention` denies reads.
`computePostWriteAdvisory` returns early and leaves the claim unreleased. A
second `patchmesh_claim` replaces the first. Any session's end deletes every
pending advisory. Two parallel calls of one agent lose a retry count.

**Effects.** `beginWindow` takes what changed before the window into the
snapshot the window is compared with, and `outOfBandChanges` is not read by the
recorder (`effects.ts:429`), so with a running sidecar most edits of a turn are
not recorded. A retry after a crash between append and acknowledgement carries
the same ids with a new timestamp, which `appendAtomic` refuses as a conflict,
so the transaction never completes; the plan document calls such a retry "a
harmless duplicate append". A drain given up clears a marker it created,
although the comment says the marker is kept for a retry (`seen.dropped`). The
fallback's baseline is separate, so a change can be recorded by both paths, and
is replaced before the append, so a crash loses it. A stale marker attributes a
later window to an earlier turn. A client reads the token once before it spawns
a sidecar (`sidecar.ts:481`), so its own first attempt always fails; `close()`
removes whichever socket and token are there.

**Gateway.** A dependent write that names no target is appended unvalidated
(`mcp-proxy.ts:1179`) and can break every later replay (`LogReplays` excepts
it). When the append of a proof fails, the failure is swallowed
(`gateway.ts:588`) and the pair is not proven again.

**Mailbox.** A pull marks before it answers, so a server that dies between takes
the message along (`gone`). Injection takes the oldest first out of the newest
twenty: with more waiting, the oldest is dropped. A message that does not fit
blocks those behind it. A push ignores the ledger's deliveries, and its counter
is shared by all agents. Markers are removed after seven days whatever the
message's lifetime.

**Answers.** While a second process holds the ledger open, rows are in the
write-ahead log and the cache's fingerprint does not see them
(`event-cache.ts:13` against WAL in `database.ts:77`): without `~held`,
`CacheExact` fails after four steps. `persistFindings` (`overlap.ts`) inserts
rows no validation has seen, although `event-store.ts:142` says every row is
validated, and its "re-persisting is idempotent" fails when the evidence has
changed. Changes nobody is known to have made count as a worker of their own. A
participant keeps the first row inserted, not the first in time. Corrections
apply in the status and the agents only. The status reads events and projection
separately. A cursor that was pruned ends a follower, and late rows older than
a cutoff may be pruned unseen. The default window of four hours in `active.ts`
makes its six-hour stale branch unreachable, so a recorder that went silent
reads as idle.

**Setup and commands.** A JSON file that cannot be read is taken for `{}` and
overwritten, although "An entry this tool did not write is never touched"; a
group shared with another's hook goes with ours; `exit` removes a plugin that
was edited. `exit` leaves `patchmesh-codex` and `patchmesh-generic-mcp` behind,
an empty plugin directory, a blank line in `.gitignore` per cycle, and a linked
worktree's ledger. It removes `.patchmesh` before the hooks, so a running
session or drain makes it again. `doctor` says "PatchMesh is recording." with no
hooks file, calls a drain in progress "interrupted", and reads the ledger before
the journal, so what is drained between is in neither (never in both, which is
checked). `performance` and `inbox` are not among the commands that drain first:
they exit 3 while the journal holds calls. Usage errors are found after the
journal was drained. A journal over budget on a fresh install answers "nothing
has been recorded". Orphaned claims are not adopted when the live journal is
empty.

## 7. Plan

Done: the core (`RecorderJournal`, `EventStore`, `ProjectionCache`,
`EditGuard`, `EffectCapture`), then what is said to agents and people
(`Mailbox`, `Answers`, `GraphPages`), what is proven about them (`SiteGateway`, `Detection`), and what people do to an installation
(`Setup`, `CommandLine`, `SidecarStart`); and the proofs above.

Next, most important first:

1. Proofs: the statement-by-statement safety of the checkpoint's readers, with
   the graph as an unspecified function of the rows.
2. `ObservationBoundary`: the bounded journal, overlapping windows, quiescence
   and degradation of `node-observation.ts`, with the abstract specification "a
   window reported complete is exact".
3. Turn completion and back-filled attribution after a drain.
4. Two processes that migrate one ledger at once.
5. The ingest of `RecorderJournal` as the environment of `EditGuard`, replacing
   `TakeAside` and `CarryForward` by its steps.

## 8. Running it

    tlc -workers 2 -config MCRecorderJournal_loss.cfg MCRecorderJournal
    tlapm RecorderJournal_proofs.tla

Each `.cfg` is named `MC<Module>_<run>.cfg`; `PROJECT.json` pairs runs and
configurations. The longest run, `setup`, takes about two
minutes with two workers, the others less; the longest proofs,
`RecorderJournal_proofs` and `Detection_proofs`, several minutes from nothing.
