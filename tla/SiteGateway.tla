---------------------------- MODULE SiteGateway -----------------------------
(***************************************************************************)
(* The site gateway and its MCP proxy: tool calls of several agents, each  *)
(* in its own worktree, dispatched one at a time, bracketed by a request,  *)
(* an observation window and a completion, and the proofs derived from     *)
(* what was observed.  Task lifetimes begin and end, and other processes   *)
(* edit the checkouts, at every await of a dispatch.                       *)
(*                                                                         *)
(* Every file exports one symbol, whose signature depends on the content.  *)
(* Event ids, drawn at random in the code, are numbered.                   *)
(***************************************************************************)
EXTENDS EventRules, Sequences, SequencesExt

CONSTANTS Lifecycles,    \* ids of task lifetimes
          Life,          \* lifecycle -> [agent, task, wt, src], its identity
          Calls,         \* host calls
          Call,          \* call -> [as, bound, after, writes, reports, read, opaque,
                         \*          dependent]; bound: a set, whether it may name the
                         \*          target; an agent makes one call after another
          Files, Empty,  \* every file has content Empty at first
          Signature(_),  \* content -> signature of the exported symbol
          Imports,       \* {<<consumer, file whose symbol it imports>>}
          Capabilities,  \* of "observedRead", "dependentToken", "exactEffects"
          Target,        \* the integration target snapshot
          Foreign,       \* {<<file, content>>} other processes may write
          MaxFaults      \* bound on failures and on edits by others

(* An executor reports no file that it did not write.                      *)
ASSUME CallAssumption ==
  /\ IsFiniteSet(Files) /\ None \notin Calls /\ None \notin Nat
  /\ \A c \in Calls : /\ Call[c].as \in Lifecycles
                      /\ Call[c].reports \subseteq {w[1] : w \in Call[c].writes}

VARIABLES log,      \* the event store; nothing depends on the order of its rows
          disk,     \* worktree -> file -> content
          seen,     \* worktree -> what the observer captured last
          lifes,    \* lifecycle -> [state, overlaps, changes]
          queue,    \* calls waiting for their turn, the running one first
          pc,       \* call -> where it is
          run,      \* what the dispatch in progress knows
          seqs,     \* producer -> next source sequence
          emitted,  \* pairs of changes known to have a proof
          tokens,   \* read tokens returned to the host
          faults,
          together, \* history: pairs of lifetimes that were active at once
          wrote     \* history: <<who, file>>: a call's executor, or others in a worktree

gatewayVars == <<log, disk, seen, lifes, queue, pc, run, seqs, emitted, tokens,
                 faults, together, wrote>>

Worktrees == {Life[l].wt : l \in Lifecycles}
Producers == {Life[l].src : l \in Lifecycles}
File(f) == <<"file", f>>
Symbol(f) == <<"symbol", f>>

Idle == [call |-> None]

Init ==
  /\ log = {}
  /\ disk = [w \in Worktrees |-> [f \in Files |-> Empty]]
  /\ seen = disk
  /\ lifes = [l \in Lifecycles |-> [state |-> "unknown", overlaps |-> {}, changes |-> {}]]
  /\ queue = <<>>
  /\ pc = [c \in Calls |-> "new"]
  /\ run = Idle
  /\ seqs = [p \in Producers |-> 0]
  /\ emitted = {} /\ tokens = {}
  /\ faults = 0
  /\ together = {} /\ wrote = {}

Fault   == faults < MaxFaults /\ faults' = faults + 1
NoFault == UNCHANGED faults

(***************************************************************************)
(* Events, in the context of the dispatch r.                               *)
(***************************************************************************)
Fresh(n) == <<"evt", {Cardinality(log) + n}>>
Watcher  == <<"watcher", "observer">>
Analyzer == <<"analyzer", "source">>

Version(res, wt, val, ev) == [res |-> res, wt |-> wt, val |-> val, ev |-> ev]

Event(r, id, type, src, seq, cause, body) ==
  [id |-> id, type |-> type, src |-> src, seq |-> seq, wt |-> r.who.wt,
   agent |-> r.who.agent, task |-> r.who.task, corr |-> <<"call", r.call>>, cause |-> cause,
   body |-> body]

ToolRequested(r) ==
  Event(r, r.request, "tool.requested", r.who.src, r.seq, None, [opaque |-> Call[r.call].opaque])

(* The version a caller claims to have read is that of its checkout.       *)
FileRead(r) ==
  LET res == Call[r.call].read
      content == disk[r.who.wt][res[2]]
      val == IF res[1] = "symbol" THEN Signature(content) ELSE content
      id == <<"read", r.request[2]>>
  IN  Event(r, id, "file.read", r.who.src, None, r.request,
            [res |-> res, ver |-> Version(res, r.who.wt, val, id)])

(* A change seen outside a call belongs to nobody and to no call.          *)
FileChanged(r, id, ch) ==
  LET res == File(ch.file)
      own == Event(r, id, "file.changed", Watcher, None, r.request,
               [res |-> res, before |-> Version(res, r.who.wt, ch.before, id),
                after |-> Version(res, r.who.wt, ch.after, id), kind |-> "modified"])
  IN  IF ch.own THEN own
      ELSE [own EXCEPT !.agent = None, !.task = None, !.cause = None,
                       !.corr = <<"outside", id>>]

(* The signature version a symbol had in the content being replaced, when  *)
(* exactly one piece of evidence for this target is bound to that content. *)
PriorVersions(e, f) ==
  {At(log, d.body.of).body.after :
     d \in {x \in OfType(log, "evidence.derived") :
              /\ x.body.target # None /\ x.body.fact = "symbol"
              /\ x.body.srcRes = e.body.res
              /\ x.body.srcVer.val = e.body.before.val
              /\ IsA(log, x.body.of, {"symbol.changed"})
              /\ At(log, x.body.of).body.res = Symbol(f)}}

SymbolChanged(r, id, e, f) ==
  LET after == Version(Symbol(f), e.wt, Signature(e.body.after.val), e.id)
      prior == IF r.target = None THEN {} ELSE PriorVersions(e, f)
      known == Cardinality(prior) = 1
      before == CHOOSE v \in prior : known
  IN  [e EXCEPT !.id = id, !.type = "symbol.changed", !.src = Analyzer, !.cause = e.id,
         !.body = [res |-> Symbol(f), after |-> after,
                   before |-> IF known THEN [after EXCEPT !.val = before.val, !.ev = before.ev]
                              ELSE None,
                   kind |-> IF known THEN "modified" ELSE "created"]]

(* Evidence about the event of, from the source change; proof-bearing when *)
(* the call has a target and the change an agent.                          *)
DerivedEvidence(r, id, of, source, sig) ==
  LET symbol == of.type = "symbol.changed"
  IN  [of EXCEPT !.id = id, !.type = "evidence.derived", !.cause = of.id,
         !.body = [of |-> of.id, fact |-> IF symbol THEN "symbol" ELSE "dependency",
                   source |-> source.id, srcRes |-> source.body.res,
                   srcVer |-> source.body.after, sig |-> sig,
                   aim |-> r.target, target |-> IF of.agent = None THEN None ELSE r.target,
                   stable |-> IF symbol THEN of.body.res ELSE of.body.dep,
                   contract |-> IF symbol THEN None ELSE of.body.dependency]]

(***************************************************************************)
(* Task lifetimes, begun and ended by the host whenever the dispatch in    *)
(* progress awaits something.  Only Refuse, Start and Prove look at them or*)
(* at the queue: the host's steps commute with all others, and those made  *)
(* while a dispatch runs are taken before Prove or after it, calls after.  *)
(***************************************************************************)
Between == run # Idle => pc[run.call] = "proving"

Begun  == {l \in Lifecycles : lifes[l].state # "unknown"}   \* mutant of Active
Active == {l \in Lifecycles : lifes[l].state = "active"}

BeginTask(l) ==
  /\ Between /\ lifes[l].state = "unknown"
  /\ lifes' = [m \in Lifecycles |->
       CASE m = l        -> [state |-> "active", overlaps |-> Active, changes |-> {}]
         [] m \in Active -> [lifes[m] EXCEPT !.overlaps = @ \cup {l}]
         [] OTHER        -> lifes[m]]
  /\ together' = together \cup {{l, m} : m \in {n \in Lifecycles : lifes[n].state = "active"}}
  /\ UNCHANGED <<log, disk, seen, queue, pc, run, seqs, emitted, tokens, faults, wrote>>

EndTask(l) ==
  /\ Between /\ lifes[l].state = "active"
  /\ lifes' = [lifes EXCEPT ![l].state = "ended"]
  /\ UNCHANGED <<log, disk, seen, queue, pc, run, seqs, emitted, tokens, faults,
                 together, wrote>>

(***************************************************************************)
(* A dispatch up to its window.                                            *)
(***************************************************************************)
Ended == {"done", "diagnosed", "failed", "refused"}

Dispatch(c) ==
  /\ run = Idle /\ pc[c] = "new"
  /\ Call[c].after # None => pc[Call[c].after] \in Ended
  /\ queue' = Append(queue, c)
  /\ pc' = [pc EXCEPT ![c] = "queued"]
  /\ UNCHANGED <<log, disk, seen, lifes, run, seqs, emitted, tokens, faults, together, wrote>>

(* runExclusive: one dispatch at a time, in the order they were made.      *)
Turn(c) == run = Idle /\ queue # <<>> /\ c = Head(queue)

Leave(c, how) ==
  /\ pc' = [pc EXCEPT ![c] = how]
  /\ run' = Idle
  /\ queue' = Tail(queue)

Step(c, to) == pc' = [pc EXCEPT ![c] = to] /\ UNCHANGED queue

(* A call may name the target checkout, and then needs its lifetime.       *)
LifetimeFits(c, bound) == bound => lifes[Call[c].as].state = "active"

Refuse(c) ==
  /\ Turn(c)
  /\ \E bound \in Call[c].bound : ~LifetimeFits(c, bound)
  /\ Leave(c, "refused")
  /\ UNCHANGED <<log, disk, seen, lifes, seqs, emitted, tokens, faults, together, wrote>>

(* What the host may declare a dependent call to depend on: a token it was *)
(* given, a dependency of a file the call writes, and a change of what was *)
(* read.  A call declares nothing only when there is nothing to declare.   *)
Declared(c) ==
  LET S == Sufficient(log)
  IN  {[dep |-> x[1].body.dep, res |-> x[1].body.dependent, token |-> x[2],
        against |-> x[3].id, cov |-> Covering(log, S, x[3].id)] :
         x \in {y \in OfType(log, "dependency.changed") \X tokens
                        \X {e \in log : e.type \in ChangeTypes} :
                  /\ y[1].body.dependent \in {File(w[1]) : w \in Call[c].writes}
                  /\ y[3].body.res = y[2].res}}

Metadata(c) == IF Call[c].dependent /\ Declared(c) # {} THEN Declared(c) ELSE {None}

(* A dispatch reserves one sequence number for its request and one for its *)
(* completion.                                                             *)
ReservedOne(n) == n + 1   \* mutant of Reserved
Reserved(n) == n + 2

Entering(c, bound, meta) ==
  LET who == Life[Call[c].as]
  IN  [call |-> c, who |-> who, target |-> IF bound THEN Target ELSE None,
       seq |-> seqs[who.src], request |-> Fresh(1), read |-> None, meta |-> meta,
       before |-> None, foreign |-> {}, outcome |-> None, todo |-> <<>>, change |-> None,
       effects |-> {}, own |-> {}, outside |-> {}, analysed |-> {}, whole |-> FALSE,
       gap |-> FALSE, done |-> None]

(* The sequence numbers are reserved, the request is appended, and then    *)
(* the explicit read, if any, before the dispatch first gives way.         *)
Start(c) ==
  /\ Turn(c)
  /\ pc[c] = "queued"
  /\ \E bound \in Call[c].bound, meta \in Metadata(c) :
       LET r == Entering(c, bound, meta)
           reading == [r EXCEPT !.read = FileRead(r)]
       IN  /\ LifetimeFits(c, bound)
           /\ seqs' = [seqs EXCEPT ![r.who.src] = Reserved(@)]
           /\ \/ /\ Fault                          \* MCP_REQUEST_PERSIST_FAILED
                 /\ Leave(c, "failed")
                 /\ UNCHANGED log
              \/ /\ NoFault /\ Call[c].read = None
                 /\ log' = log \cup {ToolRequested(r)}
                 /\ run' = r /\ Step(c, "opening")
              \/ /\ NoFault /\ Call[c].read # None
                 /\ log' = log \cup {ToolRequested(r), reading.read}
                 /\ run' = reading /\ Step(c, "opening")
              \/ /\ Fault /\ Call[c].read # None   \* the read alone is not persisted
                 /\ log' = log \cup {ToolRequested(r)}
                 /\ run' = [reading EXCEPT !.gap = TRUE] /\ Step(c, "opening")
  /\ UNCHANGED <<disk, seen, lifes, emitted, tokens, together, wrote>>

(***************************************************************************)
(* The observation window around the executor.                             *)
(***************************************************************************)
Running(c, where) == pc[c] = where /\ run.call = c

Changes(old, new, own) ==
  {[file |-> f, before |-> old[f], after |-> new[f], own |-> own] :
     f \in {g \in Files : old[g] # new[g]}}

(* What changed since the last capture is nobody's.                        *)
BeginWindow(c) ==
  /\ Running(c, "opening")
  /\ LET w == run.who.wt
     IN  \/ /\ NoFault
            /\ run' = [run EXCEPT !.before = disk[w],
                                  !.foreign = Changes(seen[w], disk[w], FALSE)]
            /\ seen' = [seen EXCEPT ![w] = disk[w]]
         \/ /\ Fault
            /\ run' = [run EXCEPT !.gap = TRUE]
            /\ UNCHANGED seen
  /\ Step(c, "executing")
  /\ UNCHANGED <<log, disk, lifes, seqs, emitted, tokens, together, wrote>>

(* A failing executor may have written first.                              *)
Execute(c) ==
  /\ Running(c, "executing")
  /\ \E outcome \in {"succeeded", "failed"}, writes \in {{}, Call[c].writes} :
       /\ IF outcome = "succeeded" THEN NoFault /\ writes = Call[c].writes ELSE Fault
       /\ disk' = [disk EXCEPT ![run.who.wt] = [f \in Files |->
            IF \E v \in writes : v[1] = f THEN (CHOOSE v \in writes : v[1] = f)[2] ELSE @[f]]]
       /\ wrote' = wrote \cup {<<c, v[1]>> : v \in writes}
       /\ run' = [run EXCEPT !.outcome = outcome]
  /\ Step(c, "closing")
  /\ UNCHANGED <<log, seen, lifes, queue, seqs, emitted, tokens, together>>

EndWindow(c) ==
  /\ Running(c, "closing")
  /\ LET w     == run.who.wt
         both  == run.before # None
         own   == IF both THEN Changes(run.before, disk[w], TRUE) ELSE {}
         after == [run EXCEPT !.todo = SetToSeq(own) \o SetToSeq(run.foreign), !.whole = both,
                              !.gap = @ \/ ~both \/ Call[c].opaque]
     IN  \/ /\ NoFault
            /\ run' = after
            /\ seen' = [seen EXCEPT ![w] = disk[w]]
         \/ /\ Fault                               \* the window is degraded
            /\ run' = [after EXCEPT !.gap = TRUE]
            /\ seen' = [seen EXCEPT ![w] = disk[w]]
         \/ /\ Fault                               \* the capture failed
            /\ run' = [run EXCEPT !.todo = SetToSeq(run.foreign), !.gap = TRUE]
            /\ UNCHANGED seen
  /\ Step(c, "changes")
  /\ UNCHANGED <<log, disk, lifes, emitted, seqs, tokens, together, wrote>>

(***************************************************************************)
(* The changes, one by one: a change is appended, its source read again,   *)
(* and what the analyzer finds appended at once or not at all.             *)
(***************************************************************************)
(* The call's own changes are its effects; the others are kept apart.      *)
NotedAsEffect(r, e, own) ==   \* mutant of Noted
  [r EXCEPT !.change = e, !.effects = @ \cup {e.id}, !.own = IF own THEN @ \cup {e} ELSE @]

Noted(r, e, own) ==
  IF own THEN [r EXCEPT !.change = e, !.effects = @ \cup {e.id}, !.own = @ \cup {e}]
  ELSE [r EXCEPT !.change = e, !.outside = @ \cup {e.id}]

AppendChange(c) ==
  /\ Running(c, "changes")
  /\ run.todo # <<>>
  /\ LET ch   == Head(run.todo)
         e    == FileChanged(run, Fresh(1), ch)
         next == [run EXCEPT !.todo = Tail(@), !.gap = @ \/ ~ch.own]
     IN  \/ /\ NoFault
            /\ log' = log \cup {e}
            /\ run' = Noted(next, e, ch.own)
            /\ Step(c, "analysing")
         \/ /\ Fault
            /\ run' = [next EXCEPT !.gap = TRUE]
            /\ UNCHANGED <<log, pc, queue>>
  /\ UNCHANGED <<disk, seen, lifes, seqs, emitted, tokens, together, wrote>>

Analyse(c) ==
  /\ Running(c, "analysing")
  /\ LET e      == run.change
         symbol == SymbolChanged(run, Fresh(1), e, e.body.res[2])
         facts  == <<symbol, DerivedEvidence(run, Fresh(2), symbol, e, symbol.body.after.val)>>
         done   == [run EXCEPT !.change = None, !.analysed = @ \cup {e},
                               !.effects = IF e.id \in @ THEN @ \cup {symbol.id} ELSE @]
         failed == [run EXCEPT !.change = None, !.gap = TRUE]
         valid  == ValidSet(log \cup ToSet(facts))
     IN  \/ /\ disk[e.wt][e.body.res[2]] # e.body.after.val
            /\ NoFault
            /\ run' = failed /\ UNCHANGED log
         \/ /\ disk[e.wt][e.body.res[2]] = e.body.after.val
            /\ \/ /\ valid /\ NoFault
                  /\ run' = done /\ log' = log \cup ToSet(facts)
               \/ /\ IF valid THEN Fault ELSE NoFault
                  /\ run' = failed /\ UNCHANGED log
  /\ Step(c, "changes")
  /\ UNCHANGED <<disk, seen, lifes, seqs, emitted, tokens, together, wrote>>

(***************************************************************************)
(* Dependencies of what was analysed, resolved by the import when exactly  *)
(* one version of the imported symbol is known, or was read by the call.   *)
(***************************************************************************)
(* What the analyses of this call and the log say of the exported symbol   *)
(* of f: a persisted fact counts once per version and worktree.            *)
Contracts(r, f) ==
  {At(log, d.body.of).body.after : d \in {x \in OfType(log, "evidence.derived") :
     /\ x.body.fact = "symbol" /\ x.body.aim = r.target
     /\ IsA(log, x.body.of, {"symbol.changed"})
     /\ At(log, x.body.of).body.res = Symbol(f)}}

Observed(r, v) ==
  r.read = None \/ (r.read.body.ver.res = v.res /\ r.read.body.ver.val = v.val)

Matching(r, f) == {<<v.res, v.wt, v.val>> : v \in {x \in Contracts(r, f) : Observed(r, x)}}

Resolved(r) ==
  {x \in r.analysed \X Files :
     <<x[1].body.res[2], x[2]>> \in Imports /\ Cardinality(Matching(r, x[2])) = 1}

DependencyChanged(id, e, f, version) ==
  [e EXCEPT !.id = id, !.type = "dependency.changed", !.src = Analyzer, !.cause = e.id,
     !.body = [dep |-> <<e.id, version>>, dependent |-> e.body.res,
               dependency |-> Symbol(f), ver |-> version]]

Dependencies(r) ==
  LET found == SetToSeq(Resolved(r))
      change(k) == DependencyChanged(Fresh(2 * k - 1), found[k][1], found[k][2],
                                     CHOOSE v \in Matching(r, found[k][2]) : TRUE)
      evidence(k) == DerivedEvidence(r, Fresh(2 * k), change(k), found[k][1], change(k).body.ver[3])
  IN  UNION {{change(k), evidence(k)} : k \in 1..Cardinality(Resolved(r))}

Resolve(c) ==
  /\ Running(c, "changes")
  /\ run.todo = <<>>
  /\ LET facts == Dependencies(run)
         valid == facts # {} => ValidSet(log \cup facts)
     IN  \/ /\ valid /\ NoFault
            /\ log' = log \cup facts
            /\ UNCHANGED run
         \/ /\ facts # {}
            /\ IF valid THEN Fault ELSE NoFault
            /\ run' = [run EXCEPT !.gap = TRUE]
            /\ UNCHANGED log
  /\ Step(c, "completing")
  /\ UNCHANGED <<disk, seen, lifes, seqs, emitted, tokens, together, wrote>>

(***************************************************************************)
(* The completion.                                                         *)
(***************************************************************************)
(* The intercepted change a dependent write is about.                      *)
DependentWriteChanges(r) == {e \in r.own : e.body.res = r.meta.res}

Durable(r) == \E d \in OfType(log, "dependency.changed") :
  d.body.dep = r.meta.dep /\ d.body.dependent = r.meta.res

MetadataGap(r) ==
  r.meta # None /\ (DependentWriteChanges(r) = {} \/ r.who.task = None \/ ~Durable(r))

(* Every change seen is the call's own, and is what the executor reports.  *)
AttributedUnmatched(r) ==   \* mutant of Attributed
  IF r.outcome = "succeeded" /\ ~Call[r.call].opaque /\ r.outside = {} /\ ~r.gap
  THEN {e.id : e \in r.own} ELSE {}

Attributed(r) ==
  IF /\ r.outcome = "succeeded" /\ ~Call[r.call].opaque
     /\ r.own # {} /\ r.outside = {} /\ ~r.gap
     /\ {e.body.res : e \in r.own} = {File(f) : f \in Call[r.call].reports}
  THEN {e.id : e \in r.own} ELSE {}

ToolCompleted(r) ==
  Event(r, Fresh(1), "tool.completed", r.who.src, r.seq + 1, r.request,
        [request |-> r.request, outcome |-> r.outcome, effects |-> r.effects,
         attributed |-> Attributed(r)])

Complete(c) ==
  /\ Running(c, "completing")
  /\ LET r == [run EXCEPT !.gap = @ \/ MetadataGap(run)]
     IN  \/ /\ NoFault
            /\ log' = log \cup {ToolCompleted(r)}
            /\ run' = [r EXCEPT !.done = Fresh(1)]
            /\ Step(c, "claiming")
         \/ /\ Fault                               \* MCP_COMPLETION_PERSIST_FAILED
            /\ Leave(c, "failed")
            /\ UNCHANGED log
  /\ UNCHANGED <<disk, seen, lifes, seqs, emitted, tokens, together, wrote>>

(***************************************************************************)
(* The dependent write, as a proof when the call has a target.             *)
(***************************************************************************)
TokenIssued(r) ==
  /\ r.outcome = "succeeded" /\ r.read # None
  /\ "observedRead" \in Capabilities /\ r.who.task # None /\ r.target # None

ReadToken(r) ==
  [task |-> r.who.task, wt |-> r.who.wt, res |-> r.read.body.res, ver |-> r.read.body.ver,
   read |-> r.read.id, target |-> r.target]

TokenFits(r) ==
  LET token == r.meta.token
  IN  /\ ~TokenIssued(r)
      /\ <<token.wt, token.task, token.target>> = <<r.who.wt, r.who.task, r.target>>
      /\ IsA(log, token.read, {"file.read"})
      /\ LET read == At(log, token.read).body
         IN  read.res = token.res /\ read.ver = token.ver

CandidateFits(r, S) ==
  /\ IsA(log, r.meta.against, ChangeTypes)
  /\ At(log, r.meta.against).body.res = r.meta.token.res
  /\ r.meta.cov # None /\ Covering(log, S, r.meta.against) = r.meta.cov

DependentWrite(r, e, cov) ==
  Event(r, Fresh(1), "write.dependent", r.who.src, None, e.id,
    [dep |-> r.meta.dep, res |-> r.meta.res, read |-> r.meta.token.read, token |-> r.meta.token,
     against |-> r.meta.against, againstCov |-> r.meta.cov, effect |-> e.id, cov |-> cov,
     completion |-> r.done, target |-> r.target])

(* The write proof, when all it needs is there.                            *)
WriteProofs(r) ==
  LET S == Sufficient(log)
      cov(e) == Covering(log, S, e.id)
  IN  {DependentWrite(r, e, cov(e)) : e \in {x \in DependentWriteChanges(r) :
         /\ {"observedRead", "dependentToken", "exactEffects"} \subseteq Capabilities
         /\ TokenFits(r) /\ CandidateFits(r, S) /\ cov(x) # None
         /\ x.id \in At(log, r.done).body.attributed
         /\ r.whole /\ ~r.gap /\ r.outcome = "succeeded"
         /\ ValidSet(log \cup {DependentWrite(r, x, cov(x))})}}

(* Without a target, the write is recorded as the metadata states it.      *)
WriteStatements(r) ==
  {DependentWrite(r, e, <<"tool", r.request>>) :
     e \in {x \in DependentWriteChanges(r) : r.who.task # None /\ Durable(r)}}

Claims(r) == IF r.meta = None THEN {}
             ELSE IF r.target = None THEN WriteStatements(r) ELSE WriteProofs(r)

Claim(c) ==
  /\ Running(c, "claiming")
  /\ LET claims == Claims(run)
     IN  \/ /\ NoFault
            /\ log' = log \cup claims
            /\ Step(c, "proving") /\ UNCHANGED run
         \/ /\ claims # {}
            /\ Fault                               \* MCP_DEPENDENT_WRITE_PERSIST_FAILED
            /\ Leave(c, "failed") /\ UNCHANGED log
  /\ UNCHANGED <<disk, seen, lifes, seqs, emitted, tokens, together, wrote>>

(***************************************************************************)
(* Back in the gateway: the symbol changes of the call join its lifetime,  *)
(* when that has not ended, and changes of one symbol in lifetimes that    *)
(* overlapped are proofs of concurrency.                                   *)
(***************************************************************************)
SameContext(d, e) == <<d.wt, d.agent, d.task, d.corr>> = <<e.wt, e.agent, e.task, e.corr>>

EffectChanges(r) ==
  LET done == At(log, r.done)
  IN  {i \in done.body.effects :
         IsA(log, i, {"symbol.changed"}) /\ SameContext(At(log, i), done)}

Recorded(r) ==
  LET l == Call[r.call].as
  IN  IF r.target # None /\ lifes[l].state = "active"
      THEN [lifes EXCEPT ![l].changes = @ \cup EffectChanges(r)] ELSE lifes

ProvenSymbol(e) == Cardinality({d \in OfType(log, "evidence.derived") :
  d.body.target = Target /\ d.body.fact = "symbol" /\ d.body.of = e.id}) = 1

OwnersActive(ls, l, e) ==   \* mutant of Owners
  {m \in Lifecycles \ {l} : <<Life[m].task, Life[m].agent, Life[m].wt>> = <<e.task, e.agent, e.wt>>
                            /\ e.id \in ls[m].changes /\ ls[m].state = "active"}

Owners(ls, l, e) ==
  {m \in Lifecycles \ {l} : <<Life[m].task, Life[m].agent, Life[m].wt>> = <<e.task, e.agent, e.wt>>
                            /\ e.id \in ls[m].changes}

(* The pairs of changes, one of them of the lifetime l, that are concurrent*)
Concurs(ls, l, S, x, y) ==
  /\ x.id \in ls[l].changes
  /\ x.id # y.id /\ x.body.res = y.body.res
  /\ y.task # None /\ y.agent # None
  /\ Cardinality(Owners(ls, l, y)) = 1
  /\ Owners(ls, l, y) \subseteq ls[l].overlaps
  /\ y.wt # Life[l].wt /\ y.agent # Life[l].agent
  /\ ProvenSymbol(x) /\ ProvenSymbol(y)
  /\ {x.id, y.id} \notin emitted
  /\ Covering(log, S, x.id) # None

Concurrent(ls, l) ==
  LET S == Sufficient(log)
      symbols == OfType(log, "symbol.changed")
  IN  {p \in symbols \X symbols : Concurs(ls, l, S, p[1], p[2])}

ProofId(x, y) == <<"proof", {x.id, y.id}>>

ConcurrencyProof(ls, l, x, y) ==
  LET m     == CHOOSE o \in Owners(ls, l, y) : TRUE
      first == IF \A i \in x.id[2], j \in y.id[2] : i < j THEN x ELSE y
      both  == <<first, IF first = x THEN y ELSE x>>
      life(e) == IF e.task = Life[l].task THEN l ELSE m
      of(F(_)) == <<F(both[1]), F(both[2])>>
  IN  [x EXCEPT !.id = ProofId(x, y), !.type = "task.concurrency.observed", !.src = Life[l].src,
         !.cause = x.id,
         !.body = [task |-> of(LAMBDA e : e.task), agent |-> of(LAMBDA e : e.agent),
                   wt |-> of(LAMBDA e : e.wt), change |-> of(LAMBDA e : e.id),
                   life |-> of(life), cov |-> Covering(log, Sufficient(log), x.id),
                   target |-> Target]]

(* A proof is appended when the log stays valid with it, which depends on  *)
(* no other proof: their order is left out.                                *)
Accepted(p) == ~Has(log, p.id) /\ ValidSet(log \cup {p})

(* The evidence of the call can be read back whole.                        *)
SliceReadable(r) ==
  LET done == At(log, r.done)
  IN  /\ IsA(log, done.body.request, {"tool.requested"})
      /\ done.cause = done.body.request /\ SameContext(At(log, done.body.request), done)
      /\ \A i \in done.body.effects :
           /\ Has(log, i)
           /\ IsA(log, i, {"file.changed"}) =>
                At(log, i).cause = done.body.request /\ SameContext(At(log, i), done)

Prove(c) ==
  /\ Running(c, "proving")
  /\ LET l     == Call[c].as
         ls    == Recorded(run)
         pairs == IF run.target # None THEN Concurrent(ls, l) ELSE {}
     IN  \E lost \in {{}} \cup {{p} : p \in pairs} :
           /\ IF lost = {} THEN NoFault ELSE Fault  \* an append that fails is swallowed
           /\ lifes' = ls
           /\ log' = log \cup {p \in {ConcurrencyProof(ls, l, q[1], q[2]) : q \in pairs \ lost} :
                                  Accepted(p)}
           /\ emitted' = emitted \cup {q \in {{p[1].id, p[2].id} : p \in pairs \ lost} :
                                         <<"proof", q>> \in {e.id : e \in log'}}
  /\ tokens' = tokens \cup IF TokenIssued(run) THEN {ReadToken(run)} ELSE {}
  /\ Leave(c, IF SliceReadable(run) THEN "done" ELSE "diagnosed")
  /\ UNCHANGED <<disk, seen, seqs, together, wrote>>

(* Another process, or a person, edits a checkout, taken when the running  *)
(* dispatch looks at it next; what its executor overwrites is left out.    *)
OutsideEdit(w, f, v) ==
  /\ run # Idle => run.who.wt = w /\ pc[run.call] \in {"opening", "closing", "analysing"}
  /\ Fault
  /\ disk[w][f] # v
  /\ disk' = [disk EXCEPT ![w][f] = v]
  /\ wrote' = wrote \cup {<<w, f>>}
  /\ UNCHANGED <<log, seen, lifes, queue, pc, run, seqs, emitted, tokens, together>>

GatewayNext ==
  \/ \E l \in Lifecycles : BeginTask(l) \/ EndTask(l)
  \/ \E c \in Calls : Dispatch(c) \/ Refuse(c) \/ Start(c) \/ BeginWindow(c) \/ Execute(c)
                      \/ EndWindow(c) \/ AppendChange(c) \/ Analyse(c) \/ Resolve(c)
                      \/ Complete(c) \/ Claim(c) \/ Prove(c)
  \/ \E w \in Worktrees, x \in Foreign : OutsideEdit(w, x[1], x[2])

Spec == Init /\ [][GatewayNext]_gatewayVars
=============================================================================
