------------------------------- MODULE Mailbox -------------------------------
(***************************************************************************)
(* Mail between agents: packages/query/src/mailbox.ts, and the three       *)
(* surfaces that put it before an agent.                                   *)
(*                                                                         *)
(* A message is an event of the ledger.  Each hook and each tool call is a *)
(* process: the session-start hook (gateway/src/session-start-bin.ts), an  *)
(* inbox pull (gateway/src/server.ts) and the hook after a tool call       *)
(* (recorder/src/bin.ts).  They share the ledger, the directory of         *)
(* delivery markers, the file that remembers what a session was told and   *)
(* the call counter, and interleave between any two of their steps; any of *)
(* them may die.  Texts are reduced to sizes, clocks to one clock.         *)
(***************************************************************************)
EXTENDS Integers, FiniteSets, Sequences, FiniteSetsExt

CONSTANTS
    Agents,
    None,        \* no agent: a host that names no session, a pull that names none
    Readers,     \* who starts sessions and pulls: agents, or None
    Broadcast,
    Messages,
    To,          \* the audience of a message: an agent or Broadcast
    Size,        \* the bytes of a rendered message
    Lifetime,    \* the time from sending to expiry
    Recaps,      \* the sizes a recap can have; 0 when there is nothing to recap
    InboxCap,    \* INBOX_CAP, 20
    MaxContext,  \* MAX_CONTEXT_BYTES, 4000
    Repeat,      \* REPEAT_SUPPRESSION_MS, 5 minutes
    MaxSessions, \* MAX_SESSIONS, 32
    Every,       \* MAILBOX_DELIVER_EVERY, 8
    MarkerTTL,   \* DELIVERED_MARKER_TTL_MS, 7 days
    Procs,
    MaxRuns,     \* bound: the hooks and calls ever made
    MaxFaults,   \* bound: deaths and failed writes
    MaxTime      \* bound

ASSUME MailAssumption ==
    /\ None \notin Agents /\ Broadcast \notin Agents
    /\ Readers \subseteq Agents \cup {None}
    /\ To \in [Messages -> Agents \cup {Broadcast}]
    /\ Size \in [Messages -> Nat \ {0}] /\ Lifetime \in [Messages -> Nat \ {0}]
    /\ Recaps \subseteq Nat
    /\ {InboxCap, MaxContext, Repeat, MaxSessions, Every, MarkerTTL, MaxRuns,
        MaxFaults, MaxTime} \subseteq Nat
    /\ Every > 0

VARIABLES
    now,
    sent,       \* the agent.message.sent events, as they were appended
    delivered,  \* how many agent.message.delivered events a pair has, by channel
    acks,       \* the agent.message.acknowledged events
    markers,    \* delivered/<message>.<agent>, with their mtimes
    told,       \* session-start.json: what each session was last told, and when
    counter,    \* mailbox-counter
    proc,       \* the running hooks and calls
    seen,       \* history: what was written to which agent
    printed,    \* history: the contexts a session was given
    gone,       \* history: what processes held that died before they wrote it
    runs, faults

mail == <<sent, delivered, acks, markers>>
history == <<seen, printed, gone>>
vars == <<now, mail, told, counter, proc, history, runs, faults>>

Channels == {"session_start", "mcp_pull"}
Idle == [pc |-> "idle", who |-> None, recap |-> 0, mail |-> {}, told |-> <<>>,
         count |-> 0]

-----------------------------------------------------------------------------
(* The inbox.                                                              *)

SentAt(m) == (CHOOSE i \in DOMAIN sent : sent[i].msg = m)
Sent == {sent[i].msg : i \in DOMAIN sent}
Expires(m) == sent[SentAt(m)].at + Lifetime[m]
Expired(m) == Expires(m) <= now
Addressed(a, m) == To[m] \in {a, Broadcast}
HasMarker(a, m) == \E k \in markers : k.msg = m /\ k.agent = a

(* Mutated form: only the markers of the after-call hook are looked at.    *)
DeliveredByMarker(a) == {m \in Sent : HasMarker(a, m)}
DeliveredToSelf(a) ==
    {m \in Sent : a \in Agents
                    /\ (HasMarker(a, m) \/ \E c \in Channels : delivered[c][<<a, m>>] > 0)}

Waiting(a) ==
    {m \in Sent : Addressed(a, m) /\ ~Expired(m) /\ m \notin DeliveredToSelf(a)}

(* A stable sort, the latest timestamp first: what comes before what.      *)
NewestFirst(m, n) ==
    LET i == SentAt(m) j == SentAt(n) IN
    sent[i].at > sent[j].at \/ (sent[i].at = sent[j].at /\ i < j)

readInbox(a) ==
    {m \in Waiting(a) : Cardinality({n \in Waiting(a) : NewestFirst(n, m)}) < InboxCap}

(* The longest run of the oldest rows that fits.                           *)
buildMailboxBlock(rows, budget) ==
    {m \in rows :
        MapThenSumSet(LAMBDA n : Size[n], {n \in rows : n = m \/ NewestFirst(m, n)}) <= budget}

undeliveredCount ==
    Cardinality({m \in Sent : /\ ~Expired(m)
                              /\ ~\E a \in Agents : m \in DeliveredToSelf(a)})

-----------------------------------------------------------------------------
Init ==
    /\ now = 0
    /\ sent = <<>>
    /\ delivered = [c \in Channels |-> [p \in Agents \X Messages |-> 0]]
    /\ acks = {} /\ markers = {}
    /\ told = <<>>
    /\ counter = 0
    /\ proc = [p \in Procs |-> Idle]
    /\ seen = {} /\ printed = {} /\ gone = {}
    /\ runs = 0 /\ faults = 0

sendMail(m) ==
    /\ m \notin Sent
    /\ sent' = Append(sent, [msg |-> m, at |-> now])
    /\ UNCHANGED <<now, delivered, acks, markers, told, counter, proc, history, runs, faults>>

acknowledgeMessage(a, m) ==
    /\ m \in Sent /\ ~Expired(m)
    /\ runs < MaxRuns
    /\ acks' = acks \cup {[msg |-> m, by |-> a]}
    /\ runs' = runs + 1
    /\ UNCHANGED <<now, sent, delivered, markers, told, counter, proc, history, faults>>

Begin(p, r) ==
    /\ proc[p] = Idle
    /\ runs < MaxRuns
    /\ proc' = [proc EXCEPT ![p] = r]
    /\ runs' = runs + 1

Goto(p, step) == proc' = [proc EXCEPT ![p].pc = step]
Finish(p) == proc' = [proc EXCEPT ![p] = Idle]

(* One delivered event for each id.                                        *)
markDelivered(c, a, S) ==
    delivered' = [delivered EXCEPT ![c] =
        [q \in Agents \X Messages |-> @[q] + IF q[1] = a /\ q[2] \in S THEN 1 ELSE 0]]

(* A mark that fails is recorded in answers.ndjson and changes nothing.    *)
Fail == faults < MaxFaults /\ faults' = faults + 1

-----------------------------------------------------------------------------
(* The session-start hook: read and build, claim the injection, write it,  *)
(* mark what was in it.                                                    *)

Budget(recap) == MaxContext - recap

StartSession(p, a, recap) ==
    LET block == buildMailboxBlock(readInbox(a), Budget(recap))
    IN /\ recap # 0 \/ block # {}
       /\ Begin(p, [Idle EXCEPT !.pc = "claim", !.who = a, !.recap = recap, !.mail = block])
       /\ UNCHANGED <<now, mail, told, counter, history, faults>>

Context(r) == [recap |-> r.recap, mail |-> r.mail]
(* Mutated form: a repeat is recognised whoever it was given to.           *)
RepeatedByAny(r) == \E s \in DOMAIN told : /\ told[s].digest = Context(r)
                                           /\ now - told[s].at < Repeat
Repeated(r) == /\ r.who \in DOMAIN told
               /\ told[r.who].digest = Context(r)
               /\ now - told[r.who].at < Repeat

(* Mutated form: the mail is marked before the claim is known to win.      *)
QuietMarks(p) ==
    /\ proc[p].pc = "claim" /\ proc[p].who # None
    /\ Repeated(proc[p])
    /\ markDelivered("session_start", proc[p].who, proc[p].mail)
    /\ Finish(p)
    /\ UNCHANGED <<now, sent, acks, markers, told, counter, history, runs, faults>>

StayQuiet(p) ==
    /\ proc[p].pc = "claim" /\ proc[p].who # None
    /\ Repeated(proc[p])
    /\ Finish(p)
    /\ UNCHANGED <<now, mail, told, counter, history, runs, faults>>

(* A host that names no session is given the context every time.           *)
ReadTold(p) ==
    /\ proc[p].pc = "claim" /\ ~(proc[p].who # None /\ Repeated(proc[p]))
    /\ proc' = [proc EXCEPT ![p].pc = IF proc[p].who = None THEN "write" ELSE "remember",
                            ![p].told = told]
    /\ UNCHANGED <<now, mail, told, counter, history, runs, faults>>

(* The whole file as it was read, with this session's entry, the latest    *)
(* MaxSessions entries of it.                                              *)
Kept(f) == {S \in SUBSET DOMAIN f :
              /\ Cardinality(S) = Min({MaxSessions, Cardinality(DOMAIN f)})
              /\ \A s \in S, t \in DOMAIN f \ S : f[s].at >= f[t].at}

Remember(p) ==
    LET r == proc[p]
        all == [s \in DOMAIN r.told \cup {r.who} |->
                  IF s = r.who THEN [digest |-> Context(r), at |-> now] ELSE r.told[s]]
    IN /\ r.pc = "remember"
       /\ \/ \E S \in Kept(all) : told' = [s \in S |-> all[s]] /\ UNCHANGED faults
          \/ Fail /\ UNCHANGED told
       /\ proc' = [proc EXCEPT ![p].pc = "write", ![p].told = <<>>]
       /\ UNCHANGED <<now, mail, counter, history, runs>>

WriteContext(p) ==
    LET r == proc[p]
    IN /\ r.pc = "write"
       /\ seen' = seen \cup {r.who} \X r.mail
       /\ printed' = printed \cup {[who |-> r.who, digest |-> Context(r)]}
       /\ IF r.who = None \/ r.mail = {} THEN Finish(p) ELSE Goto(p, "mark")
       /\ UNCHANGED <<now, mail, told, counter, gone, runs, faults>>

markSessionStartDelivered(p) ==
    /\ proc[p].pc = "mark"
    /\ \/ markDelivered("session_start", proc[p].who, proc[p].mail) /\ UNCHANGED faults
       \/ Fail /\ UNCHANGED delivered
    /\ Finish(p)
    /\ UNCHANGED <<now, sent, acks, markers, told, counter, history, runs>>

-----------------------------------------------------------------------------
(* A pull.  The server reads and marks in one turn of its event loop, so   *)
(* an agent has one pull between the two; the answer follows the mark.     *)

Pulling(a) == \E p \in Procs : proc[p].pc = "pulled" /\ proc[p].who = a

Pull(p, a) ==
    /\ ~Pulling(a)
    /\ readInbox(a) # {}
    /\ Begin(p, [Idle EXCEPT !.pc = IF a = None THEN "answer" ELSE "pulled",
                             !.who = a, !.mail = readInbox(a)])
    /\ UNCHANGED <<now, mail, told, counter, history, faults>>

MarkPulled(p) ==
    /\ proc[p].pc = "pulled"
    /\ \/ markDelivered("mcp_pull", proc[p].who, proc[p].mail) /\ UNCHANGED faults
       \/ Fail /\ UNCHANGED delivered
    /\ Goto(p, "answer")
    /\ UNCHANGED <<now, sent, acks, markers, told, counter, history, runs>>

Answer(p) ==
    /\ proc[p].pc = "answer"
    /\ seen' = seen \cup {proc[p].who} \X proc[p].mail
    /\ Finish(p)
    /\ UNCHANGED <<now, mail, told, counter, printed, gone, runs, faults>>

-----------------------------------------------------------------------------
(* The hook after a tool call: count the call, and at every eighth look    *)
(* for one message, write it and leave a marker.                           *)

ReadCounter(p, a) ==
    /\ Begin(p, [Idle EXCEPT !.pc = "count", !.who = a, !.count = counter + 1])
    /\ UNCHANGED <<now, mail, told, counter, history, faults>>

WriteCounter(p) ==
    /\ proc[p].pc = "count"
    /\ counter' = proc[p].count
    /\ IF proc[p].count % Every = 0 THEN Goto(p, "push") ELSE Finish(p)
    /\ UNCHANGED <<now, mail, told, history, runs, faults>>

(* The first message of the ledger with no marker: what was pulled, or     *)
(* shown at a session start, is not asked.                                 *)
Pending(a) ==
    {m \in Sent : ~Expired(m) /\ Addressed(a, m) /\ ~HasMarker(a, m)}
findPendingMail(a) ==
    {m \in Pending(a) : \A n \in Pending(a) : SentAt(m) <= SentAt(n)}

Push(p) ==
    LET whose == proc[p].who found == findPendingMail(whose)
    IN /\ proc[p].pc = "push"
       /\ seen' = seen \cup {whose} \X found
       /\ proc' = [proc EXCEPT ![p] = IF found = {} THEN Idle
                                      ELSE [@ EXCEPT !.pc = "note", !.mail = found]]
       /\ UNCHANGED <<now, mail, told, counter, printed, gone, runs, faults>>

recordMailDelivery(p) ==
    LET whose == proc[p].who
    IN /\ proc[p].pc = "note"
       /\ \/ /\ markers' = {k \in markers : k.agent # whose \/ k.msg \notin proc[p].mail}
                             \cup {[msg |-> m, agent |-> whose, at |-> now] : m \in proc[p].mail}
             /\ UNCHANGED faults
          \/ Fail /\ UNCHANGED markers
       /\ Finish(p)
       /\ UNCHANGED <<now, sent, delivered, acks, told, counter, history, runs>>

(* At a session's end.                                                     *)
(* Mutated form: a marker is removed one unit early.                       *)
OldMarkersEarly == {k \in markers : now - k.at >= MarkerTTL - 1}
OldMarkers == {k \in markers : now - k.at > MarkerTTL}
cleanupDeliveredMarkers ==
    /\ OldMarkers # {}
    /\ markers' = markers \ OldMarkers
    /\ UNCHANGED <<now, sent, delivered, acks, told, counter, proc, history, runs, faults>>

-----------------------------------------------------------------------------
Crash(p) ==
    /\ proc[p] # Idle
    /\ Fail
    /\ gone' = gone \cup
         {[pc |-> r.pc, who |-> r.who, digest |-> Context(r)] :
            r \in {s \in {proc[p]} : s.pc \in {"write", "answer"}}}
    /\ Finish(p)
    /\ UNCHANGED <<now, mail, told, counter, seen, printed, runs>>

Tick ==
    /\ now < MaxTime
    /\ now' = now + 1
    /\ UNCHANGED <<mail, told, counter, proc, history, runs, faults>>

Step(p) ==
    \/ \E a \in Readers, recap \in Recaps : StartSession(p, a, recap)
    \/ StayQuiet(p) \/ ReadTold(p) \/ Remember(p) \/ WriteContext(p)
    \/ markSessionStartDelivered(p)
    \/ \E a \in Readers : Pull(p, a)
    \/ MarkPulled(p) \/ Answer(p)
    \/ \E a \in Agents : ReadCounter(p, a)
    \/ WriteCounter(p) \/ Push(p) \/ recordMailDelivery(p)
    \/ Crash(p)

Next ==
    \/ \E m \in Messages : sendMail(m)
    \/ \E a \in Agents, m \in Messages : acknowledgeMessage(a, m)
    \/ \E p \in Procs : Step(p)
    \/ cleanupDeliveredMarkers
    \/ Tick

Spec == Init /\ [][Next]_vars
-----------------------------------------------------------------------------
(* Every variable has its type.                                            *)
Digest == [recap : Nat, mail : SUBSET Messages]
Steps == {"idle", "claim", "remember", "write", "mark", "pulled", "answer", "count",
          "push", "note"}
ToldOK(f) ==
    /\ DOMAIN f \subseteq Agents
    /\ \A s \in DOMAIN f : f[s] \in [digest : Digest, at : Nat]
ProcessOK(r) ==
    /\ DOMAIN r = DOMAIN Idle
    /\ r.pc \in Steps /\ r.who \in Agents \cup {None}
    /\ r.recap \in Nat /\ r.mail \subseteq Messages /\ r.count \in Nat
    /\ ToldOK(r.told)
    /\ r.who = None => r.pc \in {"idle", "claim", "write", "answer"}
TypeOK ==
    /\ now \in Nat
    /\ sent \in Seq([msg : Messages, at : Nat])
    /\ delivered \in [Channels -> [Agents \X Messages -> Nat]]
    /\ acks \subseteq [msg : Messages, by : Agents]
    /\ markers \subseteq [msg : Messages, agent : Agents, at : Nat]
    /\ ToldOK(told)
    /\ counter \in Nat
    /\ DOMAIN proc = Procs
    /\ \A p \in Procs : ProcessOK(proc[p])
    /\ seen \subseteq (Agents \cup {None}) \X Messages
    /\ printed \subseteq [who : Agents \cup {None}, digest : Digest]
    /\ gone \subseteq [pc : {"write", "answer"}, who : Agents \cup {None}, digest : Digest]
    /\ runs \in Nat /\ faults \in Nat

(* Handed: the message was written to the agent, or is in an answer whose  *)
(* process is about to write it or died before it did.                     *)
Handed(a, m) ==
    \/ <<a, m>> \in seen
    \/ \E p \in Procs : proc[p].pc = "answer" /\ proc[p].who = a /\ m \in proc[p].mail
    \/ \E g \in gone : g.pc = "answer" /\ g.who = a /\ m \in g.digest.mail

(* Mail is not lost: an inbox hides from an agent only what was put before *)
(* that agent, whatever fires were suppressed, marks failed or processes   *)
(* died (only the death of a server between its mark and its answer can    *)
(* take a message along), and what nobody was given is counted as waiting. *)
HiddenWasShown ==
    /\ \A a \in Agents, m \in Sent : m \in DeliveredToSelf(a) => Handed(a, m)
    /\ Cardinality({m \in Sent : ~Expired(m) /\ ~\E a \in Agents : Handed(a, m)})
         <= undeliveredCount

(* A pull returns only new mail: no message is marked as pulled twice for  *)
(* one agent, however pulls, session starts and pushes interleave.         *)
PullsOnlyNew ==
    \A a \in Agents, m \in Messages : delivered["mcp_pull"][<<a, m>>] <= 1

(* A session start that stays quiet does so on account of a context that   *)
(* this very session was given, is being given by another process, or      *)
(* would have been given by one that died: of nobody else's, and of no     *)
(* other context.                                                          *)
QuietWasTold == [][
    \A p \in Procs :
      proc[p].pc = "claim" /\ proc'[p] = Idle /\ faults' = faults =>
        LET c == [who |-> proc[p].who, digest |-> Context(proc[p])]
        IN \/ c \in printed
           \/ \E q \in Procs \ {p} : /\ proc[q].pc = "write" /\ proc[q].who = c.who
                                     /\ Context(proc[q]) = c.digest
           \/ \E g \in gone : g.pc = "write" /\ g.who = c.who /\ g.digest = c.digest]_vars

(* A message with the default lifetime, once hidden from an agent, stays   *)
(* hidden until it expires: the clean-up of the markers at a session's end *)
(* never brings mail back.                                                 *)
HiddenStays == [][
    \A a \in Agents, m \in Sent :
      Lifetime[m] <= MarkerTTL /\ m \in DeliveredToSelf(a) =>
        m \in DeliveredToSelf(a)' \/ Expired(m)']_vars

-----------------------------------------------------------------------------
(* Why they hold.  A message is sent once, and not in the future.          *)
SentOnce ==
    /\ \A i, j \in DOMAIN sent : sent[i].msg = sent[j].msg => i = j
    /\ \A i \in DOMAIN sent : sent[i].at <= now

(* What marks a message for an agent was written to that agent before, or, *)
(* for a pull, is on its way; a marker is no older than its message.       *)
MarkersTrue ==
    \A k \in markers :
       <<k.agent, k.msg>> \in seen /\ k.msg \in Sent /\ k.at >= sent[SentAt(k.msg)].at
CountsTrue ==
    \A a \in Agents, m \in Messages :
       /\ delivered["session_start"][<<a, m>>] > 0 => <<a, m>> \in seen
       /\ delivered["mcp_pull"][<<a, m>>] > 0 => Handed(a, m)
MarkingTrue ==
    \A p \in Procs :
       /\ proc[p].pc \in {"mark", "note"} => {proc[p].who} \X proc[p].mail \subseteq seen
       /\ proc[p].pc = "note" => proc[p].mail \subseteq Sent

(* Between its read and its mark a pull is alone with its agent, and what  *)
(* it read was not pulled before.                                          *)
PullsApart ==
    /\ \A p \in Procs : proc[p].pc = "pulled" =>
          \A m \in proc[p].mail : delivered["mcp_pull"][<<proc[p].who, m>>] = 0
    /\ \A p, q \in Procs :
          proc[p].pc = "pulled" /\ proc[q].pc = "pulled" /\ proc[p].who = proc[q].who => p = q

(* What the file, or a copy of it about to be written back, remembers of a *)
(* session that session was given, is being given, or died before it was.  *)
Given(s, d) ==
    \/ [who |-> s, digest |-> d] \in printed
    \/ \E p \in Procs : proc[p].pc = "write" /\ proc[p].who = s /\ Context(proc[p]) = d
    \/ [pc |-> "write", who |-> s, digest |-> d] \in gone
ToldWasGiven ==
    /\ \A s \in DOMAIN told : Given(s, told[s].digest)
    /\ \A p \in Procs : proc[p].pc = "remember" =>
          \A s \in DOMAIN proc[p].told : Given(s, proc[p].told[s].digest)

MailInv ==
    /\ TypeOK /\ SentOnce /\ MarkersTrue /\ CountsTrue /\ MarkingTrue
    /\ PullsOnlyNew /\ PullsApart /\ ToldWasGiven
=============================================================================
