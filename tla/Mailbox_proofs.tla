--------------------------- MODULE Mailbox_proofs ---------------------------
(***************************************************************************)
(* That mail is neither lost nor pulled twice, for any agents, messages,   *)
(* hooks, deaths and bounds.                                               *)
(***************************************************************************)
EXTENDS Mailbox, FiniteSetTheorems, SequenceTheorems, TLAPS

(* A record of a process with some fields replaced still is one.           *)
LEMMA ProcTypes ==
    ASSUME TypeOK, NEW p \in Procs
    PROVE  /\ proc[p].pc \in Steps /\ proc[p].who \in Agents \cup {None}
           /\ proc[p].recap \in Nat /\ proc[p].mail \subseteq Messages
           /\ proc[p].count \in Nat /\ Context(proc[p]) \in Digest
  BY DEF TypeOK, ProcessOK, Context, Digest

LEMMA SentTypes ==
    ASSUME TypeOK
    PROVE  /\ \A i \in DOMAIN sent : sent[i].msg \in Messages /\ sent[i].at \in Nat
           /\ Sent \subseteq Messages
  <1> DEFINE Row == [msg : Messages, at : Nat]
  <1>1. sent \in Seq(Row)
    BY DEF TypeOK
  <1>2. \A r \in Row : r.msg \in Messages /\ r.at \in Nat
    OBVIOUS
  <1> HIDE DEF Row
  <1>3. \A i \in DOMAIN sent : sent[i] \in Row
    BY <1>1
  <1> QED BY <1>2, <1>3 DEF Sent

(* What a mark does to the counts.                                         *)
LEMMA MarkCounts ==
    ASSUME TypeOK, NEW c \in Channels, NEW a, NEW S, markDelivered(c, a, S)
    PROVE  /\ delivered' \in [Channels -> [Agents \X Messages -> Nat]]
           /\ \A d \in Channels, b \in Agents, m \in Messages :
                 delivered'[d][<<b, m>>] = delivered[d][<<b, m>>]
                    + IF d = c /\ b = a /\ m \in S THEN 1 ELSE 0
  <1> DEFINE New == [q \in Agents \X Messages |->
                       delivered[c][q] + IF q[1] = a /\ q[2] \in S THEN 1 ELSE 0]
  <1>1. \A d \in Channels : delivered[d] \in [Agents \X Messages -> Nat]
    BY DEF TypeOK
  <1>2. \A q \in Agents \X Messages :
           delivered[c][q] + (IF q[1] = a /\ q[2] \in S THEN 1 ELSE 0) \in Nat
    BY <1>1
  <1>3. New \in [Agents \X Messages -> Nat]
    BY <1>2
  <1>4. delivered' = [delivered EXCEPT ![c] = New]
    BY DEF markDelivered
  <1>5. DOMAIN delivered = Channels
    BY DEF TypeOK
  <1> HIDE DEF New
  <1>6. delivered' \in [Channels -> [Agents \X Messages -> Nat]]
    BY <1>1, <1>3, <1>4, <1>5 DEF TypeOK
  <1>7. ASSUME NEW d \in Channels, NEW b \in Agents, NEW m \in Messages
        PROVE  delivered'[d][<<b, m>>] = delivered[d][<<b, m>>]
                    + IF d = c /\ b = a /\ m \in S THEN 1 ELSE 0
    <2>1. <<b, m>> \in Agents \X Messages
      OBVIOUS
    <2>2. delivered[d][<<b, m>>] \in Nat
      BY <1>1, <2>1
    <2>3. CASE d # c
      BY <1>4, <1>5, <2>2, <2>3
    <2>4. CASE d = c
      <3>1. delivered'[d] = New
        BY <1>4, <1>5, <2>4
      <3>2. New[<<b, m>>] = delivered[c][<<b, m>>] + IF b = a /\ m \in S THEN 1 ELSE 0
        BY <2>1 DEF New
      <3> QED BY <3>1, <3>2, <2>4
    <2> QED BY <2>3, <2>4
  <1> QED BY <1>6, <1>7

(* What an inbox shows is sent mail that no channel has marked.            *)
LEMMA InboxFresh ==
    ASSUME TypeOK, NEW a
    PROVE  \A m \in readInbox(a) :
              /\ m \in Sent /\ m \in Messages /\ m \notin DeliveredToSelf(a)
              /\ a \in Agents => delivered["mcp_pull"][<<a, m>>] = 0
  <1> SUFFICES ASSUME NEW m \in readInbox(a)
               PROVE  /\ m \in Sent /\ m \in Messages /\ m \notin DeliveredToSelf(a)
                      /\ a \in Agents => delivered["mcp_pull"][<<a, m>>] = 0
    OBVIOUS
  <1>1. m \in Sent /\ m \notin DeliveredToSelf(a)
    BY DEF readInbox, Waiting
  <1>2. m \in Messages
    BY <1>1, SentTypes
  <1>3. ASSUME a \in Agents PROVE delivered["mcp_pull"][<<a, m>>] = 0
    <2>1. ~(delivered["mcp_pull"][<<a, m>>] > 0)
      BY <1>1, <1>3 DEF DeliveredToSelf, Channels
    <2>2. <<a, m>> \in Agents \X Messages
      BY <1>2, <1>3
    <2>3. delivered["mcp_pull"] \in [Agents \X Messages -> Nat]
      BY DEF TypeOK, Channels
    <2>4. delivered["mcp_pull"][<<a, m>>] \in Nat
      BY <2>2, <2>3
    <2> QED BY <2>1, <2>4
  <1> QED BY <1>1, <1>2, <1>3

(* A sent message has one event, at SentAt.                                *)
LEMMA SentWhere ==
    ASSUME SentOnce, NEW i \in DOMAIN sent
    PROVE  SentAt(sent[i].msg) = i
  BY DEF SentOnce, SentAt

LEMMA SentIn ==
    ASSUME NEW n \in Sent
    PROVE  SentAt(n) \in DOMAIN sent /\ sent[SentAt(n)].msg = n
  <1>1. \E i \in DOMAIN sent : sent[i].msg = n
    BY DEF Sent
  <1> QED BY <1>1 DEF SentAt

(* The events of messages sent earlier stay where they are.                *)
LEMMA SentStays ==
    ASSUME TypeOK, SentOnce, NEW m \in Messages, sendMail(m)
    PROVE  /\ SentOnce'
           /\ Sent' = Sent \cup {m}
           /\ \A n \in Sent : SentAt(n)' = SentAt(n) /\ sent'[SentAt(n)] = sent[SentAt(n)]
  <1> DEFINE e == [msg |-> m, at |-> now]
  <1>1. /\ sent' = Append(sent, e) /\ m \notin Sent /\ now' = now
        /\ sent \in Seq([msg : Messages, at : Nat]) /\ now \in Nat
    BY DEF sendMail, TypeOK
  <1>2. /\ DOMAIN sent = 1 .. Len(sent) /\ Len(sent) \in Nat
        /\ DOMAIN sent' = 1 .. Len(sent) + 1
        /\ \A i \in DOMAIN sent : sent'[i] = sent[i]
        /\ sent'[Len(sent) + 1] = e
    BY <1>1
  <1>3. \A i \in DOMAIN sent : sent[i].msg # m
    BY <1>1 DEF Sent
  <1>4. SentOnce'
    <2>1. \A i \in DOMAIN sent' : i \in DOMAIN sent \/ i = Len(sent) + 1
      BY <1>2
    <2>2. \A i, j \in DOMAIN sent' : sent'[i].msg = sent'[j].msg => i = j
      BY <1>2, <1>3, <2>1 DEF SentOnce
    <2>3. \A i \in DOMAIN sent' : sent'[i].at <= now'
      BY <1>1, <1>2, <2>1 DEF SentOnce
    <2> QED BY <2>2, <2>3 DEF SentOnce
  <1>5. Sent' = Sent \cup {m}
    BY <1>2 DEF Sent
  <1>6. ASSUME NEW n \in Sent
        PROVE  SentAt(n)' = SentAt(n) /\ sent'[SentAt(n)] = sent[SentAt(n)]
    <2>1. SentAt(n) \in DOMAIN sent /\ sent[SentAt(n)].msg = n
      BY SentIn
    <2>2. SentAt(n) \in DOMAIN sent' /\ sent'[SentAt(n)].msg = n
      BY <2>1, <1>2
    <2>3. \A i \in DOMAIN sent' : sent'[i].msg = n => i = SentAt(n)
      BY <2>2, <1>4 DEF SentOnce
    <2>4. (CHOOSE i \in DOMAIN sent' : sent'[i].msg = n) = SentAt(n)
      BY <2>2, <2>3
    <2> QED BY <2>1, <2>4, <1>2 DEF SentAt
  <1> QED BY <1>4, <1>5, <1>6

(* A step that gives one process a new record, and what that record says.  *)
LEMMA ProcessStep ==
    ASSUME TypeOK, NEW p \in Procs, NEW r, ProcessOK(r), proc' = [proc EXCEPT ![p] = r]
    PROVE  DOMAIN proc' = Procs /\ \A q \in Procs : ProcessOK(proc'[q])
  BY DEF TypeOK

LEMMA IdleOK == ProcessOK(Idle)
  BY DEF ProcessOK, Idle, ToldOK, Steps

LEMMA Moved ==
    ASSUME TypeOK, NEW p \in Procs, NEW pc \in Steps,
           proc[p].who = None => pc \in {"idle", "claim", "write", "answer"}
    PROVE  /\ ProcessOK([proc[p] EXCEPT !.pc = pc])
           /\ \A held \in SUBSET Messages :
                 ProcessOK([proc[p] EXCEPT !.pc = pc, !.mail = held])
           /\ ProcessOK([proc[p] EXCEPT !.pc = pc, !.told = told])
           /\ ProcessOK([proc[p] EXCEPT !.pc = pc, !.told = <<>>])
  BY DEF TypeOK, ProcessOK, Idle, ToldOK

LEMMA BlockOfInbox ==
    ASSUME TypeOK, NEW a, NEW budget
    PROVE  buildMailboxBlock(readInbox(a), budget) \subseteq readInbox(a)
  BY DEF buildMailboxBlock

(* A process begun: the record of a hook or a call at its first step.      *)
LEMMA Begun ==
    ASSUME NEW pc \in Steps, NEW a \in Agents \cup {None}, NEW recap \in Nat,
           NEW held \in SUBSET Messages, NEW n \in Nat,
           a = None => pc \in {"idle", "claim", "write", "answer"}
    PROVE  /\ ProcessOK([Idle EXCEPT !.pc = pc, !.who = a, !.recap = recap, !.mail = held])
           /\ ProcessOK([Idle EXCEPT !.pc = pc, !.who = a, !.mail = held])
           /\ ProcessOK([Idle EXCEPT !.pc = pc, !.who = a, !.count = n])
  BY DEF ProcessOK, Idle, ToldOK, Steps

LEMMA TypeInit == Init => TypeOK
  <1> SUFFICES ASSUME Init PROVE TypeOK
    OBVIOUS
  <1>1. \A p \in Procs : proc[p] = Idle
    BY DEF Init
  <1>2. sent \in Seq([msg : Messages, at : Nat])
    BY DEF Init
  <1>3. ToldOK(told)
    BY DEF Init, ToldOK
  <1>4. DOMAIN proc = Procs /\ \A p \in Procs : ProcessOK(proc[p])
    BY <1>1, IdleOK DEF Init
  <1> QED BY <1>2, <1>3, <1>4 DEF Init, TypeOK

(* Each step keeps the types.                                              *)
LEMMA TypeStep == ASSUME TypeOK, [Next]_vars PROVE TypeOK'
  <1>1. ASSUME NEW m \in Messages, sendMail(m) PROVE TypeOK'
    <2>1. sent' \in Seq([msg : Messages, at : Nat])
      <3> DEFINE Row == [msg : Messages, at : Nat]
      <3>1. [msg |-> m, at |-> now] \in Row /\ sent \in Seq(Row)
        BY DEF TypeOK
      <3>2. sent' = Append(sent, [msg |-> m, at |-> now])
        BY <1>1 DEF sendMail
      <3> HIDE DEF Row
      <3>3. sent' \in Seq(Row)
        BY <3>1, <3>2
      <3> QED BY <3>3 DEF Row
    <2> QED BY <1>1, <2>1 DEF TypeOK, sendMail, history
  <1>2. ASSUME NEW a \in Agents, NEW m \in Messages, acknowledgeMessage(a, m) PROVE TypeOK'
    <2>1. acks' \subseteq [msg : Messages, by : Agents]
      BY <1>2 DEF TypeOK, acknowledgeMessage
    <2>2. runs' \in Nat
      BY <1>2 DEF TypeOK, acknowledgeMessage
    <2> QED BY <1>2, <2>1, <2>2 DEF TypeOK, acknowledgeMessage, history
  <1>3. ASSUME NEW p \in Procs, NEW a \in Readers, NEW recap \in Recaps, StartSession(p, a, recap)
        PROVE  TypeOK'
    <2> DEFINE block == buildMailboxBlock(readInbox(a), Budget(recap))
    <2>1. block \in SUBSET Messages
      BY BlockOfInbox, InboxFresh
    <2>2. a \in Agents \cup {None} /\ recap \in Nat
      BY MailAssumption
    <2> DEFINE r == [Idle EXCEPT !.pc = "claim", !.who = a, !.recap = recap, !.mail = block]
    <2>3. proc' = [proc EXCEPT ![p] = r] /\ runs' = runs + 1
      BY <1>3 DEF StartSession, Begin
    <2> HIDE DEF block
    <2>4. ProcessOK(r)
      BY <2>1, <2>2, Begun DEF Steps
    <2> HIDE DEF r
    <2>5. DOMAIN proc' = Procs /\ \A q \in Procs : ProcessOK(proc'[q])
      BY <2>3, <2>4, ProcessStep
    <2>6. runs' \in Nat
      BY <2>3 DEF TypeOK
    <2> QED BY <1>3, <2>5, <2>6 DEF TypeOK, StartSession, mail, history
  <1>4. ASSUME NEW p \in Procs, StayQuiet(p) PROVE TypeOK'
    <2>1. DOMAIN proc' = Procs /\ \A q \in Procs : ProcessOK(proc'[q])
      BY <1>4, IdleOK, ProcessStep DEF StayQuiet, Finish
    <2> QED BY <1>4, <2>1 DEF TypeOK, StayQuiet, mail, history
  <1>5. ASSUME NEW p \in Procs, ReadTold(p) PROVE TypeOK'
    <2> DEFINE to == IF proc[p].who = None THEN "write" ELSE "remember"
    <2>1. to \in Steps /\ (proc[p].who = None => to \in {"idle", "claim", "write", "answer"})
      BY DEF Steps
    <2>2. proc' = [proc EXCEPT ![p] = [proc[p] EXCEPT !.pc = to, !.told = told]]
      BY <1>5 DEF ReadTold
    <2> HIDE DEF to
    <2>3. ProcessOK([proc[p] EXCEPT !.pc = to, !.told = told])
      BY <2>1, Moved
    <2>4. DOMAIN proc' = Procs /\ \A q \in Procs : ProcessOK(proc'[q])
      BY <2>2, <2>3, ProcessStep
    <2> QED BY <1>5, <2>4 DEF TypeOK, ReadTold, mail, history
  <1>6. ASSUME NEW p \in Procs, Remember(p) PROVE TypeOK'
    <2> DEFINE r == proc[p]
               all == [s \in DOMAIN r.told \cup {r.who} |->
                  IF s = r.who THEN [digest |-> Context(r), at |-> now] ELSE r.told[s]]
    <2>1. DOMAIN proc' = Procs /\ \A q \in Procs : ProcessOK(proc'[q])
      <3>1. proc' = [proc EXCEPT ![p] = [proc[p] EXCEPT !.pc = "write", !.told = <<>>]]
        BY <1>6 DEF Remember
      <3>2. "write" \in Steps /\ "write" \in {"idle", "claim", "write", "answer"}
        BY DEF Steps
      <3>3. ProcessOK([proc[p] EXCEPT !.pc = "write", !.told = <<>>])
        BY <3>2, Moved
      <3> QED BY <3>1, <3>3, ProcessStep
    <2>2. ToldOK(told)' /\ faults' \in Nat
      <3>1. CASE faults' = faults + 1 /\ told' = told
        BY <3>1 DEF TypeOK
      <3>2. CASE \E S \in Kept(all) : told' = [s \in S |-> all[s]] /\ UNCHANGED faults
        <4>1. PICK S \in SUBSET DOMAIN all : told' = [s \in S |-> all[s]] /\ UNCHANGED faults
          BY <3>2 DEF Kept
        <4>2. ToldOK(r.told) /\ Context(r) \in Digest /\ now \in Nat
          BY ProcTypes DEF TypeOK, ProcessOK
        <4>3. \A s \in S : told'[s] \in [digest : Digest, at : Nat]
          BY <4>1, <4>2 DEF ToldOK
        <4>4. DOMAIN told' \subseteq Agents
          <5>1. r.who \in Agents
            BY <1>6, MailAssumption DEF Remember, TypeOK, ProcessOK
          <5> QED BY <4>1, <4>2, <5>1 DEF ToldOK
        <4> QED BY <4>1, <4>3, <4>4 DEF ToldOK, TypeOK
      <3> QED BY <1>6, <3>1, <3>2 DEF Remember, Fail
    <2> QED BY <1>6, <2>1, <2>2 DEF TypeOK, Remember, mail, history
  <1>7. ASSUME NEW p \in Procs, WriteContext(p) PROVE TypeOK'
    <2>1. DOMAIN proc' = Procs /\ \A q \in Procs : ProcessOK(proc'[q])
      <3>1. CASE Finish(p)
        BY <3>1, IdleOK, ProcessStep DEF Finish
      <3>2. CASE proc[p].who # None /\ Goto(p, "mark")
        BY <3>2, Moved, ProcessStep DEF Goto, Steps
      <3> QED BY <1>7, <3>1, <3>2 DEF WriteContext
    <2>2. seen' \subseteq (Agents \cup {None}) \X Messages
      BY <1>7, ProcTypes DEF TypeOK, WriteContext
    <2>3. printed' \subseteq [who : Agents \cup {None}, digest : Digest]
      <3>1. [who |-> proc[p].who, digest |-> Context(proc[p])]
              \in [who : Agents \cup {None}, digest : Digest]
        BY ProcTypes
      <3>2. printed' = printed \cup {[who |-> proc[p].who, digest |-> Context(proc[p])]}
        BY <1>7 DEF WriteContext
      <3> QED BY <3>1, <3>2 DEF TypeOK
    <2> QED BY <1>7, <2>1, <2>2, <2>3 DEF TypeOK, WriteContext, mail
  <1>8. ASSUME NEW p \in Procs, markSessionStartDelivered(p) PROVE TypeOK'
    <2>1. DOMAIN proc' = Procs /\ \A q \in Procs : ProcessOK(proc'[q])
      BY <1>8, IdleOK, ProcessStep DEF markSessionStartDelivered, Finish
    <2>2. delivered' \in [Channels -> [Agents \X Messages -> Nat]]
      BY <1>8, MarkCounts DEF markSessionStartDelivered, Channels, TypeOK
    <2>3. faults' \in Nat
      BY <1>8 DEF markSessionStartDelivered, Fail, TypeOK
    <2> QED BY <1>8, <2>1, <2>2, <2>3 DEF TypeOK, markSessionStartDelivered, history
  <1>9. ASSUME NEW p \in Procs, NEW a \in Readers, Pull(p, a) PROVE TypeOK'
    <2> DEFINE to == IF a = None THEN "answer" ELSE "pulled"
               held == readInbox(a)
               r == [Idle EXCEPT !.pc = to, !.who = a, !.mail = held]
    <2>1. held \in SUBSET Messages
      BY InboxFresh
    <2>2. a \in Agents \cup {None} /\ to \in Steps /\ (a = None => to = "answer")
      BY MailAssumption DEF Steps
    <2>3. proc' = [proc EXCEPT ![p] = r] /\ runs' = runs + 1
      BY <1>9 DEF Pull, Begin
    <2> HIDE DEF held, to
    <2>4. ProcessOK(r)
      BY <2>1, <2>2, Begun
    <2> HIDE DEF r
    <2>5. DOMAIN proc' = Procs /\ \A q \in Procs : ProcessOK(proc'[q])
      BY <2>3, <2>4, ProcessStep
    <2>6. runs' \in Nat
      BY <2>3 DEF TypeOK
    <2> QED BY <1>9, <2>5, <2>6 DEF TypeOK, Pull, mail, history
  <1>10. ASSUME NEW p \in Procs, MarkPulled(p) PROVE TypeOK'
    <2>1. DOMAIN proc' = Procs /\ \A q \in Procs : ProcessOK(proc'[q])
      <3>1. proc' = [proc EXCEPT ![p] = [proc[p] EXCEPT !.pc = "answer"]]
        BY <1>10 DEF MarkPulled, Goto
      <3> QED BY <3>1, Moved, ProcessStep DEF Steps
    <2>2. delivered' \in [Channels -> [Agents \X Messages -> Nat]]
      BY <1>10, MarkCounts DEF MarkPulled, Channels, TypeOK
    <2>3. faults' \in Nat
      BY <1>10 DEF MarkPulled, Fail, TypeOK
    <2> QED BY <1>10, <2>1, <2>2, <2>3 DEF TypeOK, MarkPulled, history
  <1>11. ASSUME NEW p \in Procs, Answer(p) PROVE TypeOK'
    <2>1. DOMAIN proc' = Procs /\ \A q \in Procs : ProcessOK(proc'[q])
      BY <1>11, IdleOK, ProcessStep DEF Answer, Finish
    <2>2. seen' \subseteq (Agents \cup {None}) \X Messages
      BY <1>11, ProcTypes DEF TypeOK, Answer
    <2> QED BY <1>11, <2>1, <2>2 DEF TypeOK, Answer, mail
  <1>12. ASSUME NEW p \in Procs, NEW a \in Agents, ReadCounter(p, a) PROVE TypeOK'
    <2> DEFINE r == [Idle EXCEPT !.pc = "count", !.who = a, !.count = counter + 1]
    <2>1. proc' = [proc EXCEPT ![p] = r] /\ runs' = runs + 1
      BY <1>12 DEF ReadCounter, Begin
    <2>2. counter + 1 \in Nat /\ a # None /\ runs + 1 \in Nat
      BY MailAssumption DEF TypeOK
    <2>3. ProcessOK(r)
      BY <2>2, Begun DEF Steps
    <2> HIDE DEF r
    <2>4. DOMAIN proc' = Procs /\ \A q \in Procs : ProcessOK(proc'[q])
      BY <2>1, <2>3, ProcessStep
    <2> QED BY <1>12, <2>1, <2>2, <2>4 DEF TypeOK, ReadCounter, mail, history
  <1>13. ASSUME NEW p \in Procs, WriteCounter(p) PROVE TypeOK'
    <2>1. DOMAIN proc' = Procs /\ \A q \in Procs : ProcessOK(proc'[q])
      <3>1. CASE Finish(p)
        BY <3>1, IdleOK, ProcessStep DEF Finish
      <3>2. CASE Goto(p, "push")
        BY <1>13, <3>2, Moved, ProcessStep DEF Goto, Steps, WriteCounter, TypeOK, ProcessOK
      <3> QED BY <1>13, <3>1, <3>2 DEF WriteCounter
    <2>2. counter' \in Nat
      BY <1>13, ProcTypes DEF WriteCounter
    <2> QED BY <1>13, <2>1, <2>2 DEF TypeOK, WriteCounter, mail, history
  <1>14. ASSUME NEW p \in Procs, Push(p) PROVE TypeOK'
    <2> DEFINE found == findPendingMail(proc[p].who)
    <2>1. found \in SUBSET Messages
      BY SentTypes DEF findPendingMail, Pending
    <2>2. DOMAIN proc' = Procs /\ \A q \in Procs : ProcessOK(proc'[q])
      <3>1. proc[p].who # None
        BY <1>14 DEF Push, TypeOK, ProcessOK
      <3>2. CASE proc' = [proc EXCEPT ![p] = Idle]
        BY <3>2, IdleOK, ProcessStep
      <3>3. CASE proc' = [proc EXCEPT ![p] = [proc[p] EXCEPT !.pc = "note", !.mail = found]]
        <4> HIDE DEF found
        <4> QED BY <2>1, <3>1, <3>3, Moved, ProcessStep DEF Steps
      <3> QED BY <1>14, <3>2, <3>3 DEF Push
    <2>3. seen' = seen \cup {proc[p].who} \X found
      BY <1>14 DEF Push
    <2> HIDE DEF found
    <2>4. seen' \subseteq (Agents \cup {None}) \X Messages
      BY <2>1, <2>3, ProcTypes DEF TypeOK
    <2> QED BY <1>14, <2>2, <2>4 DEF TypeOK, Push, mail
  <1>15. ASSUME NEW p \in Procs, recordMailDelivery(p) PROVE TypeOK'
    <2>1. DOMAIN proc' = Procs /\ \A q \in Procs : ProcessOK(proc'[q])
      BY <1>15, IdleOK, ProcessStep DEF recordMailDelivery, Finish
    <2>2. markers' \subseteq [msg : Messages, agent : Agents, at : Nat]
      <3> DEFINE New == {[msg |-> m, agent |-> proc[p].who, at |-> now] : m \in proc[p].mail}
      <3>1. proc[p].who \in Agents /\ proc[p].mail \subseteq Messages /\ now \in Nat
        BY <1>15 DEF recordMailDelivery, TypeOK, ProcessOK
      <3>2. New \subseteq [msg : Messages, agent : Agents, at : Nat]
        BY <3>1
      <3>3. markers' \subseteq markers \cup New
        BY <1>15 DEF recordMailDelivery
      <3> QED BY <3>2, <3>3 DEF TypeOK
    <2>3. faults' \in Nat
      BY <1>15 DEF recordMailDelivery, Fail, TypeOK
    <2> QED BY <1>15, <2>1, <2>2, <2>3 DEF TypeOK, recordMailDelivery, history
  <1>16. ASSUME NEW p \in Procs, Crash(p) PROVE TypeOK'
    <2>1. DOMAIN proc' = Procs /\ \A q \in Procs : ProcessOK(proc'[q])
      BY <1>16, IdleOK, ProcessStep DEF Crash, Finish
    <2>2. gone' \subseteq [pc : {"write", "answer"}, who : Agents \cup {None}, digest : Digest]
      <3>1. gone' \subseteq gone \cup
              {[pc |-> proc[p].pc, who |-> proc[p].who, digest |-> Context(proc[p])]}
        BY <1>16 DEF Crash
      <3>2. gone' # gone => proc[p].pc \in {"write", "answer"}
        BY <1>16 DEF Crash
      <3>3. proc[p].pc \in {"write", "answer"} =>
              [pc |-> proc[p].pc, who |-> proc[p].who, digest |-> Context(proc[p])]
                \in [pc : {"write", "answer"}, who : Agents \cup {None}, digest : Digest]
        BY ProcTypes
      <3> QED BY <3>1, <3>2, <3>3 DEF TypeOK
    <2>3. faults' \in Nat
      BY <1>16 DEF Crash, Fail, TypeOK
    <2> QED BY <1>16, <2>1, <2>2, <2>3 DEF TypeOK, Crash, mail
  <1>17. CASE cleanupDeliveredMarkers
    <2>1. markers' \subseteq [msg : Messages, agent : Agents, at : Nat]
      BY <1>17 DEF cleanupDeliveredMarkers, TypeOK
    <2> QED BY <1>17, <2>1 DEF TypeOK, cleanupDeliveredMarkers, history
  <1>18. CASE Tick
    <2>1. now' \in Nat
      BY <1>18 DEF Tick, TypeOK
    <2> QED BY <1>18, <2>1 DEF TypeOK, Tick, mail, history
  <1>19. CASE UNCHANGED vars
    BY <1>19 DEF TypeOK, vars, mail, history
  <1>20. ASSUME NEW p \in Procs, Step(p) PROVE TypeOK'
    BY <1>20, <1>3, <1>4, <1>5, <1>6, <1>7, <1>8, <1>9, <1>10, <1>11, <1>12, <1>13, <1>14,
       <1>15, <1>16 DEF Step
  <1> QED BY <1>1, <1>2, <1>17, <1>18, <1>19, <1>20 DEF Next

(* Every variable has its type.                                            *)
THEOREM TypeCorrect == Spec => []TypeOK
  BY TypeInit, TypeStep, PTL DEF Spec

-----------------------------------------------------------------------------
(* What a step of a process can do: where it comes from and where it goes. *)
Goes(p, from, to) ==
    /\ proc[p].pc = from /\ proc'[p].pc \in to
    /\ \A q \in Procs \ {p} : proc'[q] = proc[q]

LEMMA Table ==
    ASSUME TypeOK, NEW p \in Procs
    PROVE  /\ \A a, recap : StartSession(p, a, recap) => Goes(p, "idle", {"claim"})
           /\ StayQuiet(p) => Goes(p, "claim", {"idle"})
           /\ ReadTold(p) => Goes(p, "claim", {"write", "remember"})
           /\ Remember(p) => Goes(p, "remember", {"write"})
           /\ WriteContext(p) => Goes(p, "write", {"idle", "mark"})
           /\ markSessionStartDelivered(p) => Goes(p, "mark", {"idle"})
           /\ \A a : Pull(p, a) => Goes(p, "idle", {"pulled", "answer"})
           /\ MarkPulled(p) => Goes(p, "pulled", {"answer"})
           /\ Answer(p) => Goes(p, "answer", {"idle"})
           /\ \A a : ReadCounter(p, a) => Goes(p, "idle", {"count"})
           /\ WriteCounter(p) => Goes(p, "count", {"push", "idle"})
           /\ Push(p) => Goes(p, "push", {"note", "idle"})
           /\ recordMailDelivery(p) => Goes(p, "note", {"idle"})
           /\ Crash(p) => Goes(p, proc[p].pc, {"idle"})
  <1>1. DOMAIN proc = Procs /\ DOMAIN proc[p] = DOMAIN Idle
    BY DEF TypeOK, ProcessOK
  <1>2. "pc" \in DOMAIN proc[p] /\ Idle.pc = "idle"
    BY <1>1 DEF Idle
  <1>3. \A pc : Goto(p, pc) => /\ proc'[p].pc = pc
                               /\ \A q \in Procs \ {p} : proc'[q] = proc[q]
    BY <1>1, <1>2 DEF Goto
  <1>4. Finish(p) => /\ proc'[p].pc = "idle"
                     /\ \A q \in Procs \ {p} : proc'[q] = proc[q]
    BY <1>1, <1>2 DEF Finish
  <1>5. \A r : Begin(p, r) => /\ proc[p].pc = "idle" /\ proc'[p] = r
                              /\ \A q \in Procs \ {p} : proc'[q] = proc[q]
    BY <1>1, <1>2 DEF Begin
  <1>6. ASSUME NEW a, NEW recap, StartSession(p, a, recap) PROVE Goes(p, "idle", {"claim"})
    <2> DEFINE block == buildMailboxBlock(readInbox(a), Budget(recap))
               r == [Idle EXCEPT !.pc = "claim", !.who = a, !.recap = recap, !.mail = block]
    <2>1. Begin(p, r)
      BY <1>6 DEF StartSession
    <2> HIDE DEF block
    <2>2. r.pc = "claim"
      BY DEF Idle
    <2> QED BY <1>5, <2>1, <2>2 DEF Goes
  <1>7. StayQuiet(p) => Goes(p, "claim", {"idle"})
    BY <1>4 DEF StayQuiet, Goes
  <1>8. ASSUME ReadTold(p) PROVE Goes(p, "claim", {"write", "remember"})
    <2> DEFINE to == IF proc[p].who = None THEN "write" ELSE "remember"
    <2>1. proc' = [proc EXCEPT ![p] = [proc[p] EXCEPT !.pc = to, !.told = told]]
      BY <1>8 DEF ReadTold
    <2>2. proc[p].pc = "claim"
      BY <1>8 DEF ReadTold
    <2> QED BY <1>1, <1>2, <2>1, <2>2 DEF Goes
  <1>9. ASSUME Remember(p) PROVE Goes(p, "remember", {"write"})
    <2>1. proc' = [proc EXCEPT ![p] = [proc[p] EXCEPT !.pc = "write", !.told = <<>>]]
      BY <1>9 DEF Remember
    <2>2. proc[p].pc = "remember"
      BY <1>9 DEF Remember
    <2> QED BY <1>1, <1>2, <2>1, <2>2 DEF Goes
  <1>10. WriteContext(p) => Goes(p, "write", {"idle", "mark"})
    BY <1>3, <1>4 DEF WriteContext, Goes
  <1>11. markSessionStartDelivered(p) => Goes(p, "mark", {"idle"})
    BY <1>4 DEF markSessionStartDelivered, Goes
  <1>12. ASSUME NEW a, Pull(p, a) PROVE Goes(p, "idle", {"pulled", "answer"})
    <2> DEFINE held == readInbox(a)
               to == IF a = None THEN "answer" ELSE "pulled"
               r == [Idle EXCEPT !.pc = to, !.who = a, !.mail = held]
    <2>1. Begin(p, r)
      BY <1>12 DEF Pull
    <2> HIDE DEF held
    <2>2. r.pc \in {"pulled", "answer"}
      BY DEF Idle
    <2> QED BY <1>5, <2>1, <2>2 DEF Goes
  <1>13. MarkPulled(p) => Goes(p, "pulled", {"answer"})
    BY <1>3 DEF MarkPulled, Goes
  <1>14. Answer(p) => Goes(p, "answer", {"idle"})
    BY <1>4 DEF Answer, Goes
  <1>15. ASSUME NEW a, ReadCounter(p, a) PROVE Goes(p, "idle", {"count"})
    <2> DEFINE r == [Idle EXCEPT !.pc = "count", !.who = a, !.count = counter + 1]
    <2>1. Begin(p, r)
      BY <1>15 DEF ReadCounter
    <2>2. r.pc = "count"
      BY DEF Idle
    <2> QED BY <1>5, <2>1, <2>2 DEF Goes
  <1>16. WriteCounter(p) => Goes(p, "count", {"push", "idle"})
    BY <1>3, <1>4 DEF WriteCounter, Goes
  <1>17. ASSUME Push(p) PROVE Goes(p, "push", {"note", "idle"})
    <2>1. \/ proc' = [proc EXCEPT ![p] = Idle]
          \/ \E held : proc' = [proc EXCEPT ![p] = [@ EXCEPT !.pc = "note", !.mail = held]]
      BY <1>17 DEF Push
    <2>2. proc[p].pc = "push"
      BY <1>17 DEF Push
    <2> QED BY <1>1, <1>2, <2>1, <2>2 DEF Goes
  <1>18. recordMailDelivery(p) => Goes(p, "note", {"idle"})
    BY <1>4 DEF recordMailDelivery, Goes
  <1>19. Crash(p) => Goes(p, proc[p].pc, {"idle"})
    BY <1>4 DEF Crash, Goes
  <1> QED BY <1>6, <1>7, <1>8, <1>9, <1>10, <1>11, <1>12, <1>13, <1>14, <1>15, <1>16, <1>17,
             <1>18, <1>19

LEMMA Moves ==
    ASSUME TypeOK, NEW p \in Procs, Step(p)
    PROVE  /\ \A q \in Procs \ {p} : proc'[q] = proc[q]
           /\ proc[p].pc = "write" => WriteContext(p) \/ Crash(p)
           /\ proc[p].pc = "answer" => Answer(p) \/ Crash(p)
           /\ proc[p].pc = "claim" => StayQuiet(p) \/ ReadTold(p) \/ Crash(p)
           /\ proc'[p].pc = "remember" => ReadTold(p)
           /\ proc'[p].pc = "mark" => WriteContext(p)
           /\ proc'[p].pc = "pulled" => \E a \in Readers : Pull(p, a)
           /\ proc'[p].pc = "note" => Push(p)
  BY Table DEF Step, Goes

(* What a step can do to the rest.                                         *)
Framed(p) ==
    /\ seen \subseteq seen' /\ printed \subseteq printed' /\ gone \subseteq gone'
    /\ sent' = sent /\ now' = now
    /\ markers' = markers \/ recordMailDelivery(p)
    /\ delivered' = delivered \/ markSessionStartDelivered(p) \/ MarkPulled(p)
    /\ told' = told \/ Remember(p)

LEMMA Frame ==
    ASSUME NEW p \in Procs, Step(p)
    PROVE  Framed(p)
  <1>1. CASE \E a \in Readers, recap \in Recaps : StartSession(p, a, recap)
    BY <1>1 DEF StartSession, mail, history, Framed
  <1>2. CASE StayQuiet(p)
    BY <1>2 DEF StayQuiet, mail, history, Framed
  <1>3. CASE ReadTold(p)
    BY <1>3 DEF ReadTold, mail, history, Framed
  <1>4. CASE Remember(p)
    <2>1. /\ UNCHANGED <<seen, printed, gone, sent, now>>
          /\ markers' = markers /\ delivered' = delivered
      BY <1>4 DEF Remember, mail, history
    <2> QED BY <1>4, <2>1 DEF Framed
  <1>5. CASE WriteContext(p)
    BY <1>5 DEF WriteContext, mail, Framed
  <1>6. CASE markSessionStartDelivered(p)
    <2>1. /\ UNCHANGED <<seen, printed, gone, sent, now>>
          /\ markers' = markers /\ told' = told
      BY <1>6 DEF markSessionStartDelivered, history, mail
    <2> QED BY <1>6, <2>1 DEF Framed
  <1>7. CASE \E a \in Readers : Pull(p, a)
    BY <1>7 DEF Pull, mail, history, Framed
  <1>8. CASE MarkPulled(p)
    <2>1. /\ UNCHANGED <<seen, printed, gone, sent, now>>
          /\ markers' = markers /\ told' = told
      BY <1>8 DEF MarkPulled, history, mail
    <2> QED BY <1>8, <2>1 DEF Framed
  <1>9. CASE Answer(p)
    BY <1>9 DEF Answer, mail, Framed
  <1>10. CASE \E a \in Agents : ReadCounter(p, a)
    BY <1>10 DEF ReadCounter, mail, history, Framed
  <1>11. CASE WriteCounter(p)
    BY <1>11 DEF WriteCounter, mail, history, Framed
  <1>12. CASE Push(p)
    BY <1>12 DEF Push, mail, Framed
  <1>13. CASE recordMailDelivery(p)
    <2>1. /\ UNCHANGED <<seen, printed, gone, sent, now>>
          /\ delivered' = delivered /\ told' = told
      BY <1>13 DEF recordMailDelivery, history, mail
    <2> QED BY <1>13, <2>1 DEF Framed
  <1>14. CASE Crash(p)
    BY <1>14 DEF Crash, mail, Framed
  <1> QED BY <1>1, <1>2, <1>3, <1>4, <1>5, <1>6, <1>7,
             <1>8, <1>9, <1>10, <1>11, <1>12, <1>13, <1>14 DEF Step

(* Only two steps take a marker away.                                      *)
LEMMA MarkersStay ==
    ASSUME TypeOK, [Next]_vars
    PROVE  \/ markers \subseteq markers' \/ cleanupDeliveredMarkers
           \/ \E p \in Procs : recordMailDelivery(p)
  <1>1. ASSUME NEW p \in Procs, Step(p) PROVE markers' = markers \/ recordMailDelivery(p)
    BY <1>1, Frame DEF Framed
  <1>2. ASSUME NEW m \in Messages, sendMail(m) PROVE markers' = markers
    BY <1>2 DEF sendMail
  <1>3. ASSUME NEW a \in Agents, NEW m \in Messages, acknowledgeMessage(a, m)
        PROVE  markers' = markers
    BY <1>3 DEF acknowledgeMessage
  <1>4. CASE Tick
    BY <1>4 DEF Tick, mail
  <1>5. CASE UNCHANGED vars
    BY <1>5 DEF vars, mail
  <1> QED BY <1>1, <1>2, <1>3, <1>4, <1>5 DEF Next

LEMMA Grows ==
    ASSUME TypeOK, [Next]_vars
    PROVE  /\ seen \subseteq seen' /\ printed \subseteq printed' /\ gone \subseteq gone'
           /\ (\E p \in Procs : Step(p)) \/ proc' = proc
           /\ (sent' = sent /\ now' \in Nat /\ now' >= now) \/ \E m \in Messages : sendMail(m)
           /\ markers' \subseteq markers \/ \E p \in Procs : recordMailDelivery(p)
           /\ \/ delivered' = delivered
              \/ \E p \in Procs : markSessionStartDelivered(p) \/ MarkPulled(p)
           /\ told' = told \/ \E p \in Procs : Remember(p)
  <1> DEFINE C == /\ seen \subseteq seen' /\ printed \subseteq printed' /\ gone \subseteq gone'
                  /\ (\E p \in Procs : Step(p)) \/ proc' = proc
                  /\ \/ sent' = sent /\ now' \in Nat /\ now' >= now
                     \/ \E m \in Messages : sendMail(m)
                  /\ markers' \subseteq markers \/ \E p \in Procs : recordMailDelivery(p)
                  /\ \/ delivered' = delivered
                     \/ \E p \in Procs : markSessionStartDelivered(p) \/ MarkPulled(p)
                  /\ told' = told \/ \E p \in Procs : Remember(p)
  <1>1. now \in Nat
    BY DEF TypeOK
  <1>2. ASSUME NEW p \in Procs, Step(p) PROVE C
    BY <1>1, <1>2, Frame DEF Framed
  <1>3. ASSUME NEW m \in Messages, sendMail(m) PROVE C
    <2>1. UNCHANGED <<seen, printed, gone, proc, markers, delivered, told>>
      BY <1>3 DEF sendMail, history
    <2> QED BY <1>3, <2>1
  <1>4. ASSUME NEW a \in Agents, NEW m \in Messages, acknowledgeMessage(a, m) PROVE C
    BY <1>1, <1>4 DEF acknowledgeMessage, history
  <1>5. CASE cleanupDeliveredMarkers
    BY <1>1, <1>5 DEF cleanupDeliveredMarkers, history
  <1>6. CASE Tick
    BY <1>1, <1>6 DEF Tick, mail, history
  <1>7. CASE UNCHANGED vars
    BY <1>1, <1>7 DEF vars, mail, history
  <1> QED BY <1>2, <1>3, <1>4, <1>5, <1>6, <1>7 DEF Next

(* What was handed to an agent stays handed, also when the process that    *)
(* was to write it dies; and so with what a session was given.             *)
LEMMA HandedStays ==
    ASSUME TypeOK, [Next]_vars, NEW a, NEW m, Handed(a, m)
    PROVE  Handed(a, m)'
  <1>1. seen \subseteq seen' /\ gone \subseteq gone' /\ ((\E p \in Procs : Step(p)) \/ proc' = proc)
    BY Grows
  <1>2. ASSUME NEW p \in Procs, proc[p].pc = "answer", proc[p].who = a, m \in proc[p].mail
        PROVE  Handed(a, m)'
    <2>1. CASE proc'[p] = proc[p]
      BY <1>2, <2>1 DEF Handed
    <2>2. CASE Answer(p)
      BY <1>2, <2>2 DEF Answer, Handed
    <2>3. CASE Crash(p)
      <3>1. [pc |-> "answer", who |-> a, digest |-> Context(proc[p])] \in gone'
        BY <1>2, <2>3 DEF Crash
      <3> QED BY <1>2, <3>1 DEF Handed, Context
    <2> QED BY <1>1, <1>2, <2>1, <2>2, <2>3, Moves
  <1> QED BY <1>1, <1>2 DEF Handed

LEMMA GivenStays ==
    ASSUME TypeOK, [Next]_vars, NEW s, NEW d, Given(s, d)
    PROVE  Given(s, d)'
  <1>1. printed \subseteq printed' /\ gone \subseteq gone'
        /\ ((\E p \in Procs : Step(p)) \/ proc' = proc)
    BY Grows
  <1>2. ASSUME NEW p \in Procs, proc[p].pc = "write", proc[p].who = s, Context(proc[p]) = d
        PROVE  Given(s, d)'
    <2>1. CASE proc'[p] = proc[p]
      BY <1>2, <2>1 DEF Given, Context
    <2>2. CASE WriteContext(p)
      BY <1>2, <2>2 DEF WriteContext, Given
    <2>3. CASE Crash(p)
      <3>1. [pc |-> "write", who |-> s, digest |-> d] \in gone'
        BY <1>2, <2>3 DEF Crash
      <3> QED BY <3>1 DEF Given
    <2> QED BY <1>1, <1>2, <2>1, <2>2, <2>3, Moves
  <1> QED BY <1>1, <1>2 DEF Given

-----------------------------------------------------------------------------
(* Each part of the invariant is kept.                                     *)
LEMMA SentOnceStep == ASSUME TypeOK, SentOnce, [Next]_vars PROVE SentOnce'
  <1>1. CASE \E m \in Messages : sendMail(m)
    BY <1>1, SentStays
  <1>2. CASE sent' = sent /\ now' \in Nat /\ now' >= now
    <2>1. \A i \in DOMAIN sent : sent[i].at \in Nat /\ sent[i].at <= now
      BY SentTypes DEF SentOnce
    <2> QED BY <1>2, <2>1 DEF SentOnce, TypeOK
  <1> QED BY <1>1, <1>2, Grows

(* The events of sent messages stay.                                       *)
LEMMA SentKept ==
    ASSUME TypeOK, SentOnce, [Next]_vars, NEW n \in Sent
    PROVE  n \in Sent' /\ sent'[SentAt(n)'] = sent[SentAt(n)] /\ sent[SentAt(n)].at \in Nat
           /\ sent[SentAt(n)].at <= now
  <1>1. sent[SentAt(n)].at \in Nat /\ sent[SentAt(n)].at <= now
    BY SentIn, SentTypes DEF SentOnce
  <1>2. CASE \E m \in Messages : sendMail(m)
    BY <1>1, <1>2, SentStays
  <1>3. CASE sent' = sent
    BY <1>1, <1>3 DEF Sent, SentAt
  <1> QED BY <1>2, <1>3, Grows

LEMMA MarkersStep ==
    ASSUME TypeOK, SentOnce, MarkersTrue, MarkingTrue, [Next]_vars
    PROVE  MarkersTrue'
  <1> SUFFICES ASSUME NEW k \in markers'
               PROVE  /\ <<k.agent, k.msg>> \in seen' /\ k.msg \in Sent'
                      /\ k.at >= sent'[SentAt(k.msg)'].at
    BY DEF MarkersTrue
  <1>1. CASE k \in markers
    BY <1>1, Grows, SentKept DEF MarkersTrue
  <1>2. ASSUME k \notin markers, NEW p \in Procs, recordMailDelivery(p)
        PROVE  /\ <<k.agent, k.msg>> \in seen' /\ k.msg \in Sent'
               /\ k.at >= sent'[SentAt(k.msg)'].at
    <2>1. PICK m \in proc[p].mail : k = [msg |-> m, agent |-> proc[p].who, at |-> now]
      BY <1>2 DEF recordMailDelivery
    <2>2. proc[p].pc = "note"
      BY <1>2 DEF recordMailDelivery
    <2>3. <<proc[p].who, m>> \in seen /\ m \in Sent
      BY <2>1, <2>2 DEF MarkingTrue
    <2> QED BY <2>1, <2>3, Grows, SentKept
  <1> QED BY <1>1, <1>2, Grows

LEMMA CountsStep ==
    ASSUME TypeOK, CountsTrue, MarkingTrue, [Next]_vars
    PROVE  CountsTrue'
  <1> SUFFICES ASSUME NEW a \in Agents, NEW m \in Messages
               PROVE  /\ delivered'["session_start"][<<a, m>>] > 0 => <<a, m>> \in seen'
                      /\ delivered'["mcp_pull"][<<a, m>>] > 0 => Handed(a, m)'
    BY DEF CountsTrue
  <1>1. CASE delivered' = delivered
    BY <1>1, Grows, HandedStays DEF CountsTrue
  <1>2. ASSUME NEW p \in Procs, markSessionStartDelivered(p), delivered' # delivered
        PROVE  /\ delivered'["session_start"][<<a, m>>] > 0 => <<a, m>> \in seen'
               /\ delivered'["mcp_pull"][<<a, m>>] > 0 => Handed(a, m)'
    <2>1. markDelivered("session_start", proc[p].who, proc[p].mail) /\ proc[p].pc = "mark"
      BY <1>2 DEF markSessionStartDelivered
    <2>2. \A d \in Channels : delivered'[d][<<a, m>>] = delivered[d][<<a, m>>]
             + IF d = "session_start" /\ a = proc[p].who /\ m \in proc[p].mail THEN 1 ELSE 0
      BY <2>1, MarkCounts DEF Channels
    <2>3. CASE a = proc[p].who /\ m \in proc[p].mail
      <3>1. <<a, m>> \in seen'
        BY <2>1, <2>3, Grows DEF MarkingTrue
      <3> QED BY <3>1 DEF Handed
    <2>4. CASE ~(a = proc[p].who /\ m \in proc[p].mail)
      <3>1. \A d \in Channels : delivered'[d][<<a, m>>] = delivered[d][<<a, m>>]
        <4>1. \A d \in Channels : delivered[d] \in [Agents \X Messages -> Nat]
          BY DEF TypeOK
        <4>2. \A d \in Channels : delivered[d][<<a, m>>] \in Nat
          BY <4>1
        <4> QED BY <2>2, <2>4, <4>2
      <3> QED BY <3>1, Grows, HandedStays DEF CountsTrue, Channels
    <2> QED BY <2>3, <2>4
  <1>3. ASSUME NEW p \in Procs, MarkPulled(p), delivered' # delivered
        PROVE  /\ delivered'["session_start"][<<a, m>>] > 0 => <<a, m>> \in seen'
               /\ delivered'["mcp_pull"][<<a, m>>] > 0 => Handed(a, m)'
    <2>1. markDelivered("mcp_pull", proc[p].who, proc[p].mail) /\ proc[p].pc = "pulled"
          /\ Goto(p, "answer")
      BY <1>3 DEF MarkPulled
    <2>2. \A d \in Channels : delivered'[d][<<a, m>>] = delivered[d][<<a, m>>]
             + IF d = "mcp_pull" /\ a = proc[p].who /\ m \in proc[p].mail THEN 1 ELSE 0
      BY <2>1, MarkCounts DEF Channels
    <2>3. \A d \in Channels : delivered[d][<<a, m>>] \in Nat
      <3>1. \A d \in Channels : delivered[d] \in [Agents \X Messages -> Nat]
        BY DEF TypeOK
      <3> QED BY <3>1
    <2>4. delivered'["session_start"][<<a, m>>] = delivered["session_start"][<<a, m>>]
      BY <2>2, <2>3 DEF Channels
    <2>5. CASE a = proc[p].who /\ m \in proc[p].mail
      <3>1. proc'[p].pc = "answer" /\ proc'[p].who = a /\ proc'[p].mail = proc[p].mail
        BY <2>1, <2>5 DEF Goto, TypeOK, ProcessOK, Idle
      <3>2. Handed(a, m)'
        BY <2>5, <3>1 DEF Handed
      <3> QED BY <2>4, <3>2, Grows DEF CountsTrue
    <2>6. CASE ~(a = proc[p].who /\ m \in proc[p].mail)
      <3>1. delivered'["mcp_pull"][<<a, m>>] = delivered["mcp_pull"][<<a, m>>]
        BY <2>2, <2>3, <2>6 DEF Channels
      <3> QED BY <2>4, <3>1, Grows, HandedStays DEF CountsTrue
    <2> QED BY <2>5, <2>6
  <1> QED BY <1>1, <1>2, <1>3, Grows

LEMMA MarkingStep ==
    ASSUME TypeOK, SentOnce, MarkingTrue, [Next]_vars
    PROVE  MarkingTrue'
  <1> SUFFICES ASSUME NEW p \in Procs
               PROVE  /\ proc'[p].pc \in {"mark", "note"} =>
                            {proc'[p].who} \X proc'[p].mail \subseteq seen'
                      /\ proc'[p].pc = "note" => proc'[p].mail \subseteq Sent'
    BY DEF MarkingTrue
  <1>1. CASE proc'[p] = proc[p]
    BY <1>1, Grows, SentKept DEF MarkingTrue
  <1>2. CASE WriteContext(p)
    <2>1. proc'[p] = Idle \/ proc'[p] = [proc[p] EXCEPT !.pc = "mark"]
      BY <1>2 DEF WriteContext, Finish, Goto, TypeOK
    <2>2. CASE proc'[p] = Idle
      BY <2>2 DEF Idle
    <2>3. CASE proc'[p] = [proc[p] EXCEPT !.pc = "mark"]
      <3>1. proc'[p].pc = "mark" /\ proc'[p].who = proc[p].who /\ proc'[p].mail = proc[p].mail
        BY <2>3 DEF TypeOK, ProcessOK, Idle
      <3>2. {proc[p].who} \X proc[p].mail \subseteq seen'
        BY <1>2 DEF WriteContext
      <3> QED BY <3>1, <3>2
    <2> QED BY <2>1, <2>2, <2>3
  <1>3. CASE Push(p)
    <2> DEFINE found == findPendingMail(proc[p].who)
    <2>1. found \subseteq Sent
      BY DEF findPendingMail, Pending
    <2>2. /\ seen' = seen \cup {proc[p].who} \X found
          /\ proc' = [proc EXCEPT ![p] = IF found = {} THEN Idle
                                         ELSE [@ EXCEPT !.pc = "note", !.mail = found]]
      BY <1>3 DEF Push
    <2> HIDE DEF found
    <2>3. found \subseteq Sent'
      BY <2>1, SentKept
    <2>4. CASE found = {}
      BY <2>2, <2>4 DEF Idle, TypeOK
    <2>5. CASE found # {}
      <3>1. proc'[p].who = proc[p].who /\ proc'[p].mail = found
        BY <2>2, <2>5 DEF TypeOK, ProcessOK, Idle
      <3> QED BY <2>2, <2>3, <3>1
    <2> QED BY <2>4, <2>5
  <1> QED BY <1>1, <1>2, <1>3, Grows, Moves

LEMMA PulledOnceStep ==
    ASSUME TypeOK, PullsOnlyNew, PullsApart, [Next]_vars
    PROVE  PullsOnlyNew'
  <1> SUFFICES ASSUME NEW a \in Agents, NEW m \in Messages
               PROVE  delivered'["mcp_pull"][<<a, m>>] <= 1
    BY DEF PullsOnlyNew
  <1>1. delivered["mcp_pull"][<<a, m>>] \in Nat /\ delivered["mcp_pull"][<<a, m>>] <= 1
    <2>1. delivered["mcp_pull"] \in [Agents \X Messages -> Nat]
      BY DEF TypeOK, Channels
    <2> QED BY <2>1 DEF PullsOnlyNew
  <1>2. ASSUME NEW p \in Procs, markSessionStartDelivered(p), delivered' # delivered
        PROVE  delivered'["mcp_pull"][<<a, m>>] <= 1
    <2>1. markDelivered("session_start", proc[p].who, proc[p].mail)
      BY <1>2 DEF markSessionStartDelivered
    <2> QED BY <1>1, <2>1, MarkCounts DEF Channels
  <1>3. ASSUME NEW p \in Procs, MarkPulled(p), delivered' # delivered
        PROVE  delivered'["mcp_pull"][<<a, m>>] <= 1
    <2>1. markDelivered("mcp_pull", proc[p].who, proc[p].mail) /\ proc[p].pc = "pulled"
      BY <1>3 DEF MarkPulled
    <2>2. a = proc[p].who /\ m \in proc[p].mail => delivered["mcp_pull"][<<a, m>>] = 0
      BY <2>1 DEF PullsApart
    <2> QED BY <1>1, <2>1, <2>2, MarkCounts DEF Channels
  <1> QED BY <1>1, <1>2, <1>3, Grows

LEMMA PullsApartStep ==
    ASSUME TypeOK, PullsApart, [Next]_vars
    PROVE  PullsApart'
  <1> DEFINE Alone(p) == \A q \in Procs : proc'[q].pc = "pulled" /\ proc'[q].who = proc'[p].who => p = q
             Unpulled(p) == \A m \in proc'[p].mail : delivered'["mcp_pull"][<<proc'[p].who, m>>] = 0
  <1>1. ASSUME NEW p \in Procs, NEW a \in Readers, Pull(p, a), proc'[p].pc = "pulled"
        PROVE  Unpulled(p) /\ Alone(p)
    <2> DEFINE held == readInbox(a)
               to == IF a = None THEN "answer" ELSE "pulled"
               r == [Idle EXCEPT !.pc = to, !.who = a, !.mail = held]
    <2>1. proc' = [proc EXCEPT ![p] = r] /\ proc[p] = Idle /\ ~Pulling(a) /\ delivered' = delivered
      BY <1>1 DEF Pull, Begin, mail
    <2>2. a \in Agents => \A m \in held : delivered["mcp_pull"][<<a, m>>] = 0
      BY InboxFresh
    <2> HIDE DEF held
    <2>3. r.pc = to /\ r.who = a /\ r.mail = held
      BY DEF Idle
    <2>4. proc'[p] = r /\ \A q \in Procs \ {p} : proc'[q] = proc[q]
      BY <2>1 DEF TypeOK
    <2>5. a \in Agents
      BY <1>1, <2>3, <2>4, MailAssumption
    <2> HIDE DEF r
    <2>6. Unpulled(p)
      BY <2>1, <2>2, <2>3, <2>4, <2>5
    <2>7. Alone(p)
      BY <2>1, <2>3, <2>4 DEF Pulling
    <2> QED BY <2>6, <2>7
  <1>2. ASSUME NEW p \in Procs, proc[p].pc = "pulled", proc'[p] = proc[p]
        PROVE  Unpulled(p)
    <2>1. \A m \in proc[p].mail : delivered["mcp_pull"][<<proc[p].who, m>>] = 0
      BY <1>2 DEF PullsApart
    <2>2. proc[p].who \in Agents /\ proc[p].mail \subseteq Messages
      BY <1>2 DEF TypeOK, ProcessOK
    <2>3. CASE delivered' = delivered
      BY <1>2, <2>1, <2>3
    <2>4. ASSUME NEW q \in Procs, markSessionStartDelivered(q), delivered' # delivered
          PROVE  Unpulled(p)
      <3>1. markDelivered("session_start", proc[q].who, proc[q].mail)
        BY <2>4 DEF markSessionStartDelivered
      <3> QED BY <1>2, <2>1, <2>2, <3>1, MarkCounts DEF Channels
    <2>5. ASSUME NEW q \in Procs, MarkPulled(q), delivered' # delivered
          PROVE  Unpulled(p)
      <3>1. markDelivered("mcp_pull", proc[q].who, proc[q].mail) /\ proc[q].pc = "pulled"
        BY <2>5 DEF MarkPulled
      <3>2. q # p
        BY <1>2, <2>5, Table DEF Goes
      <3>3. proc[q].who # proc[p].who
        BY <1>2, <3>1, <3>2 DEF PullsApart
      <3> QED BY <1>2, <2>1, <2>2, <3>1, <3>3, MarkCounts DEF Channels
    <2> QED BY <2>3, <2>4, <2>5, Grows
  <1>3. ASSUME NEW p \in Procs, proc'[p].pc = "pulled" PROVE Unpulled(p)
    BY <1>1, <1>2, <1>3, Grows, Moves
  <1>4. ASSUME NEW p \in Procs, NEW q \in Procs, proc'[p].pc = "pulled", proc'[q].pc = "pulled",
               proc'[p].who = proc'[q].who
        PROVE  p = q
    <2>1. CASE proc'[p] = proc[p] /\ proc'[q] = proc[q]
      BY <1>4, <2>1 DEF PullsApart
    <2>2. CASE proc'[p] # proc[p]
      BY <1>1, <1>4, <2>2, Grows, Moves
    <2>3. CASE proc'[q] # proc[q]
      BY <1>1, <1>4, <2>3, Grows, Moves
    <2> QED BY <2>1, <2>2, <2>3
  <1> QED BY <1>3, <1>4 DEF PullsApart

LEMMA ToldStep ==
    ASSUME TypeOK, ToldWasGiven, [Next]_vars
    PROVE  ToldWasGiven'
  <1>1. \A s \in DOMAIN told : \A d : d = told[s].digest => Given(s, d)'
    BY GivenStays DEF ToldWasGiven
  <1>2. \A p \in Procs : proc[p].pc = "remember" =>
           \A s \in DOMAIN proc[p].told : \A d : d = proc[p].told[s].digest => Given(s, d)'
    BY GivenStays DEF ToldWasGiven
  <1>3. ASSUME NEW p \in Procs, Remember(p)
        PROVE  \A s \in DOMAIN told' : \A d : d = told'[s].digest => Given(s, d)'
    <2> DEFINE r == proc[p]
               all == [s \in DOMAIN r.told \cup {r.who} |->
                  IF s = r.who THEN [digest |-> Context(r), at |-> now] ELSE r.told[s]]
    <2>1. r.pc = "remember"
          /\ proc' = [proc EXCEPT ![p] = [proc[p] EXCEPT !.pc = "write", !.told = <<>>]]
      BY <1>3 DEF Remember
    <2>2. told' = told \/ \E S \in Kept(all) : told' = [s \in S |-> all[s]]
      BY <1>3 DEF Remember
    <2>3. \A d : d = Context(r) => Given(proc[p].who, d)'
      <3>1. proc'[p].pc = "write" /\ proc'[p].who = r.who /\ Context(proc'[p]) = Context(r)
        BY <2>1 DEF TypeOK, ProcessOK, Idle, Context
      <3> QED BY <3>1 DEF Given, Context
    <2>4. \A s \in DOMAIN all : \A d : d = all[s].digest => Given(s, d)'
      BY <1>2, <2>1, <2>3
    <2> HIDE DEF all
    <2>5. CASE told' = told
      BY <1>1, <2>5
    <2>6. ASSUME NEW S \in Kept(all), told' = [s \in S |-> all[s]]
          PROVE  \A s \in DOMAIN told' : \A d : d = told'[s].digest => Given(s, d)'
      <3>1. S \subseteq DOMAIN all
        BY DEF Kept
      <3>2. DOMAIN told' = S /\ \A s \in S : told'[s] = all[s]
        BY <2>6
      <3> QED BY <2>4, <3>1, <3>2
    <2> QED BY <2>2, <2>5, <2>6
  <1>4. ASSUME NEW p \in Procs, proc'[p].pc = "remember"
        PROVE  \A s \in DOMAIN proc'[p].told :
                  \A d : d = proc'[p].told[s].digest => Given(s, d)'
    <2>1. CASE proc'[p] = proc[p]
      BY <1>2, <1>4, <2>1
    <2>2. CASE ReadTold(p)
      <3>1. proc'[p].told = told
        BY <2>2 DEF ReadTold, TypeOK, ProcessOK, Idle
      <3> QED BY <1>1, <3>1
    <2> QED BY <1>4, <2>1, <2>2, Grows, Moves
  <1> QED BY <1>1, <1>3, <1>4, Grows DEF ToldWasGiven

LEMMA MailInit == Init => MailInv
  <1> SUFFICES ASSUME Init PROVE MailInv
    OBVIOUS
  <1>1. TypeOK
    BY TypeInit
  <1>2. \A p \in Procs : proc[p].pc = "idle"
    BY DEF Init, Idle
  <1>3. SentOnce /\ MarkersTrue /\ MarkingTrue
    BY <1>2 DEF Init, SentOnce, MarkersTrue, MarkingTrue
  <1>4. \A c \in Channels, a \in Agents, m \in Messages : delivered[c][<<a, m>>] = 0
    BY DEF Init
  <1>5. CountsTrue /\ PullsOnlyNew
    BY <1>4 DEF CountsTrue, PullsOnlyNew, Channels
  <1>6. PullsApart /\ ToldWasGiven
    BY <1>2 DEF Init, PullsApart, ToldWasGiven
  <1> QED BY <1>1, <1>3, <1>5, <1>6 DEF MailInv

LEMMA MailStep == MailInv /\ [Next]_vars => MailInv'
  BY TypeStep, SentOnceStep, MarkersStep, CountsStep, MarkingStep, PulledOnceStep,
     PullsApartStep, ToldStep DEF MailInv

(* The inductive invariant: what marks a message, what is about to be      *)
(* marked, and what a pull or a session start holds between two steps.     *)
THEOREM MailInvariant == Spec => []MailInv
  BY MailInit, MailStep, PTL DEF Spec

-----------------------------------------------------------------------------
LEMMA SentFinite == ASSUME TypeOK PROVE IsFiniteSet(Sent)
  <1>1. IsFiniteSet(DOMAIN sent)
    <2>1. Len(sent) \in Nat /\ DOMAIN sent = 1 .. Len(sent)
      BY DEF TypeOK
    <2> QED BY <2>1, FS_Interval
  <1> DEFINE f == [m \in Sent |-> SentAt(m)]
  <1>2. f \in Injection(Sent, DOMAIN sent)
    BY SentIn DEF Injection, IsInjective
  <1> QED BY <1>1, <1>2, FS_Injection DEF ExistsInjection

LEMMA HiddenHanded ==
    ASSUME MarkersTrue, CountsTrue, TypeOK, NEW a \in Agents, NEW m \in DeliveredToSelf(a)
    PROVE  Handed(a, m)
  <1>1. m \in Messages
    BY SentTypes DEF DeliveredToSelf
  <1>2. CASE HasMarker(a, m)
    BY <1>2 DEF HasMarker, MarkersTrue, Handed
  <1>3. CASE \E c \in Channels : delivered[c][<<a, m>>] > 0
    BY <1>1, <1>3 DEF CountsTrue, Channels, Handed
  <1> QED BY <1>2, <1>3 DEF DeliveredToSelf

(* Mail is not lost (mailbox.ts, readInbox and undeliveredCount): an inbox *)
(* hides from an agent only what was put before that agent, and what       *)
(* nobody was given is counted, for any number of hooks, deaths and        *)
(* failed marks.                                                           *)
THEOREM MailNotLost == Spec => []HiddenWasShown
  <1>1. ASSUME MailInv PROVE HiddenWasShown
    <2>1. \A a \in Agents : \A m \in DeliveredToSelf(a) : Handed(a, m)
      BY <1>1, HiddenHanded DEF MailInv
    <2> DEFINE Lost == {m \in Sent : ~Expired(m) /\ ~\E a \in Agents : Handed(a, m)}
               Counted == {m \in Sent : /\ ~Expired(m)
                                        /\ ~\E a \in Agents : m \in DeliveredToSelf(a)}
    <2>2. Lost \subseteq Counted
      BY <2>1
    <2>3. IsFiniteSet(Counted)
      <3>1. Counted \subseteq Sent
        OBVIOUS
      <3> QED BY <1>1, <3>1, SentFinite, FS_Subset DEF MailInv
    <2>4. Cardinality(Lost) <= Cardinality(Counted)
      <3> HIDE DEF Lost, Counted
      <3> QED BY <2>2, <2>3, FS_Subset
    <2> QED BY <2>1, <2>4 DEF HiddenWasShown, undeliveredCount
  <1> QED BY <1>1, MailInvariant, PTL

(* A pull returns only new mail (server.ts, the inbox tool): no message is *)
(* marked as pulled twice for one agent.                                   *)
THEOREM PulledOnce == Spec => []PullsOnlyNew
  <1>1. MailInv => PullsOnlyNew
    BY DEF MailInv
  <1> QED BY <1>1, MailInvariant, PTL

(* A session start stays quiet (session-start.ts, claimInjection) only on  *)
(* account of a context this very session was given, is being given, or    *)
(* would have been given by a process that died.                           *)
THEOREM QuietSessionsWereTold == Spec => QuietWasTold
  <1>1. ASSUME MailInv, [Next]_vars, NEW p \in Procs,
               proc[p].pc = "claim", proc'[p] = Idle, faults' = faults
        PROVE  LET c == [who |-> proc[p].who, digest |-> Context(proc[p])]
               IN \/ c \in printed
                  \/ \E q \in Procs \ {p} : /\ proc[q].pc = "write" /\ proc[q].who = c.who
                                            /\ Context(proc[q]) = c.digest
                  \/ \E g \in gone : g.pc = "write" /\ g.who = c.who /\ g.digest = c.digest
    <2>1. proc'[p] # proc[p] /\ proc'[p].pc = "idle"
      BY <1>1 DEF Idle
    <2>2. StayQuiet(p) \/ ReadTold(p) \/ Crash(p)
      BY <1>1, <2>1, Grows, Moves DEF MailInv
    <2>3. ~ReadTold(p)
      BY <1>1, <2>1, Table DEF Goes, MailInv
    <2>4. ~Crash(p)
      BY <1>1 DEF Crash, Fail, MailInv, TypeOK
    <2>5. Repeated(proc[p])
      BY <2>2, <2>3, <2>4 DEF StayQuiet
    <2>6. Given(proc[p].who, Context(proc[p]))
      BY <1>1, <2>5 DEF MailInv, ToldWasGiven, Repeated
    <2>7. \A q \in Procs : proc[q].pc = "write" => q # p
      BY <1>1
    <2> QED BY <2>6, <2>7 DEF Given
  <1>2. MailInv /\ [Next]_vars =>
          [\A p \in Procs :
             proc[p].pc = "claim" /\ proc'[p] = Idle /\ faults' = faults =>
               LET c == [who |-> proc[p].who, digest |-> Context(proc[p])]
               IN \/ c \in printed
                  \/ \E q \in Procs \ {p} : /\ proc[q].pc = "write" /\ proc[q].who = c.who
                                            /\ Context(proc[q]) = c.digest
                  \/ \E g \in gone : g.pc = "write" /\ g.who = c.who /\ g.digest = c.digest]_vars
    BY <1>1
  <1> QED BY <1>2, MailInvariant, PTL DEF Spec, QuietWasTold

(* A message, once hidden from an agent, stays hidden until it expires     *)
(* (mailbox-nudge.ts, cleanupDeliveredMarkers): the clean-up of the        *)
(* markers, whose time to live is that of the messages, brings none back.  *)
THEOREM HiddenForGood == Spec => HiddenStays
  <1>1. ASSUME MailInv, [Next]_vars, NEW a \in Agents, NEW m \in Sent,
               Lifetime[m] <= MarkerTTL, m \in DeliveredToSelf(a)
        PROVE  m \in DeliveredToSelf(a)' \/ Expired(m)'
    <2>1. m \in Messages /\ m \in Sent' /\ TypeOK /\ TypeOK' /\ SentOnce
      BY <1>1, SentTypes, SentKept, TypeStep DEF MailInv
    <2>2. CASE \E c \in Channels : delivered[c][<<a, m>>] > 0
      <3>1. \A c \in Channels : delivered[c][<<a, m>>] \in Nat
        <4>1. \A c \in Channels : delivered[c] \in [Agents \X Messages -> Nat]
          BY <2>1 DEF TypeOK
        <4> QED BY <2>1, <4>1
      <3>2. \A c \in Channels : delivered'[c][<<a, m>>] >= delivered[c][<<a, m>>]
        <4>1. CASE delivered' = delivered
          BY <3>1, <4>1
        <4>2. ASSUME NEW p \in Procs, NEW c \in Channels,
                     markDelivered(c, proc[p].who, proc[p].mail)
              PROVE  \A d \in Channels : delivered'[d][<<a, m>>] >= delivered[d][<<a, m>>]
          <5>1. \A d \in Channels : delivered'[d][<<a, m>>] = delivered[d][<<a, m>>]
                   + IF d = c /\ a = proc[p].who /\ m \in proc[p].mail THEN 1 ELSE 0
            BY <2>1, <4>2, MarkCounts
          <5> QED BY <3>1, <5>1
        <4>3. ASSUME NEW p \in Procs, markSessionStartDelivered(p) \/ MarkPulled(p)
              PROVE  delivered' = delivered
                     \/ \E c \in Channels : markDelivered(c, proc[p].who, proc[p].mail)
          BY <4>3 DEF markSessionStartDelivered, MarkPulled, Channels
        <4> QED BY <1>1, <4>1, <4>2, <4>3, Grows DEF MailInv
      <3>3. \A c \in Channels : delivered'[c][<<a, m>>] \in Nat
        <4>1. \A c \in Channels : delivered'[c] \in [Agents \X Messages -> Nat]
          BY <2>1 DEF TypeOK
        <4> QED BY <2>1, <4>1
      <3>4. \E c \in Channels : delivered'[c][<<a, m>>] > 0
        BY <2>2, <3>1, <3>2, <3>3
      <3> QED BY <2>1, <3>4 DEF DeliveredToSelf
    <2>3. ASSUME NEW k \in markers, k.msg = m, k.agent = a
          PROVE  m \in DeliveredToSelf(a)' \/ Expired(m)'
      <3>1. CASE k \in markers'
        BY <2>1, <2>3, <3>1 DEF DeliveredToSelf, HasMarker
      <3>2. ASSUME NEW p \in Procs, recordMailDelivery(p), k \notin markers'
            PROVE  m \in DeliveredToSelf(a)'
        <4> DEFINE l == [msg |-> m, agent |-> proc[p].who, at |-> now]
        <4>1. /\ markers' = {j \in markers : j.agent # proc[p].who \/ j.msg \notin proc[p].mail}
                  \cup {[msg |-> n, agent |-> proc[p].who, at |-> now] : n \in proc[p].mail}
          BY <3>2 DEF recordMailDelivery
        <4>2. a = proc[p].who /\ m \in proc[p].mail
          BY <2>3, <3>2, <4>1
        <4>3. l \in markers' /\ l.msg = m /\ l.agent = a
          BY <4>1, <4>2
        <4> QED BY <2>1, <4>3 DEF DeliveredToSelf, HasMarker
      <3>3. CASE cleanupDeliveredMarkers /\ k \notin markers'
        <4>1. now - k.at > MarkerTTL /\ now' = now /\ sent' = sent
          BY <3>3 DEF cleanupDeliveredMarkers, OldMarkers
        <4>2. k.at >= sent[SentAt(m)].at /\ k.at \in Nat /\ sent[SentAt(m)].at \in Nat
          BY <1>1, <2>1, <2>3, SentKept DEF MailInv, MarkersTrue, TypeOK
        <4>3. Lifetime[m] \in Nat /\ MarkerTTL \in Nat /\ now \in Nat
          BY <2>1, MailAssumption DEF TypeOK
        <4>4. sent[SentAt(m)].at + Lifetime[m] <= now
          BY <1>1, <4>1, <4>2, <4>3
        <4> QED BY <4>1, <4>4 DEF Expired, Expires, SentAt
      <3> QED BY <1>1, <3>1, <3>2, <3>3, MarkersStay DEF MailInv
    <2> QED BY <1>1, <2>2, <2>3 DEF DeliveredToSelf, HasMarker
  <1>2. MailInv /\ [Next]_vars =>
          [\A a \in Agents, m \in Sent :
             Lifetime[m] <= MarkerTTL /\ m \in DeliveredToSelf(a) =>
               m \in DeliveredToSelf(a)' \/ Expired(m)']_vars
    BY <1>1
  <1> QED BY <1>2, MailInvariant, PTL DEF Spec, HiddenStays
=============================================================================
