------------------------ MODULE RecorderJournal_proofs ------------------------
(***************************************************************************)
(* Theorems of RecorderJournal, for every set of sessions, calls and       *)
(* ingest processes and every value of the bounds: nothing is lost; the    *)
(* drains between them implement the log of WorkLog, record a completion   *)
(* once as long as no claim is adopted, and forget no running call as long *)
(* as none of them dies.                                                   *)
(***************************************************************************)
EXTENDS RecorderJournal, TLAPS

LEMMA TimeFacts == /\ Time \subseteq Int /\ Task \subseteq Int
                   /\ 0 \in Time /\ 0 \in Task
  BY BoundAssumption DEF Time, Task

LEMMA Positions == 1 \in Position /\ \A i \in Position : i + 1 \in Position
  BY DEF Position

LEMMA ConstructorTypes ==
  ASSUME NEW t \in Task, NEW a \in Time
  PROVE  /\ \A s \in Sessions : Marker(s, t, a) \in Entry
         /\ \A c \in Calls : Start(c, a) \in Entry /\ Post(c) \in Entry
  BY TimeFacts DEF Marker, Start, Post, Entry

LEMMA InitialTypes ==
  /\ NoFile \in File /\ NoTurn \in OpenTurn
  /\ Idle \in IngestState
  BY TimeFacts, Positions DEF NoFile, File, Closed, Handle, NoTurn, OpenTurn, Idle,
     IngestState

LEMMA OpenTypes ==
  ASSUME TypeOK, NEW w \in Writer, NEW e \in Entry, Open(w, e)
  PROVE  handle' \in [Writer -> Handle \cup {Closed}] /\ files' \in [Path -> File]
  <1>1. [path |-> Live, entry |-> e] \in Handle
    BY DEF Handle, Path
  <1>2. [exists |-> TRUE, lines |-> <<>>, mtime |-> now] \in File
    BY DEF TypeOK, File
  <1> QED BY <1>1, <1>2 DEF Open, TypeOK

LEMMA AppendToFile ==
  ASSUME NEW f \in File, NEW e \in Entry, NEW t \in Time
  PROVE  [f EXCEPT !.lines = Append(@, e), !.mtime = t] \in File
  <1>1. f.lines \in Seq(Entry)
    BY DEF File
  <1>2. Append(f.lines, e) \in Seq(Entry)
    BY <1>1
  <1> QED BY <1>2 DEF File

LEMMA AppendElements ==
  ASSUME NEW S, NEW s \in Seq(S), NEW e \in S
  PROVE  {Append(s, e)[i] : i \in 1 .. Len(Append(s, e))}
           = {s[i] : i \in 1 .. Len(s)} \cup {e}
  <1>1. /\ Len(Append(s, e)) = Len(s) + 1 /\ Len(s) \in Nat
        /\ \A i \in 1 .. Len(s) : Append(s, e)[i] = s[i]
        /\ Append(s, e)[Len(s) + 1] = e
    OBVIOUS
  <1> QED BY <1>1

LEMMA WriteTypes ==
  ASSUME TypeOK, NEW w \in Writer, Write(w)
  PROVE  handle' \in [Writer -> Handle \cup {Closed}] /\ files' \in [Path -> File]
  <1>1. handle' \in [Writer -> Handle \cup {Closed}]
    BY DEF Write, TypeOK
  <1> DEFINE q == handle[w].path
             f == [files[q] EXCEPT !.lines = Append(@, handle[w].entry),
                                   !.mtime = now]
  <1>2. handle[w] \in Handle
    BY DEF Write, IsOpen, TypeOK, Closed
  <1>3. CASE q = Gone
    BY <1>1, <1>3 DEF Write, TypeOK
  <1>4. CASE q # Gone
    <2>1. q \in Path /\ handle[w].entry \in Entry
      BY <1>2, <1>4 DEF Handle
    <2>2. f \in File
      BY <2>1, AppendToFile DEF TypeOK
    <2>3. files' = [files EXCEPT ![q] = f]
      BY <1>4 DEF Write
    <2> QED BY <1>1, <2>1, <2>2, <2>3 DEF TypeOK
  <1> QED BY <1>3, <1>4

LEMMA RenameTypes ==
  ASSUME TypeOK, NEW from \in Path, NEW to \in Path, RenameTo(from, to)
  PROVE  handle' \in [Writer -> Handle \cup {Closed}] /\ files' \in [Path -> File]
  <1>1. files' \in [Path -> File]
    BY InitialTypes DEF RenameTo, TypeOK
  <1>2. \A w \in Writer : handle[w].path = from =>
          [handle[w] EXCEPT !.path = to] \in Handle
    <2> SUFFICES ASSUME NEW w \in Writer, handle[w].path = from
                 PROVE  [handle[w] EXCEPT !.path = to] \in Handle
      OBVIOUS
    <2>1. from # Shut
      BY NameAssumption DEF Path, Live, Shut
    <2>2. handle[w] \in Handle
      BY <2>1 DEF TypeOK, Closed
    <2> QED BY <2>2 DEF Handle
  <1> QED BY <1>1, <1>2 DEF RenameTo, TypeOK

LEMMA HostTypes ==
  ASSUME TypeOK,
         \/ \E s \in Sessions : Prompt(s) \/ WriteMarker(s)
         \/ \E c \in Calls : StartCall(c) \/ FinishCall(c) \/ WriteCall(c)
  PROVE  TypeOK'
  <1> USE DEF hostVars, sinkVars, histVars
  <1>1. ASSUME NEW s \in Sessions, Prompt(s) PROVE TypeOK'
    <2>1. turnNo[s] + 1 \in Task
      BY <1>1, BoundAssumption DEF Prompt, TypeOK, Task
    <2>2. Marker(s, turnNo[s] + 1, now) \in Entry /\ s \in Writer
      BY <2>1, ConstructorTypes DEF TypeOK, Writer
    <2>3. handle' \in [Writer -> Handle \cup {Closed}] /\ files' \in [Path -> File]
      BY <1>1, <2>2, OpenTypes DEF Prompt
    <2> QED BY <1>1, <2>1, <2>3 DEF Prompt, TypeOK
  <1>2. ASSUME NEW s \in Sessions, WriteMarker(s) PROVE TypeOK'
    <2>1. handle' \in [Writer -> Handle \cup {Closed}] /\ files' \in [Path -> File]
      BY <1>2, WriteTypes DEF WriteMarker, Writer
    <2> QED BY <1>2, <2>1 DEF WriteMarker, Write, TypeOK
  <1>3. ASSUME NEW c \in Calls, StartCall(c) PROVE TypeOK'
    <2>1. Start(c, now) \in Entry /\ c \in Writer
      BY TimeFacts, ConstructorTypes DEF TypeOK, Writer
    <2>2. handle' \in [Writer -> Handle \cup {Closed}] /\ files' \in [Path -> File]
      BY <1>3, <2>1, OpenTypes DEF StartCall
    <2>3. turnNo[Owner[c]] \in Task
      BY OwnerAssumption DEF TypeOK
    <2> QED BY <1>3, <2>2, <2>3 DEF StartCall, TypeOK
  <1>4. ASSUME NEW c \in Calls, FinishCall(c) PROVE TypeOK'
    <2>1. Post(c) \in Entry /\ c \in Writer
      BY TimeFacts, ConstructorTypes DEF TypeOK, Writer
    <2>2. handle' \in [Writer -> Handle \cup {Closed}] /\ files' \in [Path -> File]
      BY <1>4, <2>1, OpenTypes DEF FinishCall
    <2> QED BY <1>4, <2>2 DEF FinishCall, TypeOK
  <1>5. ASSUME NEW c \in Calls, WriteCall(c) PROVE TypeOK'
    <2>1. handle' \in [Writer -> Handle \cup {Closed}] /\ files' \in [Path -> File]
      BY <1>5, WriteTypes DEF WriteCall, Writer
    <2> QED BY <1>5, <2>1 DEF WriteCall, Write, TypeOK
  <1> QED BY <1>1, <1>2, <1>3, <1>4, <1>5

LEMMA NewNameType == FreshNames # {} => NewName \in FreshNames /\ NewName \in ClaimName
  BY DEF NewName, FreshNames

LEMMA CurrentTypes ==
  ASSUME NEW turns \in [Sessions -> OpenTurn]
  PROVE  Current(turns) \in [Sessions -> OpenTurn]
  BY InitialTypes DEF Current

LEMMA DrainLineTypes ==
  ASSUME TypeOK, NEW p \in Ingesters, DrainLine(p)
  PROVE  ing' \in [Ingesters -> IngestState] /\ ledger' \in [Calls -> Seq(Task)]
  <1> DEFINE e == Head(ing[p].lines)
  <1>1. ing[p] \in IngestState
    BY DEF TypeOK
  <1>2. ing[p].lines \in Seq(Entry) /\ ing[p].lines # <<>>
    BY <1>1 DEF IngestState, DrainLine
  <1>3. e \in Entry /\ Tail(ing[p].lines) \in Seq(Entry)
    BY <1>2
  <1>4. CASE DrainStart(p, e)
    BY <1>1, <1>3, <1>4 DEF DrainStart, WithoutStart, IngestState, TypeOK
  <1>5. CASE DrainMarker(p, e)
    <2>1. [task |-> e.turn, at |-> e.at] \in OpenTurn
      BY <1>3 DEF OpenTurn, Entry
    <2>2. [ing[p].turns EXCEPT ![e.who] = [task |-> e.turn, at |-> e.at]]
            \in [Sessions -> OpenTurn]
      BY <1>1, <2>1 DEF IngestState
    <2>3. [ing[p] EXCEPT !.lines = Tail(@), !.turns[e.who] =
             [task |-> e.turn, at |-> e.at]] \in IngestState
      BY <1>1, <1>3, <2>2 DEF IngestState
    <2> QED BY <1>5, <2>3 DEF DrainMarker, TypeOK
  <1>6. CASE DrainPost(p, e)
    <2>1. ing' \in [Ingesters -> IngestState]
      BY <1>1, <1>3, <1>6 DEF DrainPost, WithoutStart, IngestState, TypeOK
    <2>2. \A c \in Calls : ing[p].turns[Owner[c]].task \in Task
      BY <1>1, OwnerAssumption DEF IngestState, OpenTurn
    <2>3. \A c \in Calls : Append(ledger[c], ing[p].turns[Owner[c]].task) \in Seq(Task)
      BY <2>2 DEF TypeOK
    <2>4. \A c \in Calls :
            ledger'[c] = IF c = e.who
                         THEN Append(ledger[c], ing[p].turns[Owner[c]].task)
                         ELSE ledger[c]
      BY <1>6 DEF DrainPost, TypeOK
    <2>5. ledger' = [c \in Calls |-> ledger'[c]]
      BY <1>6 DEF DrainPost, TypeOK
    <2>6. \A c \in Calls : ledger[c] \in Seq(Task)
      BY DEF TypeOK
    <2>7. \A c \in Calls : ledger'[c] \in Seq(Task)
      BY <2>3, <2>4, <2>6
    <2>8. ledger' \in [Calls -> Seq(Task)]
      BY <2>5, <2>7, Zenon
    <2> QED BY <2>1, <2>8
  <1>7. CASE DrainReject(p, e)
    <2>1. e.who \in Calls
      BY <1>7, RejectableAssumption DEF DrainReject
    <2>2. [ing[p] EXCEPT !.lines = Tail(@),
                         !.unfinished = WithoutStart(p, e.who),
                         !.rejects = @ \cup {e.who}] \in IngestState
      BY <1>1, <1>3, <2>1 DEF WithoutStart, IngestState
    <2>3. ing' \in [Ingesters -> IngestState]
      BY <1>7, <2>2 DEF DrainReject, TypeOK
    <2> QED BY <1>7, <2>3 DEF DrainReject, TypeOK
  <1> QED BY <1>4, <1>5, <1>6, <1>7 DEF DrainLine

(* One obligation per action of an ingest process.                           *)
LEMMA IngestTypes ==
  ASSUME TypeOK, NEW p \in Ingesters, Ingest(p)
  PROVE  TypeOK'
  <1> USE DEF hostVars, diskVars, sinkVars, histVars
  <1>0. ing[p] \in IngestState /\ p \in Writer
    BY DEF TypeOK, Writer
  <1>1. CASE Claim(p)
    <2>1. CASE files[Live].exists /\ FreshNames # {} /\ RenameTo(Live, NewName)
               /\ ing' = [ing EXCEPT ![p].pc = "list", ![p].held = <<NewName>>]
               /\ straddled' = straddled \cup
                   {handle[w].entry : w \in {v \in Writer : handle[v].path = Live}}
      <3>1. NewName \in ClaimName /\ Live \in Path /\ NewName \in Path
        BY <2>1, NewNameType DEF Path
      <3>2. handle' \in [Writer -> Handle \cup {Closed}] /\ files' \in [Path -> File]
        BY <2>1, <3>1, RenameTypes
      <3>3. [ing[p] EXCEPT !.pc = "list", !.held = <<NewName>>] \in IngestState
        <4>1. <<NewName>> \in Seq(ClaimName)
          BY <3>1
        <4> QED BY <1>0, <4>1 DEF IngestState
      <3>4. ing' \in [Ingesters -> IngestState]
        BY <2>1, <3>3 DEF TypeOK
      <3>5. \A w \in Writer : handle[w].path = Live => handle[w].entry \in Entry
        BY DEF TypeOK, Handle, Closed, Live, Shut
      <3> QED BY <1>1, <2>1, <3>2, <3>4, <3>5 DEF Claim, TypeOK
    <2>2. CASE ing' = [ing EXCEPT ![p].pc = "list"]
               /\ UNCHANGED <<diskVars, straddled>>
      BY <1>0, <1>1, <2>2 DEF Claim, IngestState, TypeOK
    <2> QED BY <1>1, <2>1, <2>2 DEF Claim
  <1>2. CASE ListClaims(p)
    BY <1>0, <1>2 DEF ListClaims, IngestState, TypeOK
  <1>3. ASSUME NEW n \in ClaimName, Adopt(p, n) PROVE TypeOK'
    <2>1. CASE Stale(p, n) /\ adoptions < MaxAdoptions
      <3>1. /\ NewName \in ClaimName /\ n \in Path /\ NewName \in Path
            /\ RenameTo(n, NewName)
            /\ ing' = [ing EXCEPT ![p].todo = @ \ {n},
                                  ![p].held = Append(@, NewName)]
            /\ adoptions' = adoptions + 1
        BY <1>3, <2>1, NewNameType DEF Adopt, Path
      <3>2. handle' \in [Writer -> Handle \cup {Closed}] /\ files' \in [Path -> File]
        BY <3>1, RenameTypes
      <3>3. Append(ing[p].held, NewName) \in Seq(ClaimName)
        BY <1>0, <3>1 DEF IngestState
      <3>4. ing' \in [Ingesters -> IngestState]
        BY <1>0, <3>1, <3>3 DEF IngestState, TypeOK
      <3>5. adoptions' \in 0 .. MaxAdoptions
        BY <2>1, <3>1, BoundAssumption DEF TypeOK
      <3> QED BY <1>3, <3>2, <3>4, <3>5 DEF Adopt, TypeOK
    <2>2. CASE ~(Stale(p, n) /\ adoptions < MaxAdoptions)
      <3>1. /\ ing' = [ing EXCEPT ![p].todo = @ \ {n}]
            /\ UNCHANGED <<diskVars, adoptions, now, hostVars, sinkVars,
                           crashes, straddled>>
        BY <1>3, <2>2 DEF Adopt
      <3>2. ing' \in [Ingesters -> IngestState]
        BY <1>0, <3>1 DEF IngestState, TypeOK
      <3> QED BY <3>1, <3>2 DEF TypeOK
    <2> QED BY <2>1, <2>2
  <1>4. CASE NothingToDrain(p)
    BY <1>4, InitialTypes DEF NothingToDrain, TypeOK
  <1>5. CASE ReadTurns(p)
    <2>1. Current(turnFile) \in [Sessions -> OpenTurn]
      BY CurrentTypes DEF TypeOK
    <2>2. [ing[p] EXCEPT !.pc = "drain", !.turns = Current(turnFile)]
            \in IngestState
      BY <1>0, <2>1 DEF IngestState
    <2>3. ing' \in [Ingesters -> IngestState]
      BY <1>5, <2>2 DEF ReadTurns, TypeOK
    <2> QED BY <1>5, <2>3 DEF ReadTurns, TypeOK
  <1>6. CASE ReadClaim(p)
    <2> DEFINE n == ing[p].held[ing[p].next]
    <2>1. \A q \in ClaimName : files[q].lines \in Seq(Entry)
      BY DEF TypeOK, File, Path
    <2>2. files[n].lines \in Seq(Entry)
      BY <1>0, <1>6, <2>1 DEF ReadClaim, IngestState, Position
    <2>3. [ing[p] EXCEPT !.lines = files[n].lines, !.next = @ + 1]
            \in IngestState
      BY <1>0, <2>2, Positions DEF IngestState
    <2> QED BY <1>6, <2>3 DEF ReadClaim, TypeOK
  <1>7. CASE DrainLine(p)
    BY <1>7, DrainLineTypes DEF DrainLine, TypeOK
  <1>8. CASE WriteRejected(p)
    <2>1. [ing[p] EXCEPT !.pc = "remove", !.next = 1, !.rejects = {}]
            \in IngestState
      BY <1>0, Positions DEF IngestState
    <2>2. rejected \cup ing[p].rejects \in SUBSET Calls
      BY <1>0 DEF IngestState, TypeOK
    <2> QED BY <1>8, <2>1, <2>2 DEF WriteRejected, TypeOK
  <1>9. CASE RemoveClaim(p)
    <2>1. files' \in [Path -> File]
      BY <1>9, InitialTypes DEF RemoveClaim, TypeOK
    <2> DEFINE n == ing[p].held[ing[p].next]
    <2>2. n \in ClaimName /\ n # Shut
      BY <1>0, <1>9, NameAssumption DEF RemoveClaim, IngestState, Position
    <2>3. \A w \in Writer : handle[w].path = n =>
            [handle[w] EXCEPT !.path = Gone] \in Handle
      <3> SUFFICES ASSUME NEW w \in Writer, handle[w].path = n
                   PROVE  [handle[w] EXCEPT !.path = Gone] \in Handle
        OBVIOUS
      <3>1. handle[w] \in Handle
        BY <2>2 DEF TypeOK, Closed
      <3> QED BY <3>1 DEF Handle
    <2>4. handle' \in [Writer -> Handle \cup {Closed}]
      BY <1>9, <2>3 DEF RemoveClaim, TypeOK
    <2>5. /\ [ing[p] EXCEPT !.next = @ + 1] \in IngestState
          /\ [ing[p] EXCEPT !.pc = "carry",
                            !.unfinished = {e \in @ : Carried(e)}] \in IngestState
      BY <1>0, Positions DEF IngestState
    <2>6. ing' \in [Ingesters -> IngestState]
      BY <1>9, <2>5 DEF RemoveClaim, TypeOK
    <2> QED BY <1>9, <2>1, <2>4, <2>6 DEF RemoveClaim, TypeOK
  <1>10. CASE CarryOpen(p)
    <2>1. PICK e \in ing[p].unfinished :
            Open(p, e) /\ ing' = [ing EXCEPT ![p].unfinished = @ \ {e}]
      BY <1>10 DEF CarryOpen
    <2>2. e \in Entry
      BY <1>0, <2>1 DEF IngestState
    <2>3. handle' \in [Writer -> Handle \cup {Closed}] /\ files' \in [Path -> File]
      BY <1>0, <2>1, <2>2, OpenTypes
    <2> QED BY <1>0, <1>10, <2>1, <2>3 DEF CarryOpen, IngestState, TypeOK
  <1>11. CASE CarryWrite(p)
    <2>1. handle' \in [Writer -> Handle \cup {Closed}] /\ files' \in [Path -> File]
      BY <1>0, <1>11, WriteTypes DEF CarryWrite
    <2> QED BY <1>11, <2>1 DEF CarryWrite, Write, TypeOK
  <1>12. CASE SaveTurns(p)
    <2>1. Current(ing[p].turns) \in [Sessions -> OpenTurn]
      BY <1>0, CurrentTypes DEF IngestState
    <2> QED BY <1>12, <2>1, InitialTypes DEF SaveTurns, TypeOK
  <1> QED BY <1>1, <1>2, <1>3, <1>4, <1>5, <1>6, <1>7, <1>8, <1>9, <1>10,
             <1>11, <1>12 DEF Ingest

LEMMA CrashTypes ==
  ASSUME TypeOK, NEW p \in Ingesters, Crash(p)
  PROVE  TypeOK'
  <1>1. crashes' \in 0 .. MaxCrashes
    BY BoundAssumption DEF Crash, TypeOK
  <1>2. ing' \in [Ingesters -> IngestState]
    BY InitialTypes DEF Crash, TypeOK
  <1>3. handle' \in [Writer -> Handle \cup {Closed}]
    BY DEF Crash, TypeOK
  <1> QED BY <1>1, <1>2, <1>3 DEF Crash, TypeOK, hostVars, sinkVars

LEMMA TickTypes == TypeOK /\ Tick => TypeOK'
  <1> SUFFICES ASSUME TypeOK, Tick PROVE TypeOK'
    OBVIOUS
  <1>1. now' \in Time
    BY BoundAssumption DEF Tick, TypeOK, Time
  <1> QED BY <1>1 DEF Tick, TypeOK, hostVars, diskVars, sinkVars, histVars

LEMMA InitTypes == Init => TypeOK
  BY InitialTypes, TimeFacts, BoundAssumption DEF Init, TypeOK

LEMMA NextTypes == TypeOK /\ [Next]_vars => TypeOK'
  <1> SUFFICES ASSUME TypeOK, [Next]_vars PROVE TypeOK'
    OBVIOUS
  <1>1. CASE UNCHANGED vars
    BY <1>1 DEF TypeOK, vars, hostVars, diskVars, sinkVars, histVars
  <1>2. CASE Next
    BY <1>2, HostTypes, IngestTypes, CrashTypes, TickTypes DEF Next
  <1> QED BY <1>1, <1>2

(* Every reachable state is well typed, whatever the bounds: in particular   *)
(* no drain runs past its list of claims and no line is written through a    *)
(* handle that is not open.                                                  *)
THEOREM TypeCorrect == Spec => []TypeOK
  BY InitTypes, NextTypes, PTL DEF Spec

-------------------------------------------------------------------------------
(* What each disk operation does to the lines of a file.                     *)

LEMMA SystemTypes ==
  ASSUME TypeOK
  PROVE  /\ \A q \in Path : files[q].lines \in Seq(Entry) /\ files[q] \in File
         /\ \A w \in Writer : handle[w] \in Handle \/ handle[w].path = Shut
         /\ \A p \in Ingesters : /\ ing[p].held \in Seq(ClaimName)
                                 /\ ing[p].lines \in Seq(Entry)
                                 /\ ing[p].next \in Nat \ {0}
         /\ Live \in Path /\ Live \notin ClaimName
         /\ Gone \notin Path /\ Shut \notin Path
  BY NameAssumption
     DEF TypeOK, File, Closed, IngestState, Position, Path, Live, Gone, Shut

LEMMA OpenDisk ==
  ASSUME TypeOK, FilesOK, NEW w \in Writer, NEW e, Open(w, e)
  PROVE  /\ FilesOK'
         /\ \A q \in Path : Lines(q)' = Lines(q)
  <1>1. \A q \in Path : files'[q].lines = files[q].lines
    BY SystemTypes DEF Open, FilesOK, TypeOK
  <1>2. \A q \in Path : files[q].exists => files'[q].exists
    BY SystemTypes DEF Open, TypeOK
  <1>3. files'[Live].exists
    BY SystemTypes DEF Open, TypeOK
  <1>4. \A q \in Path : ~files'[q].exists => files'[q].lines = <<>>
    BY <1>1, <1>2 DEF FilesOK
  <1>5. \A v \in Writer : handle'[v].path \in Path => files'[handle'[v].path].exists
    BY <1>2, <1>3 DEF Open, FilesOK, TypeOK
  <1> QED BY <1>1, <1>4, <1>5 DEF FilesOK, Lines

LEMMA WriteDisk ==
  ASSUME TypeOK, FilesOK, NEW w \in Writer, Write(w)
  PROVE  /\ FilesOK'
         /\ \A q \in Path : Lines(q)' = IF q = handle[w].path
                                        THEN Lines(q) \cup {handle[w].entry}
                                        ELSE Lines(q)
  <1> DEFINE r == handle[w].path
             e == handle[w].entry
  <1>1. handle[w] \in Handle
    BY SystemTypes DEF Write, IsOpen
  <1>2. CASE r = Gone
    <2>1. files' = files /\ \A v \in Writer : handle'[v] = handle[v] \/ handle'[v] = Closed
      BY <1>2 DEF Write, TypeOK
    <2>2. FilesOK'
      BY <2>1, SystemTypes DEF FilesOK, Closed
    <2> QED BY <1>2, <2>1, <2>2, SystemTypes DEF Lines
  <1>3. CASE r # Gone
    <2>1. r \in Path /\ e \in Entry /\ files[r] \in File
      BY <1>1, <1>3, SystemTypes DEF Handle
    <2> DEFINE f == [files[r] EXCEPT !.lines = Append(@, e), !.mtime = now]
    <2>2. files' = [files EXCEPT ![r] = f]
      BY <1>3 DEF Write
    <2>3. /\ \A q \in Path : q # r => files'[q] = files[q]
          /\ files'[r].exists = files[r].exists
          /\ files'[r].lines = Append(files[r].lines, e)
      BY <2>1, <2>2 DEF TypeOK, File
    <2>4. \A q \in Path : q = r => Lines(q)' = Lines(q) \cup {e}
      <3>1. {files'[r].lines[i] : i \in 1 .. Len(files'[r].lines)}
              = {files[r].lines[i] : i \in 1 .. Len(files[r].lines)} \cup {e}
        <4> DEFINE l == files[r].lines
        <4>1. l \in Seq(Entry)
          BY <2>1, SystemTypes
        <4>2. {Append(l, e)[i] : i \in 1 .. Len(Append(l, e))}
                = {l[i] : i \in 1 .. Len(l)} \cup {e}
          <5> HIDE DEF l, e
          <5> QED BY <4>1, <2>1, AppendElements
        <4> QED BY <2>3, <4>2
      <3> QED BY <3>1 DEF Lines
    <2>5. \A q \in Path : q # r => Lines(q)' = Lines(q)
      BY <2>3 DEF Lines
    <2>6. files[r].exists
      BY <2>1 DEF FilesOK
    <2>7. \A q \in Path : ~files'[q].exists => files'[q].lines = <<>>
      BY <2>3, <2>6 DEF FilesOK
    <2>8. \A v \in Writer : handle'[v] = handle[v] \/ handle'[v] = Closed
      BY DEF Write, TypeOK
    <2>9. \A q \in Path : files[q].exists => files'[q].exists
      BY <2>3
    <2>10. \A v \in Writer : handle'[v].path \in Path => files'[handle'[v].path].exists
      BY <2>8, <2>9, SystemTypes DEF FilesOK, Closed
    <2> QED BY <2>4, <2>5, <2>7, <2>10 DEF FilesOK
  <1> QED BY <1>2, <1>3

LEMMA RenameDisk ==
  ASSUME TypeOK, FilesOK, NEW from \in Path, NEW to \in FreshNames,
         files[from].exists, RenameTo(from, to)
  PROVE  /\ FilesOK'
         /\ \A q \in Path : Lines(q)' = IF q = to THEN Lines(from)
                                        ELSE IF q = from THEN {}
                                        ELSE Lines(q)
         /\ Lines(to) = {}
         /\ \A w \in Writer : /\ handle'[w].entry = handle[w].entry
                              /\ handle'[w].path = IF handle[w].path = from
                                                   THEN to ELSE handle[w].path
  <1>1. to \in Path /\ to # from /\ ~files[to].exists /\ to \in ClaimName
        /\ \A w \in Writer : handle[w].path # to
    BY DEF FreshNames, Path
  <1>2. \A q \in Path : files'[q] = IF q = from THEN NoFile
                                    ELSE IF q = to THEN files[from] ELSE files[q]
    BY <1>1 DEF RenameTo, TypeOK
  <1>3. \A w \in Writer : /\ handle'[w].entry = handle[w].entry
                          /\ handle'[w].path = IF handle[w].path = from
                                               THEN to ELSE handle[w].path
    <2>1. \A w \in Writer : handle[w].path = from => handle[w] \in Handle
      BY SystemTypes
    <2> QED BY <2>1 DEF RenameTo, TypeOK, Handle
  <1>4. FilesOK'
    BY <1>1, <1>2, <1>3 DEF FilesOK, NoFile
  <1>5. files[to].lines = <<>>
    BY <1>1 DEF FilesOK
  <1>6. Lines(to) = {}
    BY <1>5 DEF Lines
  <1>7. \A q \in Path : Lines(q)' = IF q = to THEN Lines(from)
                                    ELSE IF q = from THEN {}
                                    ELSE Lines(q)
    BY <1>1, <1>2 DEF Lines, NoFile
  <1> QED BY <1>3, <1>4, <1>6, <1>7

LEMMA RemoveDisk ==
  ASSUME TypeOK, FilesOK, NEW p \in Ingesters, RemoveClaim(p)
  PROVE  /\ FilesOK'
         /\ ing[p].held[ing[p].next] \in ClaimName
         /\ \A q \in Path : Lines(q)' = IF q = ing[p].held[ing[p].next]
                                        THEN {} ELSE Lines(q)
         /\ \A w \in Writer : /\ handle'[w].entry = handle[w].entry
                              /\ handle'[w].path =
                                   IF handle[w].path = ing[p].held[ing[p].next]
                                   THEN Gone ELSE handle[w].path
  <1> DEFINE n == ing[p].held[ing[p].next]
  <1>1. n \in ClaimName
    BY SystemTypes DEF RemoveClaim
  <1>2. \A q \in Path : files'[q] = IF q = n THEN NoFile ELSE files[q]
    BY <1>1 DEF RemoveClaim, TypeOK
  <1>3. \A w \in Writer : /\ handle'[w].entry = handle[w].entry
                          /\ handle'[w].path = IF handle[w].path = n
                                               THEN Gone ELSE handle[w].path
    <2>1. \A w \in Writer : handle[w].path = n => handle[w] \in Handle
      BY <1>1, SystemTypes DEF Path
    <2> QED BY <2>1 DEF RemoveClaim, TypeOK, Handle
  <1>4. FilesOK'
    BY <1>2, <1>3, SystemTypes DEF FilesOK, NoFile
  <1>5. \A q \in Path : Lines(q)' = IF q = n THEN {} ELSE Lines(q)
    BY <1>2 DEF Lines, NoFile
  <1> QED BY <1>1, <1>3, <1>4, <1>5

-------------------------------------------------------------------------------
(* What a step must leave alone for the two invariants about lines to hold.  *)

LEMMA DrainFrame ==
  ASSUME LossInv, NEW p \in Ingesters, ing'[p] = ing[p],
         \A c \in Calls : Accounted(c) => Accounted(c)',
         \A q \in Held(p) : \A c \in Calls :
            Post(c) \in Lines(q)' => Post(c) \in Lines(q) \/ Accounted(c)'
  PROVE  DrainOK(p)'
  <1>1. DrainOK(p)
    BY DEF LossInv, DrainsOK
  <1>2. \A k \in 1 .. Len(ing[p].held) : ing[p].held[k] \in Held(p)
    BY DEF Held
  <1> QED BY <1>1, <1>2 DEF DrainOK, Remaining

LEMMA LossFrame ==
  ASSUME NoLoss,
         \A c \in Calls : Accounted(c) => Accounted(c)',
         \A c \in Calls : OnDisk(Post(c)) => OnDisk(Post(c))' \/ Accounted(c)',
         \A c \in Calls : Journalled(c)' =>
            Journalled(c) \/ OnDisk(Post(c))' \/ Accounted(c)'
  PROVE  NoLoss'
  BY DEF NoLoss, Accounted

LEMMA SameLinesOnDisk ==
  ASSUME \A q \in Path : Lines(q) \subseteq Lines(q)', NEW e, OnDisk(e)
  PROVE  OnDisk(e)'
  BY DEF OnDisk

(* Steps that change neither files, handles nor what the host believes.      *)
LEMMA QuietStep ==
  ASSUME LossInv, UNCHANGED <<call, files, handle, straddled>>,
         \A c \in Calls : Settled(c) => Settled(c)'
  PROVE  /\ FilesOK' /\ HandlesOK' /\ NoLoss'
         /\ \A p \in Ingesters : ing'[p] = ing[p] => DrainOK(p)'
  <1>1. \A c \in Calls : Accounted(c) => Accounted(c)'
    BY DEF Accounted
  <1>2. \A q : Lines(q)' = Lines(q)
    BY DEF Lines
  <1>3. FilesOK' /\ HandlesOK'
    BY DEF LossInv, FilesOK, HandlesOK, IsOpen
  <1>4. NoLoss'
    BY <1>1, <1>2, LossFrame DEF LossInv, Journalled, OnDisk
  <1>5. \A p \in Ingesters : ing'[p] = ing[p] => DrainOK(p)'
    BY <1>1, <1>2, DrainFrame
  <1> QED BY <1>3, <1>4, <1>5

LEMMA OpenStep ==
  ASSUME LossInv, NEW w \in Writer, NEW e, Open(w, e),
         UNCHANGED <<ledger, rejected, straddled>>,
         \A c \in Calls : Journalled(c)' => Journalled(c),
         \A c \in Calls : c # w => call'[c] = call[c],
         \A c \in Calls : c = w =>
            /\ call'[c] \in {"starting", "finishing"}
            /\ call'[c] = "finishing" => e = Post(c)
  PROVE  /\ FilesOK' /\ HandlesOK' /\ NoLoss'
         /\ \A p \in Ingesters : ing'[p] = ing[p] => DrainOK(p)'
  <1>1. FilesOK' /\ \A q \in Path : Lines(q)' = Lines(q)
    BY OpenDisk DEF LossInv
  <1>2. \A c \in Calls : Accounted(c) => Accounted(c)'
    BY DEF Accounted, Settled
  <1>3. HandlesOK'
    <2>1. \A v \in Writer : handle'[v] = IF v = w THEN [path |-> Live, entry |-> e]
                                         ELSE handle[v]
      BY DEF Open, LossInv, TypeOK
    <2>2. \A c \in Calls : c \in Writer
      BY DEF Writer
    <2> QED BY <2>1, <2>2 DEF LossInv, HandlesOK, IsOpen, Live, Shut
  <1>4. NoLoss'
    BY <1>1, <1>2, LossFrame DEF LossInv, OnDisk
  <1>5. \A p \in Ingesters : Held(p) \subseteq Path
    BY SystemTypes DEF Held, LossInv, Path
  <1>6. \A p \in Ingesters : ing'[p] = ing[p] => DrainOK(p)'
    BY <1>1, <1>2, <1>5, DrainFrame
  <1> QED BY <1>1, <1>3, <1>4, <1>6

LEMMA WriteStep ==
  ASSUME LossInv, NEW w \in Writer, Write(w), ing' = ing,
         \A c \in Calls : c # w => call'[c] = call[c],
         \A c \in Calls : c = w /\ call[c] = "starting" => call'[c] = "running"
  PROVE  FilesOK' /\ HandlesOK' /\ NoLoss' /\ DrainsOK'
  <1> DEFINE r == handle[w].path
             e == handle[w].entry
  <1>1. /\ FilesOK'
        /\ \A q \in Path : Lines(q)' = IF q = r THEN Lines(q) \cup {e} ELSE Lines(q)
    BY WriteDisk DEF LossInv
  <1>2. r # Shut /\ UNCHANGED <<ledger, rejected, straddled>>
    BY DEF Write, IsOpen, sinkVars, histVars
  <1>3. \A c \in Calls : Accounted(c) => Accounted(c)'
    BY <1>2 DEF Accounted, Settled
  <1>4. r # Live => e \in straddled
    BY <1>2 DEF LossInv, HandlesOK
  <1>5. HandlesOK'
    <2>1. \A v \in Writer : handle'[v] = IF v = w THEN Closed ELSE handle[v]
      BY DEF Write, LossInv, TypeOK
    <2>2. \A c \in Calls : c \in Writer
      BY DEF Writer
    <2> QED BY <1>2, <2>1, <2>2 DEF LossInv, HandlesOK, IsOpen, Closed, Shut
  <1>6. NoLoss'
    <2>1. \A c \in Calls : OnDisk(Post(c)) => OnDisk(Post(c))'
      BY <1>1, SameLinesOnDisk
    <2>2. ASSUME NEW c \in Calls, c = w, Journalled(c)'
          PROVE  OnDisk(Post(c))' \/ Accounted(c)'
      <3>1. call[c] = "finishing" /\ e = Post(c)
        BY <1>2, <2>2 DEF LossInv, HandlesOK, IsOpen, Journalled
      <3>2. CASE r = Live
        BY <1>1, <3>1, <3>2, SystemTypes DEF OnDisk, LossInv
      <3>3. CASE r # Live
        BY <1>2, <1>4, <3>1, <3>3 DEF Accounted
      <3> QED BY <3>2, <3>3
    <2> QED BY <1>3, <2>1, <2>2, LossFrame DEF LossInv, Journalled
  <1>7. DrainsOK'
    <2> SUFFICES ASSUME NEW p \in Ingesters PROVE DrainOK(p)'
      BY DEF DrainsOK
    <2>1. \A q \in Held(p) : q \in ClaimName /\ q \in Path /\ q # Live
      BY SystemTypes DEF Held, LossInv, Path
    <2>2. \A q \in Held(p) : \A c \in Calls :
            Post(c) \in Lines(q)' => Post(c) \in Lines(q) \/ Accounted(c)'
      BY <1>1, <1>2, <1>4, <2>1 DEF Accounted
    <2> QED BY <1>3, <2>2, DrainFrame
  <1> QED BY <1>1, <1>5, <1>6, <1>7

(* claimJournal and adoptStaleClaims: a rename to a fresh name moves lines   *)
(* between paths no drain has read, and every handle it takes along is       *)
(* counted as straddled.                                                     *)
LEMMA RenameStep ==
  ASSUME LossInv, NEW p \in Ingesters, At(p, "idle") \/ At(p, "adopt"),
         NEW from \in Path, files[from].exists, FreshNames # {},
         RenameTo(from, NewName),
         UNCHANGED <<call, ledger, rejected>>,
         straddled \subseteq straddled',
         from = Live => \A w \in Writer : handle[w].path = Live =>
                                            handle[w].entry \in straddled',
         \A q \in Ingesters : q # p => ing'[q] = ing[q],
         ing'[p].pc \in {"list", "adopt"}, ing'[p].next = ing[p].next
  PROVE  FilesOK' /\ HandlesOK' /\ NoLoss' /\ DrainsOK'
  <1> DEFINE to == NewName
  <1>1. to \in FreshNames /\ to \in Path /\ to # Live /\ to # Shut /\ to \in ClaimName
    BY NewNameType, SystemTypes DEF Path, LossInv
  <1>2. /\ FilesOK'
        /\ \A q \in Path : Lines(q)' = IF q = to THEN Lines(from)
                                       ELSE IF q = from THEN {} ELSE Lines(q)
        /\ Lines(to) = {}
        /\ \A w \in Writer : /\ handle'[w].entry = handle[w].entry
                             /\ handle'[w].path = IF handle[w].path = from
                                                  THEN to ELSE handle[w].path
    BY <1>1, RenameDisk DEF LossInv
  <1>3. \A c \in Calls : Accounted(c) => Accounted(c)'
    BY DEF Accounted, Settled
  <1>4. HandlesOK'
    <2>1. \A w \in Writer : handle'[w].path \notin {Live, Shut} =>
                              handle'[w].entry \in straddled'
      <3> SUFFICES ASSUME NEW w \in Writer, handle'[w].path \notin {Live, Shut}
                   PROVE  handle'[w].entry \in straddled'
        OBVIOUS
      <3>1. CASE handle[w].path = from /\ from = Live
        BY <1>2, <3>1
      <3>2. CASE handle[w].path = from /\ from # Live
        BY <1>2, <3>2, SystemTypes DEF LossInv, HandlesOK
      <3>3. CASE handle[w].path # from
        BY <1>2, <3>3 DEF LossInv, HandlesOK
      <3> QED BY <3>1, <3>2, <3>3
    <2>2. from # Shut
      BY SystemTypes DEF LossInv
    <2>3. \A c \in Calls : /\ c \in Writer
                           /\ IsOpen(c)' <=> IsOpen(c)
                           /\ handle'[c].entry = handle[c].entry
      BY <1>1, <1>2, <2>2 DEF Writer, IsOpen
    <2> QED BY <2>1, <2>3 DEF LossInv, HandlesOK
  <1>5. NoLoss'
    <2>1. \A c \in Calls : OnDisk(Post(c)) => OnDisk(Post(c))'
      BY <1>1, <1>2 DEF OnDisk
    <2> QED BY <1>3, <2>1, LossFrame DEF LossInv, Journalled
  <1>6. DrainsOK'
    <2>1. DrainOK(p)'
      BY DEF LossInv, DrainsOK, DrainOK, At
    <2>2. ASSUME NEW q \in Ingesters, q # p PROVE DrainOK(q)'
      <3>1. to \notin Held(q) /\ Held(q) \subseteq Path
        BY <1>1, SystemTypes DEF FreshNames, Held, Path, LossInv
      <3>2. \A n \in Held(q) : \A c \in Calls :
              Post(c) \in Lines(n)' => Post(c) \in Lines(n)
        BY <1>2, <3>1
      <3> QED BY <1>3, <2>2, <3>2, DrainFrame
    <2> QED BY <2>1, <2>2 DEF DrainsOK
  <1> QED BY <1>2, <1>4, <1>5, <1>6

LEMMA ClaimStep ==
  ASSUME LossInv, NEW p \in Ingesters, Claim(p)
  PROVE  FilesOK' /\ HandlesOK' /\ NoLoss' /\ DrainsOK'
  <1> USE DEF hostVars, diskVars, sinkVars, histVars
  <1>0. ing \in [Ingesters -> IngestState]
    BY DEF LossInv, TypeOK
  <1>1. CASE /\ files[Live].exists /\ FreshNames # {} /\ RenameTo(Live, NewName)
             /\ ing' = [ing EXCEPT ![p].pc = "list", ![p].held = <<NewName>>]
             /\ straddled' = straddled \cup
                  {handle[w].entry : w \in {v \in Writer : handle[v].path = Live}}
    <2>1. /\ ing'[p].pc = "list" /\ ing'[p].next = ing[p].next
          /\ \A q \in Ingesters : q # p => ing'[q] = ing[q]
      BY <1>0, <1>1 DEF IngestState
    <2>2. Live \in Path /\ At(p, "idle") /\ UNCHANGED <<call, ledger, rejected>>
      BY SystemTypes DEF Claim, LossInv
    <2> QED BY <1>1, <2>1, <2>2, RenameStep
  <1>2. CASE /\ ing' = [ing EXCEPT ![p].pc = "list"]
             /\ UNCHANGED <<diskVars, straddled>>
    <2>1. /\ ing'[p].pc = "list" /\ ing'[p].next = ing[p].next
          /\ \A q \in Ingesters : q # p => ing'[q] = ing[q]
      BY <1>0, <1>2 DEF IngestState
    <2>2. DrainOK(p)'
      BY <2>1 DEF LossInv, DrainsOK, DrainOK, Claim, At
    <2>3. UNCHANGED <<call, files, handle, straddled, ledger, rejected>>
      BY <1>2 DEF Claim
    <2> QED BY <2>1, <2>2, <2>3, QuietStep DEF Settled, DrainsOK
  <1> QED BY <1>1, <1>2 DEF Claim

LEMMA AdoptStep ==
  ASSUME LossInv, NEW p \in Ingesters, NEW n \in ClaimName, Adopt(p, n)
  PROVE  FilesOK' /\ HandlesOK' /\ NoLoss' /\ DrainsOK'
  <1> USE DEF hostVars, diskVars, sinkVars, histVars
  <1>0. ing \in [Ingesters -> IngestState] /\ n \in Path /\ n # Live
    BY NameAssumption DEF LossInv, TypeOK, Path
  <1>1. /\ ing'[p].pc = "adopt" /\ ing'[p].next = ing[p].next
        /\ \A q \in Ingesters : q # p => ing'[q] = ing[q]
    BY <1>0 DEF Adopt, At, IngestState
  <1>2. CASE Stale(p, n) /\ adoptions < MaxAdoptions
    BY <1>0, <1>1, <1>2, RenameStep DEF Adopt, Stale
  <1>3. CASE ~(Stale(p, n) /\ adoptions < MaxAdoptions)
    <2>1. UNCHANGED <<call, files, handle, straddled, ledger, rejected>>
      BY <1>3 DEF Adopt
    <2>2. DrainOK(p)'
      BY <1>1 DEF LossInv, DrainsOK, DrainOK, Adopt, At
    <2> QED BY <1>1, <2>1, <2>2, QuietStep DEF Settled, DrainsOK
  <1> QED BY <1>2, <1>3

(* rmSync: every completion in the claim was accounted for before.           *)
LEMMA RemoveStep ==
  ASSUME LossInv, NEW p \in Ingesters, RemoveClaim(p)
  PROVE  FilesOK' /\ HandlesOK' /\ NoLoss' /\ DrainsOK'
  <1> USE DEF hostVars, sinkVars, histVars
  <1> DEFINE n == ing[p].held[ing[p].next]
  <1>1. /\ FilesOK' /\ n \in ClaimName
        /\ \A q \in Path : Lines(q)' = IF q = n THEN {} ELSE Lines(q)
        /\ \A w \in Writer : /\ handle'[w].entry = handle[w].entry
                             /\ handle'[w].path = IF handle[w].path = n
                                                  THEN Gone ELSE handle[w].path
    BY RemoveDisk DEF LossInv
  <1>2. \A c \in Calls : Accounted(c) => Accounted(c)'
    BY DEF Accounted, Settled, RemoveClaim
  <1>3. n # Live /\ n # Shut
    BY <1>1, NameAssumption
  <1>4. HandlesOK'
    <2>1. \A w \in Writer : handle'[w].path \notin {Live, Shut} =>
                              handle'[w].entry \in straddled'
      BY <1>1, <1>3 DEF LossInv, HandlesOK, RemoveClaim
    <2>2. \A c \in Calls : /\ c \in Writer /\ call'[c] = call[c]
                           /\ IsOpen(c)' <=> IsOpen(c)
                           /\ handle'[c].entry = handle[c].entry
      BY <1>1, <1>3 DEF Writer, IsOpen, RemoveClaim, Gone, Shut
    <2> QED BY <2>1, <2>2 DEF LossInv, HandlesOK
  <1>5. NoLoss'
    <2>1. \A c \in Calls : Post(c) \in Lines(n) => Accounted(c)
      BY SystemTypes DEF LossInv, DrainsOK, DrainOK, RemoveClaim, At
    <2>2. \A c \in Calls : OnDisk(Post(c)) => OnDisk(Post(c))' \/ Accounted(c)'
      BY <1>1, <1>2, <2>1 DEF OnDisk
    <2> QED BY <1>2, <2>2, LossFrame DEF LossInv, Journalled, RemoveClaim
  <1>6. DrainsOK'
    <2>1. \A q \in Ingesters : Held(q) \subseteq Path
      BY SystemTypes DEF Held, LossInv, Path
    <2>2. ASSUME NEW q \in Ingesters, q # p PROVE DrainOK(q)'
      <3>1. ing'[q] = ing[q]
        BY <2>2 DEF RemoveClaim, LossInv, TypeOK
      <3> QED BY <1>1, <1>2, <2>1, <3>1, DrainFrame
    <2>3. DrainOK(p)'
      <3>1. /\ ing'[p].held = ing[p].held
            /\ ing'[p].pc \in {"remove", "carry"}
        BY DEF RemoveClaim, LossInv, TypeOK, IngestState, At
      <3>2. \A k \in 1 .. Len(ing[p].held) : ing[p].held[k] \in Path
        BY <2>1 DEF Held
      <3>3. \A k \in 1 .. Len(ing[p].held) : \A c \in Calls :
              Post(c) \in Lines(ing[p].held[k]) => Accounted(c)
        BY DEF LossInv, DrainsOK, DrainOK, RemoveClaim, At
      <3>4. \A k \in 1 .. Len(ing[p].held) : \A q \in Path : \A c \in Calls :
              q = ing[p].held[k] /\ Post(c) \in Lines(q)' => Accounted(c)'
        BY <1>1, <1>2, <3>3
      <3> QED BY <3>1, <3>2, <3>4 DEF DrainOK
    <2> QED BY <2>2, <2>3 DEF DrainsOK
  <1> QED BY <1>1, <1>4, <1>5, <1>6

(* Local steps: what the process knows of its claims changes, the disk does  *)
(* not.                                                                      *)
LEMMA ListStep ==
  ASSUME LossInv, NEW p \in Ingesters,
         ListClaims(p) \/ NothingToDrain(p) \/ ReadTurns(p) \/ SaveTurns(p)
  PROVE  FilesOK' /\ HandlesOK' /\ NoLoss' /\ DrainsOK'
  <1> USE DEF hostVars, diskVars, sinkVars, histVars
  <1>0. ing \in [Ingesters -> IngestState] /\ ing[p].next \in Nat
    BY DEF LossInv, TypeOK, IngestState, Position
  <1>1. UNCHANGED <<call, files, handle, straddled, ledger, rejected>>
    BY DEF ListClaims, NothingToDrain, ReadTurns, SaveTurns
  <1>2. \A q \in Ingesters : q # p => ing'[q] = ing[q]
    BY <1>0 DEF ListClaims, NothingToDrain, ReadTurns, SaveTurns
  <1>3. CASE ListClaims(p)
    <2>1. ing'[p].pc = "adopt" /\ ing'[p].next = ing[p].next
      BY <1>0, <1>3 DEF ListClaims, IngestState
    <2>2. DrainOK(p)'
      BY <1>3, <2>1 DEF ListClaims, LossInv, DrainsOK, DrainOK, At
    <2> QED BY <1>1, <1>2, <2>2, QuietStep DEF Settled, DrainsOK
  <1>4. CASE NothingToDrain(p) \/ SaveTurns(p)
    <2>1. ing'[p] = Idle
      BY <1>0, <1>4 DEF NothingToDrain, SaveTurns
    <2>2. DrainOK(p)'
      BY <2>1 DEF DrainOK, Idle
    <2> QED BY <1>1, <1>2, <2>2, QuietStep DEF Settled, DrainsOK
  <1>5. CASE ReadTurns(p)
    <2>1. /\ ing'[p].pc = "drain" /\ ing'[p].next = ing[p].next
          /\ ing'[p].held = ing[p].held
      BY <1>0, <1>5 DEF ReadTurns, IngestState
    <2>2. ing[p].next = 1
      BY <1>5 DEF ReadTurns, LossInv, DrainsOK, DrainOK, At
    <2>3. DrainOK(p)'
      BY <2>1, <2>2 DEF DrainOK
    <2> QED BY <1>1, <1>2, <2>3, QuietStep DEF Settled, DrainsOK
  <1> QED BY <1>3, <1>4, <1>5

LEMMA ReadStep ==
  ASSUME LossInv, NEW p \in Ingesters, ReadClaim(p)
  PROVE  FilesOK' /\ HandlesOK' /\ NoLoss' /\ DrainsOK'
  <1> USE DEF hostVars, diskVars, sinkVars, histVars
  <1> DEFINE n == ing[p].held[ing[p].next]
  <1>0. ing \in [Ingesters -> IngestState] /\ ing[p].next \in Nat \ {0}
        /\ Len(ing[p].held) \in Nat
    BY SystemTypes DEF LossInv, TypeOK
  <1>1. UNCHANGED <<call, files, handle, straddled, ledger, rejected>>
    BY DEF ReadClaim
  <1>2. \A q \in Ingesters : q # p => ing'[q] = ing[q]
    BY <1>0 DEF ReadClaim
  <1>3. /\ ing'[p].pc = "drain" /\ ing'[p].held = ing[p].held
        /\ ing'[p].next = ing[p].next + 1 /\ ing'[p].lines = files[n].lines
        /\ ing'[p].rejects = ing[p].rejects
    BY <1>0 DEF ReadClaim, IngestState, At
  <1>4. Remaining(p)' = Lines(n)
    BY <1>3 DEF Remaining, Lines
  <1>5. Remaining(p) = {}
    BY DEF ReadClaim, Remaining
  <1>6. DrainOK(p)'
    <2> SUFFICES ASSUME NEW k \in 1 .. Len(ing[p].held), NEW c \in Calls,
                        k < ing[p].next + 1, Post(c) \in Lines(ing[p].held[k])
                 PROVE  \/ Accounted(c)
                        \/ c \in ing[p].rejects
                        \/ Post(c) \in Remaining(p)'
      BY <1>1, <1>3 DEF DrainOK, Accounted, Settled, Lines
    <2>1. CASE k < ing[p].next
      BY <1>5, <2>1 DEF ReadClaim, LossInv, DrainsOK, DrainOK, At
    <2>2. CASE k = ing[p].next
      BY <1>4, <2>2
    <2> QED BY <1>0, <2>1, <2>2
  <1> QED BY <1>1, <1>2, <1>6, QuietStep DEF Settled, DrainsOK

LEMMA RejectStep ==
  ASSUME LossInv, NEW p \in Ingesters, WriteRejected(p)
  PROVE  FilesOK' /\ HandlesOK' /\ NoLoss' /\ DrainsOK'
  <1> USE DEF hostVars, diskVars, sinkVars, histVars
  <1>0. ing \in [Ingesters -> IngestState] /\ ing[p].next \in Nat
        /\ Len(ing[p].held) \in Nat
    BY SystemTypes DEF LossInv, TypeOK
  <1>1. UNCHANGED <<call, files, handle, straddled, ledger>>
        /\ rejected' = rejected \cup ing[p].rejects
    BY DEF WriteRejected
  <1>2. \A q \in Ingesters : q # p => ing'[q] = ing[q]
    BY <1>0 DEF WriteRejected
  <1>3. ing'[p].pc = "remove" /\ ing'[p].held = ing[p].held
    BY <1>0 DEF WriteRejected, IngestState
  <1>4. Remaining(p) = {}
    BY DEF WriteRejected, Remaining
  <1>5. \A k \in 1 .. Len(ing[p].held) : \A c \in Calls :
          Post(c) \in Lines(ing[p].held[k]) => Accounted(c)'
    BY <1>0, <1>1, <1>4
       DEF WriteRejected, LossInv, DrainsOK, DrainOK, At, Accounted, Settled
  <1>6. DrainOK(p)'
    BY <1>1, <1>3, <1>5 DEF DrainOK, Lines
  <1> QED BY <1>1, <1>2, <1>6, QuietStep DEF Settled, DrainsOK

LEMMA TailElements ==
  ASSUME NEW S, NEW s \in Seq(S), s # <<>>, NEW x, x # Head(s),
         x \in {s[i] : i \in 1 .. Len(s)}
  PROVE  x \in {Tail(s)[i] : i \in 1 .. Len(Tail(s))}
  <1>1. PICK i \in 1 .. Len(s) : x = s[i]
    OBVIOUS
  <1>2. i # 1 /\ i - 1 \in 1 .. Len(Tail(s)) /\ Tail(s)[i - 1] = s[i]
    BY <1>1
  <1> QED BY <1>1, <1>2

(* What draining a line leaves in the drain: the rest of the claim's lines,  *)
(* every reject it had, and every unfinished start but those of the line's   *)
(* caller.                                                                   *)
LEMMA LineEffect ==
  ASSUME ing \in [Ingesters -> IngestState], NEW p \in Ingesters, NEW e,
         DrainStart(p, e) \/ DrainMarker(p, e) \/ DrainPost(p, e) \/ DrainReject(p, e)
  PROVE  /\ \A q \in Ingesters : q # p => ing'[q] = ing[q]
         /\ ing'[p].pc = ing[p].pc
         /\ ing'[p].held = ing[p].held
         /\ ing'[p].next = ing[p].next
         /\ ing'[p].lines = Tail(ing[p].lines)
         /\ ing[p].rejects \subseteq ing'[p].rejects
         /\ \A x \in ing[p].unfinished : x.who # e.who => x \in ing'[p].unfinished
         /\ e.kind = "start" => e \in ing'[p].unfinished
         /\ e.kind = "marker" => ing'[p].unfinished = ing[p].unfinished
  <1> DEFINE W == WithoutStart(p, e.who)
  <1>0. /\ W \subseteq ing[p].unfinished
        /\ \A x \in ing[p].unfinished : x.who # e.who => x \in W
    BY DEF WithoutStart
  <1> HIDE DEF W
  <1>1. CASE DrainStart(p, e)
    <2>1. ing' = [ing EXCEPT ![p].lines = Tail(@), ![p].unfinished = W \cup {e}]
      BY <1>1 DEF DrainStart, W
    <2>2. e.kind = "start"
      BY <1>1 DEF DrainStart
    <2> QED BY <1>0, <2>1, <2>2 DEF IngestState
  <1>2. CASE DrainMarker(p, e)
    BY <1>2 DEF DrainMarker, IngestState
  <1>3. CASE DrainPost(p, e)
    <2>1. ing' = [ing EXCEPT ![p].lines = Tail(@), ![p].unfinished = W]
      BY <1>3 DEF DrainPost, W
    <2>2. e.kind = "post"
      BY <1>3 DEF DrainPost
    <2> QED BY <1>0, <2>1, <2>2 DEF IngestState
  <1>4. CASE DrainReject(p, e)
    <2>1. ing' = [ing EXCEPT ![p].lines = Tail(@), ![p].unfinished = W,
                             ![p].rejects = @ \cup {e.who}]
      BY <1>4 DEF DrainReject, W
    <2>2. e.kind = "post"
      BY <1>4 DEF DrainReject
    <2> QED BY <1>0, <2>1, <2>2 DEF IngestState
  <1> QED BY <1>1, <1>2, <1>3, <1>4

LEMMA LineStep ==
  ASSUME LossInv, NEW p \in Ingesters, DrainLine(p)
  PROVE  FilesOK' /\ HandlesOK' /\ NoLoss' /\ DrainsOK'
  <1> USE DEF hostVars, diskVars, sinkVars, histVars
  <1> DEFINE e == Head(ing[p].lines)
  <1>0. ing \in [Ingesters -> IngestState] /\ ing[p].lines \in Seq(Entry)
        /\ ing[p].lines # <<>>
    BY SystemTypes DEF LossInv, TypeOK, DrainLine
  <1>1. UNCHANGED <<call, files, handle, straddled, rejected>>
    BY DEF DrainLine
  <1>2. \A q \in Ingesters : q # p => ing'[q] = ing[q]
    BY <1>0, LineEffect DEF DrainLine
  <1>3. /\ ing'[p].pc = "drain" /\ ing'[p].held = ing[p].held
        /\ ing'[p].next = ing[p].next /\ ing'[p].lines = Tail(ing[p].lines)
        /\ ing[p].rejects \subseteq ing'[p].rejects
    <2> HIDE DEF e
    <2> QED BY <1>0, LineEffect DEF DrainLine, At, e
  <1>4. \A c \in Calls : e = Post(c) => ledger'[c] # <<>> \/ c \in ing'[p].rejects
    <2> SUFFICES ASSUME NEW c \in Calls, e = Post(c)
                 PROVE  ledger'[c] # <<>> \/ c \in ing'[p].rejects
      OBVIOUS
    <2>1. e.kind = "post" /\ e.who = c
      BY DEF Post
    <2>2. CASE DrainPost(p, e)
      <3>1. ledger'[c] = Append(ledger[c], ing[p].turns[Owner[c]].task)
        BY <2>1, <2>2 DEF DrainPost, LossInv, TypeOK
      <3>2. ing[p].turns[Owner[c]].task \in Task /\ ledger[c] \in Seq(Task)
        BY <1>0, OwnerAssumption DEF IngestState, OpenTurn, LossInv, TypeOK
      <3> QED BY <3>1, <3>2
    <2>3. CASE DrainReject(p, e)
      BY <1>0, <2>1, <2>3 DEF DrainReject, IngestState
    <2> QED BY <2>1, <2>2, <2>3 DEF DrainLine, DrainStart, DrainMarker
  <1>5. \A c \in Calls : Settled(c) => Settled(c)'
    <2>1. CASE UNCHANGED ledger
      BY <1>1, <2>1 DEF Settled
    <2>2. CASE DrainPost(p, e)
      <3>1. \A c \in Calls : \/ ledger'[c] = ledger[c]
                             \/ c = e.who
        BY <2>2 DEF DrainPost, LossInv, TypeOK
      <3>2. \A c \in Calls : c = e.who =>
              ledger'[c] = Append(ledger[c], ing[p].turns[Owner[c]].task)
        BY <2>2 DEF DrainPost, LossInv, TypeOK
      <3>3. \A c \in Calls : ing[p].turns[Owner[c]].task \in Task
                            /\ ledger[c] \in Seq(Task)
        BY <1>0, OwnerAssumption DEF IngestState, OpenTurn, LossInv, TypeOK
      <3>4. \A c \in Calls : c = e.who => ledger'[c] # <<>>
        BY <3>2, <3>3
      <3> QED BY <1>1, <3>1, <3>4 DEF Settled
    <2> QED BY <2>1, <2>2 DEF DrainLine, DrainStart, DrainMarker, DrainReject
  <1>6. DrainOK(p)'
    <2> SUFFICES ASSUME NEW k \in 1 .. Len(ing[p].held), NEW c \in Calls,
                        k < ing[p].next, Post(c) \in Lines(ing[p].held[k])
                 PROVE  \/ Accounted(c)'
                        \/ c \in ing'[p].rejects
                        \/ Post(c) \in Remaining(p)'
      BY <1>1, <1>3 DEF DrainOK, Lines
    <2>1. \/ Accounted(c) \/ c \in ing[p].rejects \/ Post(c) \in Remaining(p)
      BY DEF DrainLine, LossInv, DrainsOK, DrainOK, At
    <2>2. CASE Accounted(c)
      BY <1>1, <1>5, <2>2 DEF Accounted
    <2>3. CASE c \in ing[p].rejects
      BY <1>3, <2>3
    <2>4. CASE Post(c) \in Remaining(p) /\ e # Post(c)
      BY <1>0, <1>3, <2>4, TailElements DEF Remaining
    <2>5. CASE e = Post(c)
      BY <1>4, <2>5 DEF Accounted, Settled
    <2> QED BY <2>1, <2>2, <2>3, <2>4, <2>5
  <1> QED BY <1>1, <1>2, <1>5, <1>6, QuietStep DEF DrainsOK

LEMMA CrashStep ==
  ASSUME LossInv, NEW p \in Ingesters, Crash(p)
  PROVE  FilesOK' /\ HandlesOK' /\ NoLoss' /\ DrainsOK'
  <1> USE DEF hostVars, sinkVars
  <1>1. UNCHANGED <<call, files, straddled, ledger, rejected>>
    BY DEF Crash
  <1>2. \A w \in Writer : handle'[w] = IF w = p THEN Closed ELSE handle[w]
    BY DEF Crash, LossInv, TypeOK
  <1>3. FilesOK'
    BY <1>1, <1>2, SystemTypes DEF LossInv, FilesOK, Closed
  <1>4. HandlesOK'
    <2>1. \A c \in Calls : c # p /\ c \in Writer
      BY WriterAssumption DEF Writer
    <2> QED BY <1>1, <1>2, <2>1 DEF LossInv, HandlesOK, IsOpen, Closed
  <1>5. \A c \in Calls : Accounted(c) => Accounted(c)'
    BY <1>1 DEF Accounted, Settled
  <1>6. \A q : Lines(q)' = Lines(q)
    BY <1>1 DEF Lines
  <1>7. NoLoss'
    BY <1>1, <1>5, <1>6, LossFrame DEF LossInv, Journalled, OnDisk
  <1>8. \A q \in Ingesters : q # p => ing'[q] = ing[q]
    BY DEF Crash, LossInv, TypeOK
  <1>9. DrainOK(p)'
    <2>1. ing'[p] = Idle
      BY DEF Crash, LossInv, TypeOK
    <2> QED BY <2>1 DEF DrainOK, Idle
  <1> QED BY <1>3, <1>4, <1>5, <1>6, <1>7, <1>8, <1>9, DrainFrame DEF DrainsOK

LEMMA CarryStep ==
  ASSUME LossInv, NEW p \in Ingesters, CarryOpen(p)
  PROVE  FilesOK' /\ HandlesOK' /\ NoLoss' /\ DrainsOK'
  <1> USE DEF hostVars, sinkVars, histVars
  <1>1. PICK e \in ing[p].unfinished :
          Open(p, e) /\ ing' = [ing EXCEPT ![p].unfinished = @ \ {e}]
    BY DEF CarryOpen
  <1>2. p \in Writer /\ p \notin Calls
    BY WriterAssumption DEF Writer
  <1>3. UNCHANGED <<call, ledger, rejected, straddled>>
    BY DEF CarryOpen
  <1>4. /\ FilesOK' /\ HandlesOK' /\ NoLoss'
        /\ \A q \in Ingesters : ing'[q] = ing[q] => DrainOK(q)'
    BY <1>1, <1>2, <1>3, OpenStep DEF Journalled
  <1>5. /\ ing'[p].pc = "carry"
        /\ \A q \in Ingesters : q # p => ing'[q] = ing[q]
    BY <1>1 DEF CarryOpen, At, LossInv, TypeOK, IngestState
  <1>6. DrainOK(p)'
    BY <1>5 DEF DrainOK
  <1> QED BY <1>4, <1>5, <1>6 DEF DrainsOK

LEMMA HostStep ==
  ASSUME LossInv,
         \/ \E s \in Sessions : Prompt(s) \/ WriteMarker(s)
         \/ \E c \in Calls : StartCall(c) \/ FinishCall(c) \/ WriteCall(c)
  PROVE  FilesOK' /\ HandlesOK' /\ NoLoss' /\ DrainsOK'
  <1> USE DEF hostVars, sinkVars, histVars
  <1>0. call \in [Calls -> {"new", "starting", "running", "finishing", "done"}]
    BY DEF LossInv, TypeOK
  <1>1. ASSUME NEW s \in Sessions, Prompt(s)
        PROVE  FilesOK' /\ HandlesOK' /\ NoLoss' /\ DrainsOK'
    <2>1. s \in Writer /\ s \notin Calls
      BY WriterAssumption DEF Writer
    <2>2. Open(s, Marker(s, turnNo[s] + 1, now))
          /\ UNCHANGED <<call, ledger, rejected, ing, straddled>>
      BY <1>1 DEF Prompt
    <2> QED BY <2>1, <2>2, OpenStep DEF Journalled, DrainsOK
  <1>2. ASSUME NEW s \in Sessions, WriteMarker(s)
        PROVE  FilesOK' /\ HandlesOK' /\ NoLoss' /\ DrainsOK'
    <2>1. s \in Writer /\ s \notin Calls
      BY WriterAssumption DEF Writer
    <2> QED BY <1>2, <2>1, WriteStep DEF WriteMarker
  <1>3. ASSUME NEW c \in Calls, StartCall(c)
        PROVE  FilesOK' /\ HandlesOK' /\ NoLoss' /\ DrainsOK'
    <2>1. Open(c, Start(c, now)) /\ c \in Writer
          /\ UNCHANGED <<ledger, rejected, ing, straddled>>
      BY <1>3 DEF StartCall, Writer
    <2>2. \A d \in Calls : call'[d] = IF d = c THEN "starting" ELSE call[d]
      BY <1>0, <1>3 DEF StartCall
    <2>3. \A d \in Calls : Journalled(d)' => Journalled(d)
      BY <2>2 DEF Journalled
    <2>4. \A d \in Calls : d # c => call'[d] = call[d]
      BY <2>2
    <2>5. \A d \in Calls : d = c =>
            /\ call'[d] \in {"starting", "finishing"}
            /\ call'[d] = "finishing" => Start(c, now) = Post(d)
      BY <2>2
    <2> QED BY <2>1, <2>3, <2>4, <2>5, OpenStep DEF DrainsOK
  <1>4. ASSUME NEW c \in Calls, FinishCall(c)
        PROVE  FilesOK' /\ HandlesOK' /\ NoLoss' /\ DrainsOK'
    <2>1. Open(c, Post(c)) /\ c \in Writer
          /\ UNCHANGED <<ledger, rejected, ing, straddled>>
      BY <1>4 DEF FinishCall, Writer
    <2>2. \A d \in Calls : call'[d] = IF d = c THEN "finishing" ELSE call[d]
      BY <1>0, <1>4 DEF FinishCall
    <2>3. \A d \in Calls : Journalled(d)' => Journalled(d)
      BY <2>2 DEF Journalled
    <2>4. \A d \in Calls : d # c => call'[d] = call[d]
      BY <2>2
    <2>5. \A d \in Calls : d = c =>
            /\ call'[d] \in {"starting", "finishing"}
            /\ call'[d] = "finishing" => Post(c) = Post(d)
      BY <2>2
    <2> QED BY <2>1, <2>3, <2>4, <2>5, OpenStep DEF DrainsOK
  <1>5. ASSUME NEW c \in Calls, WriteCall(c)
        PROVE  FilesOK' /\ HandlesOK' /\ NoLoss' /\ DrainsOK'
    <2>1. Write(c) /\ c \in Writer /\ ing' = ing
      BY <1>5 DEF WriteCall, Writer
    <2>2. \A d \in Calls :
            call'[d] = IF d # c THEN call[d]
                       ELSE IF call[d] = "starting" THEN "running" ELSE "done"
      BY <1>0, <1>5 DEF WriteCall
    <2> QED BY <2>1, <2>2, WriteStep
  <1> QED BY <1>1, <1>2, <1>3, <1>4, <1>5

LEMMA StillStep ==
  ASSUME LossInv, Tick \/ UNCHANGED vars
  PROVE  FilesOK' /\ HandlesOK' /\ NoLoss' /\ DrainsOK'
  <1>1. UNCHANGED <<call, files, handle, straddled, ledger, rejected, ing>>
    BY DEF Tick, vars, hostVars, diskVars, sinkVars, histVars
  <1> QED BY <1>1, QuietStep DEF Settled, DrainsOK

LEMMA InitLoss == Init => LossInv
  <1> SUFFICES ASSUME Init PROVE LossInv
    OBVIOUS
  <1>0. \A w \in Writer : handle[w].path = Shut
    BY DEF Init, Closed
  <1>1. FilesOK
    BY <1>0, SystemTypes, InitTypes DEF Init, FilesOK, NoFile
  <1>2. HandlesOK
    BY <1>0 DEF HandlesOK, IsOpen, Writer
  <1>3. DrainsOK /\ NoLoss
    BY DEF Init, DrainsOK, DrainOK, Idle, NoLoss, Journalled
  <1> QED BY <1>1, <1>2, <1>3, InitTypes DEF LossInv

LEMMA NextLoss == LossInv /\ [Next]_vars => LossInv'
  <1> SUFFICES ASSUME LossInv, [Next]_vars PROVE LossInv'
    OBVIOUS
  <1>1. TypeOK'
    BY NextTypes DEF LossInv
  <1>2. ASSUME NEW p \in Ingesters, Ingest(p)
        PROVE  FilesOK' /\ HandlesOK' /\ NoLoss' /\ DrainsOK'
    <2>1. CASE CarryWrite(p)
      <3>1. p \in Writer /\ p \notin Calls
        BY WriterAssumption DEF Writer
      <3> QED BY <2>1, <3>1, WriteStep DEF CarryWrite
    <2> QED BY <1>2, <2>1, ClaimStep, ListStep, AdoptStep, ReadStep, LineStep,
               RejectStep, RemoveStep, CarryStep DEF Ingest
  <1>3. FilesOK' /\ HandlesOK' /\ NoLoss' /\ DrainsOK'
    BY <1>2, HostStep, CrashStep, StillStep DEF Next
  <1> QED BY <1>1, <1>3 DEF LossInv

(* No completion is lost, for any number of sessions, calls, concurrent      *)
(* drains and crashes: every completion whose hook has returned is in the    *)
(* journal, in a claim, in the ledger or set aside, unless its append was    *)
(* open while a drain renamed the journal.                                   *)
THEOREM NothingLost == Spec => []NoLoss
  <1>1. LossInv => NoLoss
    BY DEF LossInv
  <1> QED BY <1>1, InitLoss, NextLoss, PTL DEF Spec

-------------------------------------------------------------------------------
(* What the drains do between them.                                          *)

(* What every step of an ingest process leaves alone.                        *)
LEMMA Others ==
  ASSUME TypeOK, NEW p \in Ingesters, Ingest(p) \/ Crash(p)
  PROVE  /\ \A q \in Ingesters : q # p => ing'[q] = ing[q]
         /\ UNCHANGED <<call, startedAt, now>>
  <1> USE DEF hostVars, diskVars, sinkVars, histVars
  <1>0. DOMAIN ing = Ingesters
    BY DEF TypeOK
  <1>1. CASE Claim(p)
    BY <1>0, <1>1 DEF Claim
  <1>2. CASE \E n \in ClaimName : Adopt(p, n)
    BY <1>0, <1>2 DEF Adopt
  <1>3. CASE ListClaims(p) \/ NothingToDrain(p) \/ ReadTurns(p) \/ SaveTurns(p)
    BY <1>0, <1>3 DEF ListClaims, NothingToDrain, ReadTurns, SaveTurns
  <1>4. CASE ReadClaim(p) \/ WriteRejected(p) \/ RemoveClaim(p)
    BY <1>0, <1>4 DEF ReadClaim, WriteRejected, RemoveClaim
  <1>5. CASE DrainLine(p)
    BY <1>0, <1>5 DEF DrainLine, DrainStart, DrainMarker, DrainPost, DrainReject
  <1>6. CASE CarryOpen(p) \/ CarryWrite(p)
    BY <1>0, <1>6 DEF CarryOpen, CarryWrite, Write
  <1>7. CASE Crash(p)
    BY <1>0, <1>7 DEF Crash
  <1> QED BY <1>1, <1>2, <1>3, <1>4, <1>5, <1>6, <1>7 DEF Ingest

LEMMA TailWithin ==
  ASSUME NEW S, NEW s \in Seq(S), s # <<>>
  PROVE  {Tail(s)[i] : i \in 1 .. Len(Tail(s))} \subseteq {s[i] : i \in 1 .. Len(s)}
  <1>1. Len(Tail(s)) = Len(s) - 1 /\ \A i \in 1 .. Len(Tail(s)) : Tail(s)[i] = s[i + 1]
    OBVIOUS
  <1>2. \A i \in 1 .. Len(Tail(s)) : i + 1 \in 1 .. Len(s)
    BY <1>1
  <1> QED BY <1>1, <1>2

(* What a drain has in its hands after a step that reads no file.            *)
LEMMA InHands ==
  ASSUME TypeOK, NEW p \in Ingesters, Ingest(p) \/ Crash(p), ~ReadClaim(p)
  PROVE  /\ Remaining(p)' \subseteq Remaining(p)
         /\ \A e \in ing'[p].unfinished :
               e \in ing[p].unfinished \/ (e.kind = "start" /\ e \in Remaining(p))
         /\ \A c \in ing'[p].rejects :
               c \in ing[p].rejects \/ \E e \in Remaining(p) : IsPost(e, c)
  <1> USE DEF hostVars, diskVars, sinkVars, histVars
  <1> DEFINE C == /\ Remaining(p)' \subseteq Remaining(p)
                  /\ \A e \in ing'[p].unfinished :
                        e \in ing[p].unfinished \/ (e.kind = "start" /\ e \in Remaining(p))
                  /\ \A c \in ing'[p].rejects :
                        c \in ing[p].rejects \/ \E e \in Remaining(p) : IsPost(e, c)
  <1>0. ing \in [Ingesters -> IngestState] /\ ing[p] \in IngestState
    BY DEF TypeOK
  <1>1. ASSUME ing'[p].lines = ing[p].lines, ing'[p].unfinished \subseteq ing[p].unfinished,
               ing'[p].rejects \subseteq ing[p].rejects
        PROVE  C
    BY <1>1 DEF Remaining
  <1>2. CASE ing'[p] = Idle
    BY <1>2 DEF Idle, Remaining
  <1>3. CASE Claim(p)
    <2>1. /\ ing'[p].lines = ing[p].lines /\ ing'[p].unfinished = ing[p].unfinished
          /\ ing'[p].rejects = ing[p].rejects
      BY <1>0, <1>3 DEF Claim, IngestState
    <2> QED BY <1>1, <2>1
  <1>4. CASE \E n \in ClaimName : Adopt(p, n)
    <2>1. /\ ing'[p].lines = ing[p].lines /\ ing'[p].unfinished = ing[p].unfinished
          /\ ing'[p].rejects = ing[p].rejects
      BY <1>0, <1>4 DEF Adopt, IngestState
    <2> QED BY <1>1, <2>1
  <1>5. CASE ListClaims(p)
    <2>1. /\ ing'[p].lines = ing[p].lines /\ ing'[p].unfinished = ing[p].unfinished
          /\ ing'[p].rejects = ing[p].rejects
      BY <1>0, <1>5 DEF ListClaims, IngestState
    <2> QED BY <1>1, <2>1
  <1>6. CASE NothingToDrain(p) \/ SaveTurns(p) \/ Crash(p)
    BY <1>0, <1>2, <1>6 DEF NothingToDrain, SaveTurns, Crash
  <1>7. CASE ReadTurns(p)
    BY <1>0, <1>1, <1>7 DEF ReadTurns, IngestState
  <1>8. CASE WriteRejected(p)
    BY <1>0, <1>1, <1>8 DEF WriteRejected, IngestState
  <1>9. CASE RemoveClaim(p)
    BY <1>0, <1>1, <1>9 DEF RemoveClaim, IngestState
  <1>10. CASE CarryOpen(p)
    BY <1>0, <1>1, <1>10 DEF CarryOpen, IngestState
  <1>11. CASE CarryWrite(p)
    BY <1>1, <1>11 DEF CarryWrite
  <1>12. CASE DrainLine(p)
    <2> DEFINE e == Head(ing[p].lines)
    <2>1. ing[p].lines \in Seq(Entry) /\ ing[p].lines # <<>>
      BY <1>12, SystemTypes DEF DrainLine
    <2>2. e \in Remaining(p)
      BY <2>1 DEF Remaining
    <2>3. ing'[p].lines = Tail(ing[p].lines)
      BY <1>0, <1>12, LineEffect DEF DrainLine
    <2>4. Remaining(p)' \subseteq Remaining(p)
      BY <2>1, <2>3, TailWithin DEF Remaining
    <2>5. CASE DrainStart(p, e)
      BY <1>0, <2>2, <2>4, <2>5 DEF DrainStart, IngestState, WithoutStart
    <2>6. CASE DrainMarker(p, e)
      BY <1>0, <2>4, <2>6 DEF DrainMarker, IngestState
    <2>7. CASE DrainPost(p, e)
      BY <1>0, <2>4, <2>7 DEF DrainPost, IngestState, WithoutStart
    <2>8. CASE DrainReject(p, e)
      BY <1>0, <2>2, <2>4, <2>8 DEF DrainReject, IngestState, WithoutStart, IsPost
    <2> QED BY <1>12, <2>5, <2>6, <2>7, <2>8 DEF DrainLine
  <1> QED BY <1>3, <1>4, <1>5, <1>6, <1>7, <1>8, <1>9, <1>10, <1>11, <1>12 DEF Ingest

(* Where a line on disk comes from: it was there, or the hook or the drain   *)
(* that had it open has written it.                                          *)
LEMMA DiskStep ==
  ASSUME LossInv, [Next]_vars
  PROVE  \A q \in Path : \A e \in Lines(q)' :
            \/ \E r \in Path : e \in Lines(r)
            \/ \E s \in Sessions : WriteMarker(s) /\ e = handle[s].entry
            \/ \E c \in Calls : WriteCall(c) /\ e = handle[c].entry
            \/ \E p \in Ingesters : CarryWrite(p) /\ e = handle[p].entry
  <1> USE DEF hostVars, diskVars, sinkVars, histVars
  <1> DEFINE Within == \A q \in Path : \A e \in Lines(q)' : \E r \in Path : e \in Lines(r)
  <1>0. TypeOK /\ FilesOK
    BY DEF LossInv
  <1>1. ASSUME \A q \in Path : Lines(q)' = Lines(q)
        PROVE  Within
    BY <1>1
  <1>2. ASSUME NEW w \in Writer, NEW e, Open(w, e)
        PROVE  Within
    BY <1>0, <1>1, <1>2, OpenDisk
  <1>3. ASSUME NEW from \in Path, FreshNames # {}, files[from].exists, RenameTo(from, NewName)
        PROVE  Within
    <2>1. NewName \in FreshNames
      BY <1>3, NewNameType
    <2> QED BY <1>0, <1>3, <2>1, RenameDisk
  <1>4. ASSUME UNCHANGED files
        PROVE  Within
    BY <1>1, <1>4 DEF Lines
  <1>5. ASSUME NEW s \in Sessions, Prompt(s) PROVE Within
    BY <1>2, <1>5 DEF Prompt, Writer
  <1>6. ASSUME NEW c \in Calls, StartCall(c) \/ FinishCall(c) PROVE Within
    BY <1>2, <1>6 DEF StartCall, FinishCall, Writer
  <1>7. ASSUME NEW p \in Ingesters, Ingest(p), ~CarryWrite(p) PROVE Within
    <2>1. CASE Claim(p)
      BY <1>3, <1>4, <2>1, SystemTypes, <1>0 DEF Claim
    <2>2. CASE \E n \in ClaimName : Adopt(p, n)
      BY <1>3, <1>4, <2>2 DEF Adopt, Stale, Path
    <2>3. CASE ListClaims(p) \/ NothingToDrain(p) \/ ReadTurns(p) \/ ReadClaim(p)
      BY <1>4, <2>3 DEF ListClaims, NothingToDrain, ReadTurns, ReadClaim
    <2>4. CASE DrainLine(p) \/ WriteRejected(p) \/ SaveTurns(p)
      BY <1>4, <2>4 DEF DrainLine, WriteRejected, SaveTurns
    <2>5. CASE RemoveClaim(p)
      BY <1>0, <2>5, RemoveDisk
    <2>6. CASE CarryOpen(p)
      BY <1>2, <2>6 DEF CarryOpen, Writer
    <2> QED BY <1>7, <2>1, <2>2, <2>3, <2>4, <2>5, <2>6 DEF Ingest
  <1>8. ASSUME NEW w \in Writer, Write(w)
        PROVE  \A q \in Path : \A e \in Lines(q)' :
                  e = handle[w].entry \/ \E r \in Path : e \in Lines(r)
    BY <1>0, <1>8, WriteDisk
  <1>9. CASE \E s \in Sessions : WriteMarker(s)
    BY <1>8, <1>9 DEF WriteMarker, Writer
  <1>10. CASE \E c \in Calls : WriteCall(c)
    BY <1>8, <1>10 DEF WriteCall, Writer
  <1>11. CASE \E p \in Ingesters : CarryWrite(p)
    BY <1>8, <1>11 DEF CarryWrite, Writer
  <1>12. CASE (\E p \in Ingesters : Crash(p)) \/ Tick \/ UNCHANGED vars
    BY <1>4, <1>12 DEF Crash, Tick, vars
  <1> QED BY <1>5, <1>6, <1>7, <1>9, <1>10, <1>11, <1>12 DEF Next

(* Where the line a writer has open comes from, and who closes it.           *)
ClosedBy(w) == /\ w \in Calls => WriteCall(w)
               /\ w \in Ingesters => CarryWrite(w) \/ Crash(w)

LEMMA HandleStep ==
  ASSUME TypeOK, [Next]_vars
  PROVE  \A w \in Writer :
            \/ handle'[w].entry = handle[w].entry
            \/ handle'[w] = Closed /\ ClosedBy(w)
            \/ w \in Sessions /\ handle'[w].entry.kind = "marker"
            \/ w \in Calls /\ StartCall(w) /\ handle'[w].entry = Start(w, now)
            \/ w \in Calls /\ FinishCall(w) /\ handle'[w].entry = Post(w)
            \/ w \in Ingesters /\ CarryOpen(w) /\ handle'[w].entry \in ing[w].unfinished
  <1> USE DEF hostVars, diskVars, sinkVars, histVars
  <1> DEFINE Kept(w) == handle'[w].entry = handle[w].entry
  <1>0. handle \in [Writer -> Handle \cup {Closed}]
    BY DEF TypeOK
  <1>1. ASSUME NEW w \in Writer, NEW e, Open(w, e)
        PROVE  \A v \in Writer : IF v = w THEN handle'[v].entry = e ELSE handle'[v] = handle[v]
    BY <1>0, <1>1 DEF Open
  <1>2. ASSUME NEW w \in Writer, Write(w)
        PROVE  \A v \in Writer : IF v = w THEN handle'[v] = Closed ELSE handle'[v] = handle[v]
    BY <1>0, <1>2 DEF Write
  <1>3. ASSUME NEW S, handle' = [w \in Writer |-> IF handle[w].path \in S
                                     THEN [handle[w] EXCEPT !.path = handle'[w].path]
                                     ELSE handle[w]]
        PROVE  \A w \in Writer : Kept(w)
    BY <1>0, <1>3 DEF Handle, Closed
  <1>4. ASSUME NEW from, NEW to, RenameTo(from, to) PROVE \A w \in Writer : Kept(w)
    BY <1>0, <1>4 DEF RenameTo, Handle, Closed
  <1>5. ASSUME UNCHANGED handle PROVE \A w \in Writer : Kept(w)
    BY <1>5
  <1>6. CASE \E s \in Sessions : Prompt(s)
    BY <1>1, <1>6 DEF Prompt, Writer, Marker
  <1>7. CASE \E c \in Calls : StartCall(c)
    <2>1. PICK c \in Calls : StartCall(c)
      BY <1>7
    <2>2. \A w \in Writer : IF w = c THEN handle'[w].entry = Start(c, now) ELSE Kept(w)
      BY <1>1, <2>1 DEF StartCall, Writer
    <2> QED BY <2>1, <2>2
  <1>8. CASE \E c \in Calls : FinishCall(c)
    <2>1. PICK c \in Calls : FinishCall(c)
      BY <1>8
    <2>2. \A w \in Writer : IF w = c THEN handle'[w].entry = Post(c) ELSE Kept(w)
      BY <1>1, <2>1 DEF FinishCall, Writer
    <2> QED BY <2>1, <2>2
  <1>9. CASE (\E s \in Sessions : WriteMarker(s)) \/ (\E c \in Calls : WriteCall(c))
    <2>1. CASE \E s \in Sessions : WriteMarker(s)
      BY <1>2, <2>1, WriterAssumption DEF WriteMarker, Writer, ClosedBy
    <2>2. ASSUME NEW c \in Calls, WriteCall(c)
          PROVE  \A w \in Writer : Kept(w) \/ (handle'[w] = Closed /\ ClosedBy(w))
      <3>1. \A w \in Writer : IF w = c THEN handle'[w] = Closed ELSE handle'[w] = handle[w]
        BY <1>2, <2>2 DEF WriteCall, Writer
      <3>2. ClosedBy(c)
        BY <2>2, WriterAssumption DEF ClosedBy
      <3> QED BY <3>1, <3>2
    <2> QED BY <1>9, <2>1, <2>2
  <1>10. ASSUME NEW p \in Ingesters, Ingest(p)
         PROVE  \A w \in Writer :
                   \/ Kept(w)
                   \/ handle'[w] = Closed /\ ClosedBy(w)
                   \/ w = p /\ CarryOpen(w) /\ handle'[w].entry \in ing[w].unfinished
    <2>1. CASE Claim(p)
      BY <1>4, <1>5, <2>1 DEF Claim
    <2>2. CASE \E n \in ClaimName : Adopt(p, n)
      BY <1>4, <1>5, <2>2 DEF Adopt
    <2>3. CASE ListClaims(p) \/ NothingToDrain(p) \/ ReadTurns(p) \/ ReadClaim(p)
      BY <1>5, <2>3 DEF ListClaims, NothingToDrain, ReadTurns, ReadClaim
    <2>4. CASE DrainLine(p) \/ WriteRejected(p) \/ SaveTurns(p)
      BY <1>5, <2>4 DEF DrainLine, WriteRejected, SaveTurns
    <2>5. CASE RemoveClaim(p)
      BY <1>0, <2>5 DEF RemoveClaim, Handle, Closed
    <2>6. CASE CarryOpen(p)
      <3>1. PICK x \in ing[p].unfinished : Open(p, x)
        BY <2>6 DEF CarryOpen
      <3>2. \A w \in Writer : w # p => Kept(w)
        BY <1>1, <3>1 DEF Writer
      <3>3. handle'[p].entry = x
        BY <1>1, <3>1 DEF Writer
      <3> QED BY <2>6, <3>1, <3>2, <3>3
    <2>7. CASE CarryWrite(p)
      <3>1. \A w \in Writer : IF w = p THEN handle'[w] = Closed ELSE handle'[w] = handle[w]
        BY <1>2, <2>7 DEF CarryWrite, Writer
      <3>2. ClosedBy(p)
        BY <2>7, WriterAssumption DEF ClosedBy
      <3> QED BY <3>1, <3>2
    <2> QED BY <1>10, <2>1, <2>2, <2>3, <2>4, <2>5, <2>6, <2>7 DEF Ingest
  <1>11. ASSUME NEW p \in Ingesters, Crash(p)
         PROVE  \A w \in Writer : Kept(w) \/ (handle'[w] = Closed /\ ClosedBy(w))
    <2>1. \A w \in Writer : IF w = p THEN handle'[w] = Closed ELSE handle'[w] = handle[w]
      BY <1>0, <1>11 DEF Crash
    <2>2. ClosedBy(p)
      BY <1>11, WriterAssumption DEF ClosedBy
    <2> QED BY <2>1, <2>2
  <1>12. CASE Tick \/ UNCHANGED vars
    BY <1>5, <1>12 DEF Tick, vars
  <1> QED BY <1>6, <1>7, <1>8, <1>9, <1>10, <1>11, <1>12 DEF Next

(* How a call's life goes on, and which step takes it there.                 *)
LEMMA CallStep ==
  ASSUME TypeOK, [Next]_vars
  PROVE  \A c \in Calls :
            \/ call'[c] = call[c] /\ startedAt'[c] = startedAt[c]
            \/ /\ StartCall(c) /\ call[c] = "new" /\ call'[c] = "starting"
               /\ startedAt'[c] = now
            \/ /\ FinishCall(c) /\ call[c] = "running" /\ call'[c] = "finishing"
               /\ startedAt'[c] = startedAt[c]
            \/ /\ WriteCall(c) /\ call'[c] = (IF call[c] = "starting" THEN "running" ELSE "done")
               /\ startedAt'[c] = startedAt[c]
  <1> USE DEF hostVars, diskVars, sinkVars, histVars
  <1>0. DOMAIN call = Calls /\ DOMAIN startedAt = Calls
    BY DEF TypeOK
  <1>1. CASE \E s \in Sessions : Prompt(s) \/ WriteMarker(s)
    BY <1>1 DEF Prompt, WriteMarker, Write
  <1>2. CASE \E c \in Calls : StartCall(c)
    BY <1>0, <1>2 DEF StartCall
  <1>3. CASE \E c \in Calls : FinishCall(c)
    BY <1>0, <1>3 DEF FinishCall
  <1>4. CASE \E c \in Calls : WriteCall(c)
    BY <1>0, <1>4 DEF WriteCall, Write
  <1>5. CASE \E p \in Ingesters : Ingest(p) \/ Crash(p)
    BY <1>5, Others
  <1>6. CASE Tick \/ UNCHANGED vars
    BY <1>6 DEF Tick, vars
  <1> QED BY <1>1, <1>2, <1>3, <1>4, <1>5, <1>6 DEF Next

(* What every drain has in hand after a step: what it had, what it has just  *)
(* read from a claim, or a start it has just drained.                        *)
LEMMA HandsStep ==
  ASSUME TypeOK, [Next]_vars, NEW p \in Ingesters
  PROVE  /\ \A e \in Remaining(p)' : e \in Remaining(p) \/ \E q \in Path : e \in Lines(q)
         /\ \A e \in ing'[p].unfinished :
               e \in ing[p].unfinished \/ (e.kind = "start" /\ e \in Remaining(p))
         /\ \A c \in ing'[p].rejects :
               c \in ing[p].rejects \/ \E e \in Remaining(p) : IsPost(e, c)
  <1>1. ASSUME ing'[p] = ing[p]
        PROVE  /\ Remaining(p)' = Remaining(p)
               /\ ing'[p].unfinished = ing[p].unfinished /\ ing'[p].rejects = ing[p].rejects
    BY <1>1 DEF Remaining
  <1>2. CASE ReadClaim(p)
    <2> DEFINE n == ing[p].held[ing[p].next]
    <2>1. n \in Path /\ ing[p] \in IngestState
      BY <1>2, SystemTypes DEF ReadClaim, Path, TypeOK
    <2>2. /\ ing'[p].lines = files[n].lines
          /\ ing'[p].unfinished = ing[p].unfinished /\ ing'[p].rejects = ing[p].rejects
      BY <1>2, <2>1 DEF ReadClaim, TypeOK, IngestState
    <2>3. Remaining(p)' = Lines(n)
      BY <2>2 DEF Remaining, Lines
    <2> QED BY <2>1, <2>2, <2>3
  <1>3. CASE (Ingest(p) \/ Crash(p)) /\ ~ReadClaim(p)
    BY <1>3, InHands
  <1>4. CASE \E q \in Ingesters : q # p /\ (Ingest(q) \/ Crash(q))
    BY <1>1, <1>4, Others
  <1>5. CASE ~\E q \in Ingesters : Ingest(q) \/ Crash(q)
    BY <1>1, <1>5 DEF Next, Prompt, WriteMarker, StartCall, FinishCall, WriteCall, Tick, vars
  <1> QED BY <1>2, <1>3, <1>4, <1>5 DEF Ingest

-------------------------------------------------------------------------------
(* A line that says a call is complete is seen only once its hook returned.  *)

LEMMA InitPosts == Init => PostsMade
  <1> SUFFICES ASSUME Init PROVE PostsMade
    OBVIOUS
  <1>1. \A w \in Writer : handle[w].entry = NoEntry
    BY DEF Init, Closed
  <1>2. \A q \in Path : Lines(q) = {}
    BY DEF Init, NoFile, Lines
  <1>3. \A p \in Ingesters : /\ Remaining(p) = {}
                            /\ ing[p].unfinished = {} /\ ing[p].rejects = {}
    BY DEF Init, Idle, Remaining
  <1> QED BY <1>1, <1>2, <1>3 DEF PostsMade, NoEntry

LEMMA NextPosts == LossInv /\ PostsMade /\ [Next]_vars => PostsMade'
  <1> SUFFICES ASSUME LossInv, PostsMade, [Next]_vars PROVE PostsMade'
    OBVIOUS
  <1>0. TypeOK /\ \A c \in Calls : c \in Writer
    BY DEF LossInv, Writer
  <1>1. \A c \in Calls : call[c] = "done" => call'[c] = "done"
    BY <1>0, CallStep
  <1>2. \A e : PostDone(e) => PostDone(e)'
    BY <1>1 DEF PostDone
  <1>3. \A q \in Path : \A e \in Lines(q)' : PostDone(e)'
    <2> SUFFICES ASSUME NEW q \in Path, NEW e \in Lines(q)' PROVE PostDone(e)'
      OBVIOUS
    <2>1. CASE \E r \in Path : e \in Lines(r)
      BY <1>2, <2>1 DEF PostsMade
    <2>2. CASE \E c \in Calls : WriteCall(c) /\ e = handle[c].entry
      <3>1. PICK c \in Calls : WriteCall(c) /\ e = handle[c].entry
        BY <2>2
      <3>2. call[c] = "finishing" => call'[c] = "done"
        BY <1>0, <3>1 DEF WriteCall, TypeOK
      <3>3. e.kind = "post" => call[c] = "finishing" /\ e = Post(c)
        BY <1>0, <3>1 DEF PostsMade
      <3>4. Post(c).who = c
        BY DEF Post
      <3> QED BY <3>2, <3>3, <3>4 DEF PostDone
    <2>3. ASSUME NEW w \in Writer, w \notin Calls, e = handle[w].entry
          PROVE  PostDone(e)'
      BY <2>3 DEF PostsMade, PostDone
    <2> QED BY <2>1, <2>2, <2>3, DiskStep, WriterAssumption DEF Writer
  <1>4. ASSUME NEW p \in Ingesters
        PROVE  /\ \A e \in Remaining(p)' : PostDone(e)'
               /\ \A c \in ing'[p].rejects : call'[c] = "done"
               /\ \A e \in ing'[p].unfinished : e.kind = "start"
    <2>1. \A c \in ing'[p].rejects : c \in Calls
      BY NextTypes, <1>0 DEF TypeOK, IngestState
    <2>2. \A e \in Remaining(p)' : PostDone(e)
      BY <1>0, HandsStep DEF PostsMade
    <2>3. \A c \in ing'[p].rejects : call[c] = "done"
      BY <1>0, HandsStep DEF PostsMade, PostDone, IsPost
    <2>4. \A e \in ing'[p].unfinished : e.kind = "start"
      BY <1>0, HandsStep DEF PostsMade
    <2> QED BY <1>1, <1>2, <2>1, <2>2, <2>3, <2>4
  <1>5. ASSUME NEW w \in Writer, handle'[w].entry.kind = "post"
        PROVE  w \in Calls /\ call'[w] = "finishing" /\ handle'[w].entry = Post(w)
    <2>1. CASE handle'[w].entry = handle[w].entry
      <3>1. w \in Calls /\ call[w] = "finishing" /\ handle[w].entry = Post(w)
        BY <1>5, <2>1 DEF PostsMade
      <3>2. ~WriteCall(w)
        BY <1>0, <1>5, <3>1 DEF WriteCall, Write, TypeOK, Closed, NoEntry
      <3> QED BY <1>0, <2>1, <3>1, <3>2, CallStep
    <2>2. CASE w \in Calls /\ FinishCall(w) /\ handle'[w].entry = Post(w)
      BY <1>0, <2>2 DEF FinishCall, TypeOK
    <2>3. CASE w \in Ingesters /\ handle'[w].entry \in ing[w].unfinished
      BY <1>5, <2>3 DEF PostsMade
    <2>4. handle'[w] # Closed /\ handle'[w].entry # Start(w, now)
      BY <1>5 DEF Closed, NoEntry, Start
    <2>5. handle'[w].entry.kind # "marker"
      BY <1>5
    <2> QED BY <1>0, <2>1, <2>2, <2>3, <2>4, <2>5, HandleStep
  <1> QED BY <1>3, <1>4, <1>5 DEF PostsMade

-------------------------------------------------------------------------------
(* The log of WorkLog, step by step.                                         *)

LEMMA LogInit == Init => Log!Init
  BY DEF Init, Log!Init, Journalled, Settled

LEMMA LogStutter ==
  ASSUME UNCHANGED <<straddled, ledger, rejected>>,
         \A c \in Calls : Journalled(c)' <=> Journalled(c)
  PROVE  UNCHANGED Log!vars
  <1>1. {c \in Calls : Journalled(c)}' = {c \in Calls : Journalled(c)}
    OBVIOUS
  <1>2. {c \in Calls : Post(c) \in straddled}' = {c \in Calls : Post(c) \in straddled}
    OBVIOUS
  <1>3. {c \in Calls : Settled(c)}' = {c \in Calls : Settled(c)}
    BY DEF Settled
  <1> QED BY <1>1, <1>2, <1>3 DEF Log!vars

(* A hook that returns journals its call.                                    *)
LEMMA LogWrite ==
  ASSUME LossInv, NEW c \in Calls, WriteCall(c)
  PROVE  Log!Journal(c) \/ UNCHANGED Log!vars
  <1> USE DEF hostVars, sinkVars, histVars
  <1>1. UNCHANGED <<straddled, ledger, rejected>>
    BY DEF WriteCall, Write
  <1>2. call[c] \in {"starting", "finishing"}
    BY DEF WriteCall, Write, LossInv, HandlesOK
  <1>3. \A d \in Calls : d # c => call'[d] = call[d]
    BY DEF WriteCall, LossInv, TypeOK
  <1>4. call'[c] = IF call[c] = "starting" THEN "running" ELSE "done"
    BY DEF WriteCall, LossInv, TypeOK
  <1>5. CASE call[c] = "starting"
    BY <1>1, <1>3, <1>4, <1>5, LogStutter DEF Journalled
  <1>6. CASE call[c] = "finishing"
    <2>1. ~Journalled(c) /\ \A d \in Calls : Journalled(d)' <=> Journalled(d) \/ d = c
      BY <1>3, <1>4, <1>6 DEF Journalled
    <2>2. {d \in Calls : Journalled(d)}' = {d \in Calls : Journalled(d)} \cup {c}
      BY <2>1
    <2>3. {d \in Calls : Settled(d)}' = {d \in Calls : Settled(d)}
      BY <1>1 DEF Settled
    <2>4. {d \in Calls : Post(d) \in straddled}' = {d \in Calls : Post(d) \in straddled}
      BY <1>1
    <2> QED BY <2>1, <2>2, <2>3, <2>4 DEF Log!Journal
  <1> QED BY <1>2, <1>5, <1>6

(* A drain that renames the journal puts the appends open there at risk.     *)
LEMMA LogClaim ==
  ASSUME LossInv, PostsMade, NEW p \in Ingesters, Claim(p)
  PROVE  (\E S \in SUBSET Calls : Log!Risk(S)) \/ UNCHANGED Log!vars
  <1> USE DEF hostVars, sinkVars, histVars, diskVars
  <1>1. UNCHANGED <<call, ledger, rejected>>
    BY DEF Claim
  <1>2. CASE UNCHANGED straddled
    BY <1>1, <1>2, LogStutter DEF Journalled
  <1>3. CASE straddled' = straddled \cup
               {handle[w].entry : w \in {v \in Writer : handle[v].path = Live}}
    <2> DEFINE S == {c \in Calls : \E w \in Writer :
                        handle[w].path = Live /\ handle[w].entry = Post(c)}
    <2>1. ASSUME NEW c \in S PROVE ~Journalled(c)
      <3>1. PICK w \in Writer : handle[w].entry = Post(c)
        OBVIOUS
      <3>2. Post(c).kind = "post" /\ Post(c).who = c /\ Post(w).who = w
        BY DEF Post
      <3>3. w = c /\ call[c] = "finishing"
        BY <3>1, <3>2 DEF PostsMade
      <3> QED BY <3>3 DEF Journalled
    <2>2. {c \in Calls : Post(c) \in straddled}' = {c \in Calls : Post(c) \in straddled} \cup S
      BY <1>3
    <2>3. {c \in Calls : Journalled(c)}' = {c \in Calls : Journalled(c)}
      BY <1>1 DEF Journalled
    <2>4. {c \in Calls : Settled(c)}' = {c \in Calls : Settled(c)}
      BY <1>1 DEF Settled
    <2>5. Log!Risk(S)
      BY <2>1, <2>2, <2>3, <2>4 DEF Log!Risk
    <2> QED BY <2>5
  <1> QED BY <1>2, <1>3 DEF Claim

(* A drain that appends a completion, or writes its rejects, settles calls   *)
(* that were journalled.                                                     *)
LEMMA LogSettle ==
  ASSUME LossInv, PostsMade, NEW p \in Ingesters, DrainLine(p) \/ WriteRejected(p)
  PROVE  (\E S \in SUBSET Calls : Log!Settle(S)) \/ UNCHANGED Log!vars
  <1> USE DEF hostVars, diskVars, histVars
  <1> DEFINE e == Head(ing[p].lines)
  <1>1. UNCHANGED <<call, straddled>>
    BY DEF DrainLine, WriteRejected
  <1>2. ASSUME NEW S \in SUBSET Calls, \A c \in S : Journalled(c),
               \A c \in Calls : Settled(c)' <=> Settled(c) \/ c \in S
        PROVE  Log!Settle(S)
    <2>1. {c \in Calls : Settled(c)}' = {c \in Calls : Settled(c)} \cup S
      BY <1>2
    <2>2. {c \in Calls : Post(c) \in straddled}' = {c \in Calls : Post(c) \in straddled}
      BY <1>1
    <2>3. {c \in Calls : Journalled(c)}' = {c \in Calls : Journalled(c)}
      BY <1>1 DEF Journalled
    <2>4. S \subseteq {c \in Calls : Journalled(c)}
      BY <1>2
    <2> QED BY <2>1, <2>2, <2>3, <2>4 DEF Log!Settle
  <1>3. CASE WriteRejected(p)
    <2>1. ing[p].rejects \subseteq Calls
      BY DEF LossInv, TypeOK, IngestState
    <2>2. \A c \in ing[p].rejects : Journalled(c)
      BY DEF PostsMade, Journalled
    <2>3. \A c \in Calls : Settled(c)' <=> Settled(c) \/ c \in ing[p].rejects
      BY <1>3 DEF WriteRejected, Settled
    <2> QED BY <1>2, <2>1, <2>2, <2>3
  <1>4. CASE DrainLine(p) /\ DrainPost(p, e)
    <2>1. ing[p].lines \in Seq(Entry) /\ ing[p].lines # <<>>
      BY <1>4, SystemTypes DEF DrainLine, LossInv
    <2>2. e \in Remaining(p) /\ e.kind = "post"
      <3>1. e \in Remaining(p)
        BY <2>1 DEF Remaining
      <3> QED BY <1>4, <3>1 DEF DrainPost
    <2>3. e.who \in Calls /\ Journalled(e.who)
      BY <2>2 DEF PostsMade, PostDone, Journalled
    <2>4. rejected' = rejected
      BY <1>4 DEF DrainLine
    <2>5. \A c \in Calls : ledger'[c] = IF c = e.who
             THEN Append(ledger[c], ing[p].turns[Owner[c]].task) ELSE ledger[c]
      BY <1>4 DEF DrainPost, LossInv, TypeOK
    <2>6. \A c \in Calls : ledger[c] \in Seq(Task) /\ ing[p].turns[Owner[c]].task \in Task
      BY OwnerAssumption DEF LossInv, TypeOK, IngestState, OpenTurn
    <2>7. \A c \in Calls : ledger'[c] # <<>> <=> ledger[c] # <<>> \/ c = e.who
      <3>1. \A c \in Calls : Append(ledger[c], ing[p].turns[Owner[c]].task) # <<>>
        BY <2>6
      <3> QED BY <2>5, <3>1
    <2>8. \A c \in Calls : Settled(c)' <=> Settled(c) \/ c \in {e.who}
      <3> HIDE DEF e
      <3> QED BY <2>4, <2>7 DEF Settled
    <2>9. {e.who} \in SUBSET Calls /\ \A c \in {e.who} : Journalled(c)
      BY <2>3
    <2> HIDE DEF e
    <2> QED BY <1>2, <2>8, <2>9
  <1>5. CASE DrainLine(p) /\ ~DrainPost(p, e)
    <2>1. UNCHANGED <<ledger, rejected>>
      BY <1>5 DEF DrainLine, DrainStart, DrainMarker, DrainReject
    <2> QED BY <1>1, <2>1, LogStutter DEF Journalled
  <1> QED BY <1>3, <1>4, <1>5

LEMMA LogNext == LossInv /\ PostsMade /\ [Next]_vars => [Log!Next]_(Log!vars)
  <1> SUFFICES ASSUME LossInv, PostsMade, [Next]_vars PROVE [Log!Next]_(Log!vars)
    OBVIOUS
  <1> USE DEF hostVars, diskVars, sinkVars, histVars
  <1>0. TypeOK
    BY DEF LossInv
  <1>1. ASSUME UNCHANGED <<straddled, ledger, rejected>>, ~\E c \in Calls : WriteCall(c)
        PROVE  UNCHANGED Log!vars
    <2>1. \A c \in Calls : Journalled(c)' <=> Journalled(c)
      BY <1>0, <1>1, CallStep DEF Journalled
    <2> QED BY <1>1, <2>1, LogStutter
  <1>2. CASE \E c \in Calls : WriteCall(c)
    BY <1>2, LogWrite DEF Log!Next
  <1>3. CASE \E p \in Ingesters : Claim(p)
    BY <1>3, LogClaim DEF Log!Next
  <1>4. CASE \E p \in Ingesters : DrainLine(p) \/ WriteRejected(p)
    BY <1>4, LogSettle DEF Log!Next
  <1>5. CASE /\ ~\E c \in Calls : WriteCall(c)
             /\ ~\E p \in Ingesters : Claim(p) \/ DrainLine(p) \/ WriteRejected(p)
    <2>1. ASSUME NEW p \in Ingesters, Ingest(p)
          PROVE  UNCHANGED <<straddled, ledger, rejected>>
      <3>1. CASE \E n \in ClaimName : Adopt(p, n)
        BY <3>1 DEF Adopt
      <3>2. CASE ListClaims(p) \/ NothingToDrain(p) \/ ReadTurns(p) \/ ReadClaim(p)
        BY <3>2 DEF ListClaims, NothingToDrain, ReadTurns, ReadClaim
      <3>3. CASE RemoveClaim(p) \/ CarryOpen(p) \/ CarryWrite(p) \/ SaveTurns(p)
        BY <3>3 DEF RemoveClaim, CarryOpen, CarryWrite, Write, SaveTurns
      <3> QED BY <1>5, <2>1, <3>1, <3>2, <3>3 DEF Ingest
    <2>2. UNCHANGED <<straddled, ledger, rejected>>
      BY <1>5, <2>1 DEF Next, Prompt, WriteMarker, Write, StartCall, FinishCall, Crash, Tick, vars
    <2> QED BY <1>1, <1>5, <2>2
  <1> QED BY <1>2, <1>3, <1>4, <1>5

(* The files and processes of the write path implement the log: a call is    *)
(* settled only after its hook has journalled it, stays settled and stays    *)
(* journalled, and a drain that renames the journal endangers only calls     *)
(* whose hook has not returned.                                              *)
THEOREM LogImplemented == Spec => ImplementsLog
  <1>1. Init => LossInv /\ PostsMade
    BY InitLoss, InitPosts
  <1>2. LossInv /\ PostsMade /\ [Next]_vars => LossInv' /\ PostsMade'
    BY NextLoss, NextPosts
  <1> QED BY <1>1, <1>2, LogInit, LogNext, PTL DEF Spec, ImplementsLog, Log!Spec

-------------------------------------------------------------------------------
(* The start of a running call.                                              *)

LEMMA InitStarts == Init => StartsTrue
  <1> SUFFICES ASSUME Init PROVE StartsTrue
    OBVIOUS
  <1>1. \A w \in Writer : handle[w].entry = NoEntry
    BY DEF Init, Closed
  <1>2. \A q \in Path : Lines(q) = {}
    BY DEF Init, NoFile, Lines
  <1>3. \A p \in Ingesters : Remaining(p) = {} /\ ing[p].unfinished = {}
    BY DEF Init, Idle, Remaining
  <1>4. \A c \in Calls : call[c] = "new" /\ c \in Writer
    BY DEF Init, Writer
  <1> QED BY <1>1, <1>2, <1>3, <1>4 DEF StartsTrue, StartTrue, NoEntry

LEMMA NextStarts == LossInv /\ StartsTrue /\ [Next]_vars => StartsTrue'
  <1> SUFFICES ASSUME LossInv, StartsTrue, [Next]_vars PROVE StartsTrue'
    OBVIOUS
  <1>0. TypeOK /\ \A c \in Calls : c \in Writer
    BY DEF LossInv, Writer
  <1>1. \A e : StartTrue(e) => StartTrue(e)'
    <2> SUFFICES ASSUME NEW e, StartTrue(e), e.kind = "start" PROVE StartTrue(e)'
      BY DEF StartTrue
    <2>1. /\ e.who \in Calls /\ call[e.who] \notin {"new", "starting"}
          /\ e.at = startedAt[e.who]
      BY DEF StartTrue
    <2>2. call'[e.who] \notin {"new", "starting"} /\ startedAt'[e.who] = startedAt[e.who]
      BY <1>0, <2>1, CallStep
    <2> QED BY <2>1, <2>2 DEF StartTrue
  <1>2. ASSUME NEW q \in Path, NEW e \in Lines(q)' PROVE StartTrue(e)'
    <2>1. CASE \E r \in Path : e \in Lines(r)
      BY <1>1, <2>1 DEF StartsTrue
    <2>2. ASSUME NEW c \in Calls, WriteCall(c), e = handle[c].entry
          PROVE  StartTrue(e)'
      <3>1. SUFFICES ASSUME e.kind = "start" PROVE StartTrue(e)'
        BY DEF StartTrue
      <3>2. call[c] = "starting" /\ e = Start(c, startedAt[c])
        BY <2>2, <3>1 DEF StartsTrue
      <3>3. call'[c] = "running" /\ startedAt'[c] = startedAt[c]
        BY <1>0, <2>2, <3>2 DEF WriteCall, Write, TypeOK
      <3> QED BY <3>2, <3>3 DEF StartTrue, Start
    <2>3. ASSUME NEW w \in Writer, w \notin Calls, e = handle[w].entry
          PROVE  StartTrue(e)'
      BY <1>1, <2>3 DEF StartsTrue
    <2> QED BY <2>1, <2>2, <2>3, DiskStep, WriterAssumption DEF Writer
  <1>3. ASSUME NEW p \in Ingesters, NEW e \in Remaining(p)' \cup ing'[p].unfinished
        PROVE  StartTrue(e)'
    BY <1>0, <1>1, <1>3, HandsStep DEF StartsTrue
  <1>4. ASSUME NEW w \in Writer \ Calls PROVE StartTrue(handle[w].entry)'
    <2>1. CASE handle'[w].entry = handle[w].entry
      BY <1>1, <2>1 DEF StartsTrue
    <2>2. CASE handle'[w] = Closed \/ handle'[w].entry.kind = "marker"
      BY <2>2 DEF StartTrue, Closed, NoEntry
    <2>3. CASE w \in Ingesters /\ handle'[w].entry \in ing[w].unfinished
      BY <1>1, <2>3 DEF StartsTrue
    <2> QED BY <1>0, <2>1, <2>2, <2>3, HandleStep
  <1>5. ASSUME NEW c \in Calls, call'[c] = "starting"
        PROVE  handle'[c].entry = Start(c, startedAt'[c])
    <2>1. CASE call[c] = "starting" /\ startedAt'[c] = startedAt[c]
      <3>1. handle[c].entry = Start(c, startedAt[c]) /\ ~WriteCall(c) /\ ~StartCall(c) /\ ~FinishCall(c)
        BY <1>0, <1>5, <2>1 DEF StartsTrue, WriteCall, StartCall, FinishCall, TypeOK
      <3> QED BY <1>0, <2>1, <3>1, HandleStep, WriterAssumption DEF ClosedBy
    <2>2. CASE StartCall(c) /\ startedAt'[c] = now
      BY <1>0, <2>2 DEF StartCall, Open, TypeOK
    <2> QED BY <1>0, <1>5, <2>1, <2>2, CallStep
  <1>6. ASSUME NEW c \in Calls, handle'[c].entry.kind = "start"
        PROVE  call'[c] = "starting"
    <2>1. CASE handle'[c].entry = handle[c].entry
      <3>1. call[c] = "starting"
        BY <1>6, <2>1 DEF StartsTrue
      <3>2. ~WriteCall(c)
        BY <1>0, <1>6 DEF WriteCall, Write, TypeOK, Closed, NoEntry
      <3> QED BY <1>0, <3>1, <3>2, CallStep
    <2>2. CASE StartCall(c)
      BY <1>0, <2>2 DEF StartCall, TypeOK
    <2>3. handle'[c] # Closed /\ handle'[c].entry # Post(c) /\ handle'[c].entry.kind # "marker"
      BY <1>6 DEF Closed, NoEntry, Post
    <2>4. c \notin Ingesters
      BY WriterAssumption
    <2> QED BY <1>0, <2>1, <2>2, <2>3, <2>4, HandleStep
  <1> QED BY <1>2, <1>3, <1>4, <1>5, <1>6 DEF StartsTrue

(* A claim some drain holds grows only by a line that was open across a      *)
(* rename: new claims have new names.                                        *)
LEMMA ClaimGrows ==
  ASSUME LossInv, [Next]_vars, NEW p \in Ingesters, NEW q \in Held(p),
         NEW e \in Lines(q)', e \notin Lines(q)
  PROVE  e \in straddled
  <1> USE DEF hostVars, diskVars, sinkVars, histVars
  <1>0. TypeOK /\ FilesOK /\ HandlesOK /\ q \in Path /\ q # Live
    BY SystemTypes DEF LossInv, Held, Path
  <1>1. ~UNCHANGED files
    BY DEF Lines
  <1>2. ~\E w \in Writer : \E x : Open(w, x)
    BY <1>0, OpenDisk
  <1>3. ASSUME NEW w \in Writer, Write(w) PROVE e \in straddled
    <2>1. q = handle[w].path /\ e = handle[w].entry
      BY <1>0, <1>3, WriteDisk
    <2> QED BY <1>0, <1>3, <2>1 DEF HandlesOK, Write, IsOpen
  <1>4. ASSUME NEW from \in Path, FreshNames # {}, files[from].exists, RenameTo(from, NewName)
        PROVE  FALSE
    <2>1. NewName \in FreshNames /\ NewName # q
      BY <1>4, NewNameType DEF FreshNames
    <2> QED BY <1>0, <1>4, <2>1, RenameDisk
  <1>5. ASSUME NEW r \in Ingesters, Ingest(r) PROVE e \in straddled
    <2>1. ~Claim(r)
      BY <1>0, <1>1, <1>4, SystemTypes DEF Claim
    <2>2. ~\E n \in ClaimName : Adopt(r, n)
      BY <1>1, <1>4 DEF Adopt, Stale, Path
    <2>3. ~RemoveClaim(r)
      BY <1>0, RemoveDisk
    <2>4. ~(ListClaims(r) \/ NothingToDrain(r) \/ ReadTurns(r) \/ ReadClaim(r))
      BY <1>1 DEF ListClaims, NothingToDrain, ReadTurns, ReadClaim
    <2>5. ~(DrainLine(r) \/ WriteRejected(r) \/ SaveTurns(r))
      BY <1>1 DEF DrainLine, WriteRejected, SaveTurns
    <2>6. ~CarryOpen(r)
      BY <1>2 DEF CarryOpen, Writer
    <2> QED BY <1>3, <1>5, <2>1, <2>2, <2>3, <2>4, <2>5, <2>6 DEF Ingest, CarryWrite, Writer
  <1>6. ~\E s \in Sessions : Prompt(s)
    BY <1>2 DEF Prompt, Writer
  <1>7. ~\E c \in Calls : StartCall(c) \/ FinishCall(c)
    BY <1>2 DEF StartCall, FinishCall, Writer
  <1>8. CASE (\E s \in Sessions : WriteMarker(s)) \/ (\E c \in Calls : WriteCall(c))
    BY <1>3, <1>8 DEF WriteMarker, WriteCall, Writer
  <1>9. ~((\E r \in Ingesters : Crash(r)) \/ Tick \/ UNCHANGED vars)
    BY <1>1 DEF Crash, Tick, vars
  <1> QED BY <1>5, <1>6, <1>7, <1>8, <1>9 DEF Next

(* A line on disk stays on disk until the drain that holds its claim removes *)
(* the claim.                                                                *)
LEMMA DiskKeeps ==
  ASSUME LossInv, [Next]_vars, NEW q \in Path, NEW e \in Lines(q)
  PROVE  \/ \E r \in Path : e \in Lines(r)'
         \/ \E p \in Ingesters : RemoveClaim(p) /\ q = ing[p].held[ing[p].next]
  <1> USE DEF hostVars, diskVars, sinkVars, histVars
  <1> DEFINE Still == \E r \in Path : e \in Lines(r)'
  <1>0. TypeOK /\ FilesOK
    BY DEF LossInv
  <1>1. ASSUME UNCHANGED files PROVE Still
    BY <1>1 DEF Lines
  <1>2. ASSUME NEW w \in Writer, NEW x, Open(w, x) PROVE Still
    BY <1>0, <1>2, OpenDisk
  <1>3. ASSUME NEW w \in Writer, Write(w) PROVE Still
    BY <1>0, <1>3, WriteDisk
  <1>4. ASSUME NEW from \in Path, FreshNames # {}, files[from].exists, RenameTo(from, NewName)
        PROVE  Still
    <2>1. NewName \in FreshNames /\ NewName \in Path
      BY <1>4, NewNameType DEF Path
    <2> QED BY <1>0, <1>4, <2>1, RenameDisk
  <1>5. ASSUME NEW p \in Ingesters, Ingest(p)
        PROVE  Still \/ (RemoveClaim(p) /\ q = ing[p].held[ing[p].next])
    <2>1. CASE Claim(p)
      BY <1>0, <1>1, <1>4, <2>1, SystemTypes DEF Claim
    <2>2. CASE \E n \in ClaimName : Adopt(p, n)
      BY <1>1, <1>4, <2>2 DEF Adopt, Stale, Path
    <2>3. CASE RemoveClaim(p)
      BY <1>0, <2>3, RemoveDisk
    <2>4. CASE ListClaims(p) \/ NothingToDrain(p) \/ ReadTurns(p) \/ ReadClaim(p)
      BY <1>1, <2>4 DEF ListClaims, NothingToDrain, ReadTurns, ReadClaim
    <2>5. CASE DrainLine(p) \/ WriteRejected(p) \/ SaveTurns(p)
      BY <1>1, <2>5 DEF DrainLine, WriteRejected, SaveTurns
    <2>6. CASE CarryOpen(p)
      BY <1>2, <2>6 DEF CarryOpen, Writer
    <2>7. CASE CarryWrite(p)
      BY <1>3, <2>7 DEF CarryWrite, Writer
    <2> QED BY <1>5, <2>1, <2>2, <2>3, <2>4, <2>5, <2>6, <2>7 DEF Ingest
  <1>6. CASE \E s \in Sessions : Prompt(s) \/ WriteMarker(s)
    BY <1>2, <1>3, <1>6 DEF Prompt, WriteMarker, Writer
  <1>7. CASE \E c \in Calls : StartCall(c) \/ FinishCall(c) \/ WriteCall(c)
    BY <1>2, <1>3, <1>7 DEF StartCall, FinishCall, WriteCall, Writer
  <1>8. CASE (\E r \in Ingesters : Crash(r)) \/ Tick \/ UNCHANGED vars
    BY <1>1, <1>8 DEF Crash, Tick, vars
  <1> QED BY <1>5, <1>6, <1>7, <1>8 DEF Next

(* A step no drain process takes leaves every drain as it is.                *)
LEMMA OwnSteps ==
  ASSUME TypeOK, [Next]_vars, NEW p \in Ingesters, ~(Ingest(p) \/ Crash(p))
  PROVE  ing'[p] = ing[p]
  <1>1. CASE \E q \in Ingesters : q # p /\ (Ingest(q) \/ Crash(q))
    BY <1>1, Others
  <1>2. CASE ~\E q \in Ingesters : Ingest(q) \/ Crash(q)
    BY <1>2 DEF Next, Prompt, WriteMarker, StartCall, FinishCall, WriteCall, Tick, vars
  <1> QED BY <1>1, <1>2

(* What a drain remembers of the claims it has read.                         *)
LEMMA RememberStep ==
  ASSUME LossInv, PostsMade, [Next]_vars, NEW c \in Calls, NEW p \in Ingesters,
         call[c] # "done", Starts(c, straddled) = {}, Remembered(p, c)
  PROVE  Remembered(p, c)'
  <1> USE DEF hostVars, diskVars, sinkVars, histVars
  <1> DEFINE Has(q) == Starts(c, Lines(q)) # {}
             InMind == Starts(c, ing[p].unfinished \cup Remaining(p)) # {}
  <1>0. /\ TypeOK /\ FilesOK /\ DrainOK(p) /\ ing[p] \in IngestState
        /\ ing \in [Ingesters -> IngestState]
        /\ ing[p].held \in Seq(ClaimName) /\ ing[p].lines \in Seq(Entry)
    BY SystemTypes DEF LossInv, DrainsOK, TypeOK
  <1>1. \A k \in 1 .. Len(ing[p].held) : ing[p].held[k] \in Held(p)
    BY DEF Held
  <1>2. \A q \in Held(p) : Has(q)' => Has(q)
    BY ClaimGrows DEF Starts
  <1>3. CASE ing'[p] = ing[p]
    <2>1. Remaining(p)' = Remaining(p)
      BY <1>3 DEF Remaining
    <2>2. /\ ing'[p].pc = ing[p].pc /\ ing'[p].held = ing[p].held
          /\ ing'[p].next = ing[p].next /\ ing'[p].unfinished = ing[p].unfinished
      BY <1>3
    <2>3. \A k \in 1 .. Len(ing[p].held) : \A q : q = ing[p].held[k] /\ Has(q)' => Has(q)
      BY <1>1, <1>2
    <2> HIDE DEF InMind
    <2>4. InMind' <=> InMind
      BY <2>1, <2>2 DEF InMind
    <2> QED BY <2>2, <2>3, <2>4 DEF Remembered, InMind
  <1>4. CASE ing'[p].pc \notin {"drain", "remove"}
    BY <1>4 DEF Remembered
  <1>5. CASE Claim(p) \/ (\E n \in ClaimName : Adopt(p, n)) \/ ListClaims(p)
    <2>1. CASE Claim(p)
      BY <1>0, <1>4, <2>1 DEF Claim, IngestState
    <2>2. CASE \E n \in ClaimName : Adopt(p, n)
      <3>1. ing'[p].pc = "adopt"
        BY <1>0, <2>2 DEF Adopt, At, IngestState
      <3> QED BY <1>4, <3>1
    <2>3. CASE ListClaims(p)
      BY <1>0, <1>4, <2>3 DEF ListClaims, IngestState
    <2> QED BY <1>5, <2>1, <2>2, <2>3
  <1>6. CASE NothingToDrain(p) \/ SaveTurns(p) \/ Crash(p)
    BY <1>0, <1>4, <1>6 DEF NothingToDrain, SaveTurns, Crash, Idle
  <1>7. CASE ReadTurns(p)
    <2>1. ing'[p].pc = "drain" /\ ing'[p].next = 1
      BY <1>0, <1>7 DEF ReadTurns, At, DrainOK, IngestState
    <2> QED BY <2>1 DEF Remembered
  <1>8. CASE ReadClaim(p)
    <2> DEFINE n == ing[p].held[ing[p].next]
    <2>1. /\ ing'[p].pc = "drain" /\ ing'[p].held = ing[p].held
          /\ ing'[p].next = ing[p].next + 1 /\ ing'[p].lines = files[n].lines
          /\ ing'[p].unfinished = ing[p].unfinished
      BY <1>0, <1>8 DEF ReadClaim, At, IngestState
    <2>2. Remaining(p)' = Lines(n)
      BY <2>1 DEF Remaining, Lines
    <2>7. ing[p].lines = <<>>
      BY <1>8 DEF ReadClaim
    <2>8. Remaining(p) = {}
      BY <2>7 DEF Remaining
    <2> SUFFICES ASSUME NEW k \in 1 .. Len(ing[p].held), k < ing[p].next + 1,
                        NEW q, q = ing[p].held[k], Has(q)'
                 PROVE  InMind'
      BY <2>1 DEF Remembered
    <2>3. Has(q)
      BY <1>1, <1>2
    <2>4. ing[p].next \in Nat /\ k \in Nat
      BY <1>0 DEF IngestState, Position
    <2>5. CASE k < ing[p].next
      <3>1. InMind
        BY <1>8, <2>3, <2>5 DEF Remembered, ReadClaim, At
      <3> QED BY <2>1, <2>8, <3>1 DEF Starts
    <2>6. CASE k = ing[p].next
      <3>1. PICK x \in Lines(n) : x.kind = "start" /\ x.who = c
        BY <2>3, <2>6 DEF Starts
      <3>2. x \in Remaining(p)'
        BY <2>2, <3>1
      <3> QED BY <3>1, <3>2 DEF Starts
    <2>9. k < ing[p].next \/ k = ing[p].next
      BY <2>4
    <2> QED BY <2>5, <2>6, <2>9
  <1>9. CASE DrainLine(p)
    <2> DEFINE e == Head(ing[p].lines)
    <2>0. ing[p].pc = "drain" /\ ing[p].lines # <<>>
      BY <1>9 DEF DrainLine, At
    <2>1. /\ ing'[p].pc = "drain" /\ ing'[p].held = ing[p].held
          /\ ing'[p].next = ing[p].next /\ ing'[p].lines = Tail(ing[p].lines)
          /\ \A x \in ing[p].unfinished : x.who # e.who => x \in ing'[p].unfinished
          /\ e.kind = "start" => e \in ing'[p].unfinished
          /\ e.kind = "marker" => ing'[p].unfinished = ing[p].unfinished
      <3> HIDE DEF e
      <3> QED BY <1>0, <1>9, <2>0, LineEffect DEF DrainLine, e
    <2>2. e \in Remaining(p)
      BY <1>0, <2>0 DEF Remaining
    <2>3. \A x \in Remaining(p) : x # e => x \in Remaining(p)'
      BY <1>0, <2>0, <2>1, TailElements DEF Remaining
    <2>4. e.kind # "post" \/ e.who # c
      BY <2>2 DEF PostsMade, PostDone
    <2>5. e.kind \in {"marker", "start", "post"}
      <3>1. e \in Entry
        BY <1>0, <2>0
      <3> HIDE DEF e
      <3> QED BY <3>1 DEF Entry
    <2>6. InMind => InMind'
      <3> SUFFICES ASSUME NEW x \in ing[p].unfinished \cup Remaining(p),
                          x.kind = "start", x.who = c
                   PROVE  InMind'
        BY DEF Starts
      <3>1. CASE x \in ing[p].unfinished /\ e.who # c
        BY <2>1, <3>1 DEF Starts
      <3>2. CASE e.who = c /\ e.kind = "start"
        BY <2>1, <3>2 DEF Starts
      <3>3. CASE x \in ing[p].unfinished /\ e.kind = "marker"
        BY <2>1, <3>3 DEF Starts
      <3>4. CASE x \in Remaining(p) /\ x # e
        BY <2>3, <3>4 DEF Starts
      <3> QED BY <2>4, <2>5, <3>1, <3>2, <3>3, <3>4
    <2> HIDE DEF e, InMind
    <2>7. \A k \in 1 .. Len(ing[p].held) : k < ing[p].next /\ Has(ing[p].held[k]) => InMind
      BY <2>0 DEF Remembered, InMind
    <2> QED BY <1>1, <1>2, <2>1, <2>6, <2>7 DEF Remembered, InMind
  <1>10. CASE WriteRejected(p)
    <2>1. /\ ing[p].pc = "drain" /\ ing[p].next > Len(ing[p].held)
          /\ ing'[p].pc = "remove" /\ ing'[p].held = ing[p].held
          /\ ing'[p].unfinished = ing[p].unfinished
      BY <1>0, <1>10 DEF WriteRejected, At, IngestState
    <2>2. Remaining(p) = {}
      BY <1>10 DEF WriteRejected, Remaining
    <2>3. ing[p].next \in Nat /\ Len(ing[p].held) \in Nat
      BY <1>0 DEF IngestState, Position
    <2>4. \A k \in 1 .. Len(ing[p].held) : k < ing[p].next
      BY <2>1, <2>3
    <2>5. \A k \in 1 .. Len(ing[p].held) :
             Has(ing[p].held[k]) => Starts(c, ing[p].unfinished) # {}
      BY <2>1, <2>2, <2>4 DEF Remembered
    <2> QED BY <1>1, <1>2, <2>1, <2>5 DEF Remembered
  <1>11. CASE RemoveClaim(p)
    <2>1. CASE ing[p].next < Len(ing[p].held)
      <3>1. /\ ing[p].pc = "remove" /\ ing'[p].pc = "remove"
            /\ ing'[p].held = ing[p].held /\ ing'[p].unfinished = ing[p].unfinished
        BY <1>0, <1>11, <2>1 DEF RemoveClaim, At, IngestState
      <3> QED BY <1>1, <1>2, <3>1 DEF Remembered
    <2>2. CASE ~(ing[p].next < Len(ing[p].held))
      BY <1>0, <1>4, <1>11, <2>2 DEF RemoveClaim, IngestState
    <2> QED BY <2>1, <2>2
  <1>12. CASE CarryOpen(p) \/ CarryWrite(p)
    BY <1>0, <1>3, <1>4, <1>12 DEF CarryOpen, CarryWrite, At, IngestState
  <1>13. CASE ~(Ingest(p) \/ Crash(p))
    BY <1>0, <1>3, <1>13, OwnSteps
  <1> QED BY <1>5, <1>6, <1>7, <1>8, <1>9, <1>10, <1>11, <1>12, <1>13 DEF Ingest

(* A scan of the files, or some drain past its claim, has the start.         *)
StartSeen(c) ==
    \/ \E q \in Path : Starts(c, Lines(q)) # {}
    \/ \E p \in Ingesters : Starts(c, BeingCarried(p)) # {}

(* Removing a claim keeps a start that is not too old.                       *)
LEMMA RemoveKeeps ==
  ASSUME LossInv, StartsTrue, NEW p \in Ingesters, RemoveClaim(p),
         NEW c \in Calls, startedAt[c] >= now - AbandonedAfter,
         NEW x \in ing[p].unfinished, x.kind = "start", x.who = c
  PROVE  StartSeen(c)'
  <1>0. ing \in [Ingesters -> IngestState] /\ ing[p] \in IngestState
    BY DEF LossInv, TypeOK
  <1>1. x.at = startedAt[c]
    BY DEF StartsTrue, StartTrue
  <1>2. ing'[p].pc \in {"remove", "carry"} /\ x \in ing'[p].unfinished
    <2>1. CASE ing[p].next < Len(ing[p].held)
      BY <1>0, <2>1 DEF RemoveClaim, At, IngestState
    <2>2. CASE ~(ing[p].next < Len(ing[p].held))
      <3>1. Carried(x)
        BY <1>1 DEF Carried
      <3>2. ing' = [ing EXCEPT ![p].pc = "carry",
                               ![p].unfinished = {e \in ing[p].unfinished : Carried(e)}]
        BY <2>2 DEF RemoveClaim
      <3>3. ing'[p].pc = "carry" /\ ing'[p].unfinished = {e \in ing[p].unfinished : Carried(e)}
        BY <1>0, <3>2 DEF IngestState
      <3> QED BY <3>1, <3>3
    <2> QED BY <2>1, <2>2
  <1>3. x \in BeingCarried(p)'
    BY <1>2 DEF BeingCarried
  <1>4. Starts(c, BeingCarried(p))' # {}
    BY <1>3 DEF Starts
  <1> QED BY <1>4 DEF StartSeen

LEMMA SeenStep ==
  ASSUME LossInv, StartsTrue, [Next]_vars, ~\E p \in Ingesters : Crash(p),
         NEW c \in Calls, startedAt[c] >= now - AbandonedAfter,
         Starts(c, straddled) = {}, StartSeen(c),
         \A p \in Ingesters : Remembered(p, c)
  PROVE  StartSeen(c)'
  <1> USE DEF hostVars, diskVars, sinkVars, histVars
  <1>0. TypeOK /\ FilesOK /\ HandlesOK /\ Live \in Path
    BY SystemTypes DEF LossInv
  <1>1. ASSUME NEW q \in Path, NEW x \in Lines(q)', x.kind = "start", x.who = c
        PROVE  StartSeen(c)'
    <2>1. Starts(c, Lines(q))' # {}
      BY <1>1 DEF Starts
    <2> QED BY <2>1 DEF StartSeen
  <1>2. ASSUME NEW p \in Ingesters, NEW x \in BeingCarried(p)', x.kind = "start", x.who = c
        PROVE  StartSeen(c)'
    <2>1. Starts(c, BeingCarried(p))' # {}
      BY <1>2 DEF Starts
    <2> QED BY <2>1 DEF StartSeen
  <1>3. ASSUME NEW q \in Path, NEW x \in Lines(q), x.kind = "start", x.who = c
        PROVE  StartSeen(c)'
    <2>1. CASE \E r \in Path : x \in Lines(r)'
      BY <1>1, <1>3, <2>1
    <2>2. ASSUME NEW p \in Ingesters, RemoveClaim(p), q = ing[p].held[ing[p].next]
          PROVE  StartSeen(c)'
      <3>1. ing[p].pc = "remove" /\ ing[p].next \in 1 .. Len(ing[p].held)
        BY <1>0, <2>2, SystemTypes DEF RemoveClaim, At
      <3>2. Starts(c, Lines(q)) # {}
        BY <1>3 DEF Starts
      <3>3. Starts(c, ing[p].unfinished) # {}
        BY <2>2, <3>1, <3>2 DEF Remembered
      <3>4. PICK y \in ing[p].unfinished : y.kind = "start" /\ y.who = c
        BY <3>3 DEF Starts
      <3> QED BY <2>2, <3>4, RemoveKeeps
    <2> QED BY <1>3, <2>1, <2>2, DiskKeeps
  <1>4. ASSUME NEW p \in Ingesters, handle[p].entry.kind = "start", handle[p].entry.who = c
        PROVE  StartSeen(c)'
    <2> DEFINE x == handle[p].entry
    <2>0. p \in Writer /\ p \notin Calls /\ p \notin Sessions
      BY WriterAssumption DEF Writer
    <2>1. CASE handle'[p].entry = x
      <3>1. x \in BeingCarried(p)'
        BY <2>1 DEF BeingCarried
      <3> QED BY <1>2, <1>4, <3>1
    <2>2. CASE CarryWrite(p)
      <3>1. x \notin straddled
        BY <1>4 DEF Starts
      <3>2. handle[p].path = Live
        BY <1>0, <2>0, <2>2, <3>1 DEF HandlesOK, CarryWrite, Write, IsOpen
      <3>3. x \in Lines(Live)'
        BY <1>0, <2>0, <2>2, <3>2, WriteDisk DEF CarryWrite
      <3> QED BY <1>0, <1>1, <1>4, <3>3
    <2>3. ~CarryOpen(p)
      <3>1. handle[p] # Closed
        BY <1>4 DEF Closed, NoEntry
      <3>2. handle[p] \in Handle
        BY <1>0, <2>0, <3>1 DEF TypeOK
      <3>3. handle[p].path # Shut
        BY <1>0, <3>2, SystemTypes DEF Handle, Gone, Shut
      <3> QED BY <3>3 DEF CarryOpen, IsOpen
    <2> QED BY <1>0, <2>0, <2>1, <2>2, <2>3, HandleStep DEF ClosedBy
  <1>5. ASSUME NEW p \in Ingesters, ing[p].pc \in {"remove", "carry"},
               NEW x \in ing[p].unfinished, x.kind = "start", x.who = c
        PROVE  StartSeen(c)'
    <2>0. /\ ing[p] \in IngestState /\ ing \in [Ingesters -> IngestState]
          /\ p \in Writer /\ handle \in [Writer -> Handle \cup {Closed}]
      BY <1>0 DEF TypeOK, Writer
    <2>1. CASE ing'[p] = ing[p]
      <3>1. x \in BeingCarried(p)'
        BY <1>5, <2>1 DEF BeingCarried
      <3> QED BY <1>2, <1>5, <3>1
    <2>2. CASE RemoveClaim(p)
      BY <1>5, <2>2, RemoveKeeps
    <2>3. CASE CarryOpen(p)
      <3>1. PICK e \in ing[p].unfinished :
               Open(p, e) /\ ing' = [ing EXCEPT ![p].unfinished = @ \ {e}]
        BY <2>3 DEF CarryOpen
      <3>2. handle'[p].entry = e
        BY <2>0, <3>1 DEF Open
      <3>3. ing'[p].pc = "carry" /\ ing'[p].unfinished = ing[p].unfinished \ {e}
        BY <2>0, <2>3, <3>1 DEF CarryOpen, At, IngestState
      <3>4. x \in BeingCarried(p)'
        BY <3>2, <3>3 DEF BeingCarried
      <3> QED BY <1>2, <1>5, <3>4
    <2>4. CASE CarryWrite(p)
      BY <2>1, <2>4 DEF CarryWrite
    <2>5. ~SaveTurns(p)
      BY DEF SaveTurns
    <2>6. ~(Claim(p) \/ (\E n \in ClaimName : Adopt(p, n)) \/ ListClaims(p) \/ NothingToDrain(p))
      BY <1>5 DEF Claim, Adopt, ListClaims, NothingToDrain, At
    <2>7. ~(ReadTurns(p) \/ ReadClaim(p) \/ DrainLine(p) \/ WriteRejected(p))
      BY <1>5 DEF ReadTurns, ReadClaim, DrainLine, WriteRejected, At
    <2>8. CASE ~Ingest(p)
      BY <1>0, <2>1, <2>8, OwnSteps
    <2> QED BY <2>2, <2>3, <2>4, <2>5, <2>6, <2>7, <2>8 DEF Ingest
  <1>6. CASE \E q \in Path : Starts(c, Lines(q)) # {}
    BY <1>3, <1>6 DEF Starts
  <1>7. CASE \E p \in Ingesters : Starts(c, BeingCarried(p)) # {}
    <2>0. PICK p \in Ingesters : Starts(c, BeingCarried(p)) # {}
      BY <1>7
    <2>1. PICK x \in BeingCarried(p) : x.kind = "start" /\ x.who = c
      BY <2>0 DEF Starts
    <2>2. x = handle[p].entry \/ (ing[p].pc \in {"remove", "carry"} /\ x \in ing[p].unfinished)
      BY <2>1 DEF BeingCarried
    <2> QED BY <1>4, <1>5, <2>1, <2>2
  <1> QED BY <1>6, <1>7 DEF StartSeen

(* A call whose start hook returns is seen, and no drain has read its start. *)
LEMMA NewlyRunning ==
  ASSUME LossInv, StartsTrue, NEW c \in Calls, WriteCall(c), call[c] = "starting",
         [Next]_vars, Starts(c, straddled') = {}
  PROVE  StartSeen(c)' /\ \A p \in Ingesters : Remembered(p, c)'
  <1> USE DEF hostVars, diskVars, sinkVars, histVars
  <1> DEFINE x == handle[c].entry
  <1>0. /\ TypeOK /\ FilesOK /\ HandlesOK /\ c \in Writer /\ Live \in Path
        /\ straddled' = straddled /\ ing' = ing
    BY SystemTypes DEF LossInv, Writer, WriteCall, Write
  <1>1. x = Start(c, startedAt[c])
    BY DEF StartsTrue
  <1>2. x.kind = "start" /\ x.who = c
    BY <1>1 DEF Start
  <1>3. handle[c].path = Live
    <2>1. x \notin straddled
      BY <1>0, <1>2 DEF Starts
    <2> QED BY <1>0, <2>1 DEF HandlesOK, WriteCall, Write, IsOpen
  <1>4. x \in Lines(Live)'
    BY <1>0, <1>3, WriteDisk DEF WriteCall
  <1>5. Starts(c, Lines(Live))' # {}
    BY <1>2, <1>4 DEF Starts
  <1>6. StartSeen(c)'
    BY <1>0, <1>5 DEF StartSeen
  <1>7. ASSUME NEW p \in Ingesters, NEW q \in Held(p), NEW y \in Lines(q)',
               y.kind = "start", y.who = c
        PROVE  FALSE
    <2>1. y \notin straddled
      BY <1>0, <1>7 DEF Starts
    <2>2. y \in Lines(q) /\ q \in Path
      BY <1>0, <1>7, <2>1, ClaimGrows, SystemTypes DEF Held, Path
    <2> QED BY <1>7, <2>2 DEF StartsTrue, StartTrue
  <1>8. ASSUME NEW p \in Ingesters PROVE Remembered(p, c)'
    <2>1. \A k \in 1 .. Len(ing[p].held) : ing[p].held[k] \in Held(p)
      BY DEF Held
    <2>2. \A q \in Held(p) : Starts(c, Lines(q))' = {}
      BY <1>7 DEF Starts
    <2> QED BY <1>0, <2>1, <2>2 DEF Remembered
  <1> QED BY <1>6, <1>8

LEMMA InitSeen == Init => StartsInv
  BY DEF Init, StartsInv, RunningLately, RunningStartKept

LEMMA NextSeen ==
  LossInv /\ PostsMade /\ StartsTrue /\ StartsInv /\ [Next]_vars => StartsInv'
  <1> SUFFICES ASSUME LossInv, PostsMade, StartsTrue, StartsInv, [Next]_vars, crashes' = 0
               PROVE  \A c \in Calls : RunningLately(c)' =>
                         StartSeen(c)' /\ \A p \in Ingesters : Remembered(p, c)'
    BY DEF StartsInv, RunningStartKept, RunningLately, StartSeen
  <1> USE DEF hostVars, diskVars, sinkVars, histVars
  <1>0. TypeOK /\ crashes \in Nat
    BY BoundAssumption DEF LossInv, TypeOK
  <1>1. ~\E p \in Ingesters : Crash(p)
    BY <1>0 DEF Crash
  <1>2. straddled \subseteq straddled' /\ crashes' = crashes
    <2>1. ASSUME NEW p \in Ingesters, Ingest(p)
          PROVE  straddled \subseteq straddled' /\ crashes' = crashes
      <3>1. CASE Claim(p) \/ ListClaims(p) \/ (\E n \in ClaimName : Adopt(p, n))
        BY <3>1 DEF Claim, ListClaims, Adopt
      <3>2. CASE NothingToDrain(p) \/ ReadTurns(p) \/ ReadClaim(p) \/ DrainLine(p)
        BY <3>2 DEF NothingToDrain, ReadTurns, ReadClaim, DrainLine
      <3>3. CASE WriteRejected(p) \/ RemoveClaim(p) \/ CarryOpen(p)
        BY <3>3 DEF WriteRejected, RemoveClaim, CarryOpen
      <3>4. CASE CarryWrite(p) \/ SaveTurns(p)
        BY <3>4 DEF CarryWrite, Write, SaveTurns
      <3> QED BY <2>1, <3>1, <3>2, <3>3, <3>4 DEF Ingest
    <2> QED BY <1>1, <2>1 DEF Next, Prompt, WriteMarker, StartCall, FinishCall, WriteCall,
                              Write, Tick, vars
  <1>3. now \in Int /\ now' \in Int /\ now' >= now
    <2>1. now' = now \/ now' = now + 1
      <3>1. ASSUME NEW p \in Ingesters, Ingest(p) PROVE now' = now
        BY <1>0, <3>1, Others
      <3> QED BY <1>1, <3>1 DEF Next, Prompt, WriteMarker, StartCall, FinishCall, WriteCall,
                                Write, Tick, vars
    <2>2. now \in Int
      BY <1>0, TimeFacts DEF TypeOK
    <2> QED BY <2>1, <2>2
  <1> SUFFICES ASSUME NEW c \in Calls, RunningLately(c)'
               PROVE  StartSeen(c)' /\ \A p \in Ingesters : Remembered(p, c)'
    OBVIOUS
  <1>4. /\ call'[c] = "running" /\ startedAt'[c] >= now' - AbandonedAfter
        /\ Starts(c, straddled') = {}
    BY DEF RunningLately
  <1>5. Starts(c, straddled) = {}
    BY <1>2, <1>4 DEF Starts
  <1>6. CASE call[c] = "running"
    <2>1. startedAt'[c] = startedAt[c]
      BY <1>0, <1>4, <1>6, CallStep
    <2>2. startedAt[c] \in Int /\ AbandonedAfter \in Int
      <3>1. startedAt[c] \in Time
        BY <1>0 DEF TypeOK
      <3>2. startedAt[c] \in Int
        BY <3>1, TimeFacts
      <3>3. AbandonedAfter \in {StaleClaim, AbandonedAfter, TurnTTL, MaxTurns}
        OBVIOUS
      <3>4. AbandonedAfter \in Nat
        BY <3>3, BoundAssumption
      <3> QED BY <3>2, <3>4
    <2>3. startedAt[c] >= now - AbandonedAfter
      BY <1>3, <1>4, <2>1, <2>2
    <2>4. RunningLately(c) /\ crashes = 0
      BY <1>2, <1>5, <1>6, <2>3 DEF RunningLately
    <2>5. \A p \in Ingesters : Remembered(p, c)
      BY <2>4 DEF StartsInv
    <2>6. StartSeen(c)
      BY <1>6, <1>5, <2>3, <2>4 DEF StartsInv, RunningStartKept, StartSeen
    <2>7. StartSeen(c)'
      BY <1>1, <1>5, <2>3, <2>5, <2>6, SeenStep
    <2>8. \A p \in Ingesters : Remembered(p, c)'
      BY <1>5, <1>6, <2>5, RememberStep
    <2> QED BY <2>7, <2>8
  <1>7. CASE call[c] # "running"
    <2>1. WriteCall(c) /\ call[c] = "starting"
      BY <1>0, <1>4, <1>7, CallStep
    <2> QED BY <1>4, <2>1, NewlyRunning
  <1> QED BY <1>6, <1>7

(* A running call stays visible, whatever drains run at once and adopt from  *)
(* each other, as long as none of them dies: until it is too old, its start  *)
(* is in a file that readInFlightCalls scans, or is being put back.          *)
THEOREM RunningCallsSeen == Spec => []RunningStartKept
  <1>1. Init => LossInv /\ PostsMade /\ StartsTrue /\ StartsInv
    BY InitLoss, InitPosts, InitStarts, InitSeen
  <1>2. LossInv /\ PostsMade /\ StartsTrue /\ StartsInv /\ [Next]_vars
           => LossInv' /\ PostsMade' /\ StartsTrue' /\ StartsInv'
    BY NextLoss, NextPosts, NextStarts, NextSeen
  <1>3. StartsInv => RunningStartKept
    BY DEF StartsInv, RunningStartKept
  <1> QED BY <1>1, <1>2, <1>3, PTL DEF Spec

-------------------------------------------------------------------------------
(* One place for each completion.                                            *)

(* What a drain holds after a step, while no claim is adopted.               *)
LEMMA HeldMoves ==
  ASSUME TypeOK, [Next]_vars, adoptions' = 0, NEW p \in Ingesters
  PROVE  \/ ing'[p].held = ing[p].held /\ (ing'[p].pc = "idle" => ing[p].pc = "idle")
         \/ ing'[p].held = <<>>
         \/ Claim(p) /\ FreshNames # {} /\ ing'[p].held = <<NewName>> /\ ing'[p].pc = "list"
  <1> USE DEF hostVars, diskVars, sinkVars, histVars
  <1>0. ing \in [Ingesters -> IngestState] /\ ing[p] \in IngestState /\ adoptions \in Nat
    BY BoundAssumption DEF TypeOK
  <1>1. CASE Claim(p)
    <2>1. CASE FreshNames # {} /\ ing' = [ing EXCEPT ![p].pc = "list", ![p].held = <<NewName>>]
      BY <1>0, <1>1, <2>1 DEF IngestState
    <2>2. CASE ing' = [ing EXCEPT ![p].pc = "list"]
      BY <1>0, <2>2 DEF IngestState
    <2> QED BY <1>1, <2>1, <2>2 DEF Claim
  <1>2. CASE \E n \in ClaimName : Adopt(p, n)
    <2>1. PICK n \in ClaimName : Adopt(p, n)
      BY <1>2
    <2>2. ing' = [ing EXCEPT ![p].todo = @ \ {n}] /\ ing[p].pc = "adopt"
      BY <1>0, <2>1 DEF Adopt, At
    <2> QED BY <1>0, <2>2 DEF IngestState
  <1>3. CASE ListClaims(p) \/ ReadTurns(p)
    <2>1. CASE ListClaims(p)
      <3>1. ing'[p].held = ing[p].held /\ ing'[p].pc = "adopt"
        BY <1>0, <2>1 DEF ListClaims, IngestState
      <3> QED BY <3>1
    <2>2. CASE ReadTurns(p)
      <3>1. ing'[p].held = ing[p].held /\ ing'[p].pc = "drain"
        BY <1>0, <2>2 DEF ReadTurns, IngestState
      <3> QED BY <3>1
    <2> QED BY <1>3, <2>1, <2>2
  <1>4. CASE NothingToDrain(p) \/ SaveTurns(p) \/ Crash(p)
    <2>1. ing'[p] = Idle
      BY <1>0, <1>4 DEF NothingToDrain, SaveTurns, Crash
    <2> QED BY <2>1 DEF Idle
  <1>5. CASE ReadClaim(p) \/ WriteRejected(p)
    BY <1>0, <1>5 DEF ReadClaim, WriteRejected, At, IngestState
  <1>6. CASE DrainLine(p)
    <2> DEFINE e == Head(ing[p].lines)
    <2>1. ing'[p].held = ing[p].held /\ ing'[p].pc = "drain"
      BY <1>0, <1>6, LineEffect DEF DrainLine, At
    <2> QED BY <2>1
  <1>7. CASE RemoveClaim(p)
    <2>1. CASE ing[p].next < Len(ing[p].held)
      BY <1>0, <1>7, <2>1 DEF RemoveClaim, At, IngestState
    <2>2. CASE ~(ing[p].next < Len(ing[p].held))
      BY <1>0, <1>7, <2>2 DEF RemoveClaim, At, IngestState
    <2> QED BY <2>1, <2>2
  <1>8. CASE CarryOpen(p) \/ CarryWrite(p)
    BY <1>0, <1>8 DEF CarryOpen, CarryWrite, At, IngestState
  <1>9. CASE ~(Ingest(p) \/ Crash(p))
    BY <1>9, OwnSteps
  <1> QED BY <1>1, <1>2, <1>3, <1>4, <1>5, <1>6, <1>7, <1>8, <1>9 DEF Ingest

LEMMA HeldStep ==
  ASSUME TypeOK, [Next]_vars, adoptions' = 0, HeldApart
  PROVE  HeldApart'
  <1>1. ASSUME NEW p \in Ingesters
        PROVE  /\ Len(ing'[p].held) <= 1
               /\ ing'[p].pc = "idle" => ing'[p].held = <<>>
               /\ \/ Held(p)' \subseteq Held(p)
                  \/ Claim(p) /\ Held(p)' = {NewName} /\ NewName \in FreshNames
    <2>1. CASE ing'[p].held = ing[p].held /\ (ing'[p].pc = "idle" => ing[p].pc = "idle")
      BY <2>1 DEF HeldApart, Held
    <2>2. CASE ing'[p].held = <<>>
      BY <2>2 DEF Held
    <2>3. CASE Claim(p) /\ FreshNames # {} /\ ing'[p].held = <<NewName>> /\ ing'[p].pc = "list"
      BY <2>3, NewNameType DEF Held
    <2> QED BY <2>1, <2>2, <2>3, HeldMoves
  <1>2. ASSUME NEW p \in Ingesters, NEW q \in Ingesters, p # q, ~Claim(q)
        PROVE  Held(p)' \cap Held(q)' = {}
    <2>1. Held(q)' \subseteq Held(q) /\ Held(p) \cap Held(q) = {}
      BY <1>1, <1>2 DEF HeldApart
    <2> QED BY <1>1, <2>1 DEF FreshNames
  <1>3. \A p, q \in Ingesters : Claim(p) /\ Claim(q) => p = q
    <2>1. ASSUME NEW p \in Ingesters, Claim(p) PROVE ing'[p].pc = "list" /\ ing[p].pc = "idle"
      BY <2>1 DEF Claim, At, TypeOK, IngestState
    <2> QED BY <2>1, Others DEF Ingest
  <1>4. \A p, q \in Ingesters : p # q => Held(p)' \cap Held(q)' = {}
    BY <1>2, <1>3
  <1> QED BY <1>1, <1>4 DEF HeldApart

(* Steps after which a completion is in no place it was not in.              *)
Shrinks(c) ==
    /\ \A q \in Path, i \in Nat : ToDrain(c, q, i)' => ToDrain(c, q, i)
    /\ \A p \in Ingesters, i \in Nat : InHand(c, p, i)' => InHand(c, p, i)
    /\ ledger'[c] = ledger[c]

LEMMA ShrinkStep ==
  ASSUME NEW c \in Calls, OnePlace(c), Shrinks(c), call[c] = "done" => call'[c] = "done"
  PROVE  OnePlace(c)'
  BY DEF OnePlace, Shrinks

LEMMA ShrinkFrom ==
  ASSUME \A q \in Path : files'[q].lines \in {files[q].lines, <<>>},
         \A q \in Path : Unread(q)' => Unread(q),
         \A p \in Ingesters : ing'[p].lines \in {ing[p].lines, <<>>},
         UNCHANGED ledger
  PROVE  \A c \in Calls : Shrinks(c)
  <1> SUFFICES ASSUME NEW c \in Calls PROVE Shrinks(c)
    OBVIOUS
  <1>1. \A q \in Path, i \in Nat : ToDrain(c, q, i)' => ToDrain(c, q, i)
    BY DEF ToDrain
  <1>2. \A p \in Ingesters, i \in Nat : InHand(c, p, i)' => InHand(c, p, i)
    BY DEF InHand
  <1> QED BY <1>1, <1>2 DEF Shrinks

(* What one drain still has to read.                                         *)
LEMMA UnreadKept ==
  ASSUME \A p \in Ingesters, q \in Path : UnreadBy(p, q)' => UnreadBy(p, q)
  PROVE  \A q \in Path : Unread(q)' => Unread(q)
  BY DEF Unread

LEMMA UnreadStep ==
  ASSUME LossInv, HeldApart, adoptions' = 0, NEW p \in Ingesters, Ingest(p) \/ Crash(p),
         ~(Claim(p) /\ FreshNames # {} /\ ing'[p].held = <<NewName>>)
  PROVE  \A q \in Path : UnreadBy(p, q)' => UnreadBy(p, q)
  <1> USE DEF hostVars, diskVars, sinkVars, histVars
  <1>0. /\ ing \in [Ingesters -> IngestState] /\ ing[p] \in IngestState /\ adoptions \in Nat
        /\ ing[p].next \in Nat /\ Len(ing[p].held) \in Nat
    BY BoundAssumption, SystemTypes DEF LossInv, TypeOK
  <1>1. CASE Claim(p)
    <2>1. ing[p].held = <<>>
      BY <1>1 DEF HeldApart, Claim, At
    <2>2. ing'[p].held = <<>>
      BY <1>0, <1>1, <2>1 DEF Claim, IngestState
    <2>3. ing'[p].next = ing[p].next /\ ing[p].next = 1
      BY <1>0, <1>1 DEF Claim, At, IngestState, LossInv, DrainsOK, DrainOK
    <2> QED BY <2>2, <2>3 DEF UnreadBy
  <1>2. CASE \E n \in ClaimName : Adopt(p, n)
    <2>1. PICK n \in ClaimName : Adopt(p, n)
      BY <1>2
    <2>2. ing' = [ing EXCEPT ![p].todo = @ \ {n}]
      BY <1>0, <2>1 DEF Adopt
    <2>3. ing'[p].held = ing[p].held /\ ing'[p].next = ing[p].next /\ ing'[p].pc = ing[p].pc
      BY <1>0, <2>2 DEF IngestState
    <2> QED BY <2>3 DEF UnreadBy
  <1>3. CASE ListClaims(p) \/ ReadTurns(p)
    <2>1. /\ ing'[p].held = ing[p].held /\ ing'[p].next = ing[p].next
          /\ ing[p].pc \in {"list", "adopt", "drain"}
      <3>1. ing[p].pc \in {"list", "adopt", "drain"}
        BY <1>3 DEF ListClaims, ReadTurns, At
      <3>2. CASE ListClaims(p)
        BY <1>0, <3>1, <3>2 DEF ListClaims, IngestState
      <3>3. CASE ReadTurns(p)
        BY <1>0, <3>1, <3>3 DEF ReadTurns, IngestState
      <3> QED BY <1>3, <3>2, <3>3
    <2> QED BY <2>1 DEF UnreadBy
  <1>4. ASSUME ing'[p].pc \in {"idle", "remove", "carry"}
        PROVE  \A q \in Path : UnreadBy(p, q)' => UnreadBy(p, q)
    BY <1>4 DEF UnreadBy
  <1>5. CASE NothingToDrain(p) \/ SaveTurns(p) \/ Crash(p)
    <2>1. ing'[p] = Idle
      BY <1>0, <1>5 DEF NothingToDrain, SaveTurns, Crash
    <2> QED BY <1>4, <2>1 DEF Idle
  <1>6. CASE ReadClaim(p)
    <2>1. /\ ing'[p].held = ing[p].held /\ ing'[p].next = ing[p].next + 1
          /\ ing[p].pc = "drain"
      BY <1>0, <1>6 DEF ReadClaim, At, IngestState
    <2>2. \A k \in ing[p].next + 1 .. Len(ing[p].held) : k \in ing[p].next .. Len(ing[p].held)
      BY <1>0
    <2> QED BY <2>1, <2>2 DEF UnreadBy
  <1>7. CASE DrainLine(p)
    <2> DEFINE e == Head(ing[p].lines)
    <2>1. ing'[p].held = ing[p].held /\ ing'[p].next = ing[p].next /\ ing'[p].pc = ing[p].pc
      BY <1>0, <1>7, LineEffect DEF DrainLine
    <2> QED BY <2>1 DEF UnreadBy
  <1>8. CASE WriteRejected(p)
    BY <1>0, <1>4, <1>8 DEF WriteRejected, IngestState
  <1>9. CASE RemoveClaim(p)
    <2>1. CASE ing[p].next < Len(ing[p].held)
      BY <1>0, <1>4, <1>9, <2>1 DEF RemoveClaim, At, IngestState
    <2>2. CASE ~(ing[p].next < Len(ing[p].held))
      BY <1>0, <1>4, <1>9, <2>2 DEF RemoveClaim, IngestState
    <2> QED BY <2>1, <2>2
  <1>10. CASE CarryOpen(p)
    BY <1>0, <1>4, <1>10 DEF CarryOpen, At, IngestState
  <1>11. CASE CarryWrite(p)
    BY <1>11 DEF CarryWrite, UnreadBy
  <1> QED BY <1>1, <1>2, <1>3, <1>5, <1>6, <1>7, <1>8, <1>9, <1>10, <1>11 DEF Ingest

(* A line appended to a file is a new place for its completion alone, and    *)
(* its call had none before: its hook has not returned.                      *)
LEMMA PlacesWrite ==
  ASSUME LossInv, PostsMade, NEW w \in Writer, Write(w), ing' = ing,
         w \in Calls => WriteCall(w),
         NEW c \in Calls, OnePlace(c), call[c] = "done" => call'[c] = "done"
  PROVE  OnePlace(c)'
  <1> USE DEF sinkVars, histVars
  <1> DEFINE r == handle[w].path
             x == handle[w].entry
  <1>0. /\ TypeOK /\ FilesOK /\ ledger' = ledger
        /\ \A q \in Path : files[q] \in File /\ files[q].lines \in Seq(Entry)
    BY SystemTypes DEF LossInv, Write
  <1>1. \A q : Unread(q)' <=> Unread(q)
    BY DEF Unread, UnreadBy
  <1>2. \A p, i : InHand(c, p, i)' <=> InHand(c, p, i)
    BY DEF InHand
  <1>3. \A q \in Path : files'[q].lines = files[q].lines
                      \/ (q = r /\ files'[q].lines = Append(files[q].lines, x))
    <2>1. CASE r = Gone
      BY <2>1 DEF Write
    <2>2. CASE r # Gone
      <3>1. files' = [files EXCEPT ![r].lines = Append(@, x), ![r].mtime = now]
        BY <2>2 DEF Write
      <3> HIDE DEF r, x
      <3> QED BY <1>0, <3>1 DEF TypeOK, File
    <2> QED BY <2>1, <2>2
  <1>4. \A q \in Path, i \in Nat : ToDrain(c, q, i)' =>
           \/ ToDrain(c, q, i)
           \/ q = r /\ i = Len(files[r].lines) + 1 /\ IsPost(x, c)
    <2> SUFFICES ASSUME NEW q \in Path, NEW i \in Nat, ToDrain(c, q, i)'
                 PROVE  \/ ToDrain(c, q, i)
                        \/ q = r /\ i = Len(files[r].lines) + 1 /\ IsPost(x, c)
      OBVIOUS
    <2>1. Unread(q) /\ i \in 1 .. Len(files'[q].lines) /\ IsPost(files'[q].lines[i], c)
      BY <1>1 DEF ToDrain
    <2>2. CASE files'[q].lines = files[q].lines
      BY <2>1, <2>2 DEF ToDrain
    <2>3. CASE q = r /\ files'[q].lines = Append(files[q].lines, x)
      <3>1. files[q].lines \in Seq(Entry) /\ x \in Entry
        <4>1. handle[w] \in Handle
          BY SystemTypes DEF LossInv, Write, IsOpen
        <4> QED BY <1>0, <4>1 DEF Handle
      <3> DEFINE l == files[q].lines
      <3>2. \/ i \in 1 .. Len(l) /\ Append(l, x)[i] = l[i]
            \/ i = Len(l) + 1 /\ Append(l, x)[i] = x
        <4>1. l \in Seq(Entry) /\ x \in Entry /\ i \in 1 .. Len(Append(l, x))
          BY <2>1, <2>3, <3>1
        <4> HIDE DEF l, x
        <4> QED BY <4>1
      <3> HIDE DEF x
      <3> QED BY <2>1, <2>3, <3>2 DEF ToDrain
    <2> QED BY <1>3, <2>2, <2>3
  <1>5. CASE ~IsPost(x, c)
    <2>1. Shrinks(c)
      BY <1>0, <1>2, <1>4, <1>5 DEF Shrinks
    <2> QED BY <2>1, ShrinkStep
  <1>6. CASE IsPost(x, c)
    <2>1. w = c /\ call[c] = "finishing"
      <3>1. w \in Calls /\ call[w] = "finishing" /\ x = Post(w)
        BY <1>6 DEF PostsMade, IsPost
      <3> QED BY <1>6, <3>1 DEF IsPost, Post
    <2>2. \A q, i : ~ToDrain(c, q, i)
      BY <2>1 DEF PostsMade, PostDone, ToDrain, IsPost, Lines
    <2>3. \A p, i : ~InHand(c, p, i)
      BY <2>1 DEF PostsMade, PostDone, InHand, IsPost, Remaining
    <2>4. ledger[c] = <<>>
      BY <2>1 DEF OnePlace
    <2>5. call'[c] = "done"
      BY <1>0, <2>1 DEF WriteCall, TypeOK
    <2>6. \A q \in Path, i \in Nat : ToDrain(c, q, i)' => q = r /\ i = Len(files[r].lines) + 1
      BY <1>4, <2>2
    <2>7. \A p, i : ~InHand(c, p, i)'
      BY <1>2, <2>3
    <2> HIDE DEF r, x
    <2> QED BY <1>0, <2>4, <2>5, <2>6, <2>7 DEF OnePlace
  <1> QED BY <1>5, <1>6

(* Renaming the journal to a fresh name moves every place in it to the claim *)
(* the drain now holds.                                                      *)
LEMMA PlacesClaim ==
  ASSUME LossInv, HeldApart, NEW p \in Ingesters, Claim(p), FreshNames # {},
         ing'[p].held = <<NewName>>, NEW c \in Calls, OnePlace(c)
  PROVE  OnePlace(c)'
  <1> USE DEF hostVars, sinkVars, diskVars
  <1> DEFINE n == NewName
  <1>0. /\ TypeOK /\ FilesOK /\ ing \in [Ingesters -> IngestState]
        /\ UNCHANGED <<call, ledger>>
    BY DEF LossInv, TypeOK, Claim
  <1>1. n \in FreshNames /\ n \in Path /\ n # Live /\ Live \in Path
    BY <1>0, NewNameType, SystemTypes DEF Path
  <1>2. ing[p].held = <<>>
    BY DEF HeldApart, Claim, At
  <1>3. /\ RenameTo(Live, n)
        /\ ing' = [ing EXCEPT ![p].pc = "list", ![p].held = <<n>>]
    <2>1. ing' # [ing EXCEPT ![p].pc = "list"]
      <3> SUFFICES ASSUME ing' = [ing EXCEPT ![p].pc = "list"]
                   PROVE  FALSE
        OBVIOUS
      <3>1. ing'[p].held = <<>>
        BY <1>0, <1>2 DEF IngestState
      <3> QED BY <3>1
    <2> QED BY <2>1 DEF Claim
  <1>4. \A q \in Path : files'[q] = IF q = Live THEN NoFile
                                   ELSE IF q = n THEN files[Live] ELSE files[q]
    BY <1>0, <1>1, <1>3 DEF RenameTo, TypeOK
  <1>5. \A r \in Ingesters : r # p => ing'[r] = ing[r]
    BY <1>0, <1>3
  <1>6. \A r \in Ingesters : ing'[r].lines = ing[r].lines
    BY <1>0, <1>3 DEF IngestState
  <1>7. \A q : q # n /\ Unread(q)' => Unread(q)
    <2>1. ASSUME NEW q, NEW r \in Ingesters, UnreadBy(r, q)', q # n PROVE UnreadBy(r, q)
      <3>1. CASE r = p
        <4>1. \A k \in 1 .. Len(ing'[p].held) : ing'[p].held[k] = n
          OBVIOUS
        <4>2. ing'[p].next = 1
          BY <1>0, <1>3 DEF Claim, At, IngestState, LossInv, DrainsOK, DrainOK
        <4> QED BY <2>1, <3>1, <4>1, <4>2 DEF UnreadBy
      <3>2. CASE r # p
        BY <1>5, <2>1, <3>2 DEF UnreadBy
      <3> QED BY <3>1, <3>2
    <2> QED BY <2>1 DEF Unread
  <1> DEFINE Back(q) == IF q = n THEN Live ELSE q
  <1>8. \A q \in Path, i \in Nat : ToDrain(c, q, i)' => q # Live /\ ToDrain(c, Back(q), i)
    <2> SUFFICES ASSUME NEW q \in Path, NEW i \in Nat, ToDrain(c, q, i)'
                 PROVE  q # Live /\ ToDrain(c, Back(q), i)
      OBVIOUS
    <2>1. Unread(q)' /\ i \in 1 .. Len(files'[q].lines) /\ IsPost(files'[q].lines[i], c)
      BY DEF ToDrain
    <2>2. q # Live
      BY <1>4, <2>1 DEF NoFile
    <2>3. CASE q = n
      BY <1>1, <1>4, <2>1, <2>3 DEF ToDrain, Unread
    <2>4. CASE q # n
      BY <1>4, <1>7, <2>1, <2>2, <2>4 DEF ToDrain
    <2> QED BY <2>2, <2>3, <2>4
  <1>9. \A r, i : InHand(c, r, i)' <=> InHand(c, r, i)
    BY <1>6 DEF InHand
  <1>10. \A q \in Path : Back(q) \in Path
    BY <1>1
  <1>11. \A q, r \in Path : q # Live /\ r # Live /\ Back(q) = Back(r) => q = r
    BY <1>1
  <1> HIDE DEF Back
  <1> QED BY <1>0, <1>8, <1>9, <1>10, <1>11 DEF OnePlace

(* Reading a claim takes its places off the disk and into the drain's hands. *)
LEMMA PlacesRead ==
  ASSUME LossInv, HeldApart, NEW p \in Ingesters, ReadClaim(p), adoptions' = 0,
         NEW c \in Calls, OnePlace(c)
  PROVE  OnePlace(c)'
  <1> USE DEF hostVars, sinkVars, diskVars, histVars
  <1> DEFINE n == ing[p].held[ing[p].next]
  <1>0. /\ TypeOK /\ ing \in [Ingesters -> IngestState] /\ ing[p] \in IngestState
        /\ UNCHANGED <<call, ledger, files>>
        /\ ing[p].held \in Seq(ClaimName) /\ ing[p].next \in Nat \ {0}
    BY SystemTypes DEF LossInv, TypeOK, ReadClaim
  <1>1. ing[p].next = 1 /\ Len(ing[p].held) = 1 /\ ing[p].pc = "drain" /\ ing[p].lines = <<>>
    <2>1. ing[p].next <= Len(ing[p].held) /\ Len(ing[p].held) <= 1
      BY DEF HeldApart, ReadClaim
    <2>2. Len(ing[p].held) \in Nat /\ ing[p].next \in Nat /\ ing[p].next # 0
      BY <1>0
    <2>3. ing[p].next = 1 /\ Len(ing[p].held) = 1
      <3>1. \A a, b \in Nat : a # 0 /\ a <= b /\ b <= 1 => a = 1 /\ b = 1
        OBVIOUS
      <3> QED BY <2>1, <2>2, <3>1
    <2> QED BY <2>3 DEF ReadClaim, At
  <1>2. n \in Held(p) /\ n \in Path /\ n # Live
    BY <1>0, <1>1, SystemTypes DEF Held, Path
  <1>3. /\ ing'[p].held = ing[p].held /\ ing'[p].next = 2 /\ ing'[p].lines = files[n].lines
        /\ \A r \in Ingesters : r # p => ing'[r] = ing[r]
    BY <1>0, <1>1 DEF ReadClaim, IngestState
  <1>4. Unread(n)
    BY <1>1, <1>2 DEF Unread, UnreadBy
  <1>5. \A q \in Path : ~UnreadBy(p, q)'
    BY <1>1, <1>3 DEF UnreadBy
  <1>6. \A r \in Ingesters, q \in Path : r # p => (UnreadBy(r, q)' <=> UnreadBy(r, q))
    BY <1>3 DEF UnreadBy
  <1>7. \A q \in Path : Unread(q)' => Unread(q)
    BY <1>5, <1>6 DEF Unread
  <1>8. \A q \in Path : q = n => ~Unread(q)'
    <2>1. ASSUME NEW r \in Ingesters, r # p, UnreadBy(r, n) PROVE FALSE
      <3>1. n \in Held(r)
        <4>1. PICK k \in ing[r].next .. Len(ing[r].held) : ing[r].held[k] = n
          BY <2>1 DEF UnreadBy
        <4>2. k \in 1 .. Len(ing[r].held)
          BY <1>0, <4>1, SystemTypes
        <4> QED BY <4>1, <4>2 DEF Held
      <3> QED BY <1>2, <2>1, <3>1 DEF HeldApart
    <2> QED BY <1>2, <1>5, <1>6, <2>1 DEF Unread
  <1>9. \A q \in Path, i \in Nat : ToDrain(c, q, i)' => q # n /\ ToDrain(c, q, i)
    BY <1>0, <1>7, <1>8 DEF ToDrain
  <1>10. \A i \in Nat : InHand(c, p, i)' => ToDrain(c, n, i) /\ ~InHand(c, p, i)
    BY <1>1, <1>2, <1>3, <1>4 DEF InHand, ToDrain
  <1>11. \A r \in Ingesters, i \in Nat : r # p => (InHand(c, r, i)' <=> InHand(c, r, i))
    BY <1>3 DEF InHand
  <1> HIDE DEF n
  <1> QED BY <1>0, <1>2, <1>9, <1>10, <1>11 DEF OnePlace

(* Draining a line takes it out of the drain's hands, and records it only if *)
(* it was the completion's one place.                                        *)
LEMMA PlacesLine ==
  ASSUME LossInv, PostsMade, HeldApart, NEW p \in Ingesters, DrainLine(p), adoptions' = 0,
         NEW c \in Calls, OnePlace(c)
  PROVE  OnePlace(c)'
  <1> USE DEF hostVars, sinkVars, diskVars, histVars
  <1> DEFINE e == Head(ing[p].lines)
  <1>0. /\ TypeOK /\ ing \in [Ingesters -> IngestState] /\ ing[p] \in IngestState
        /\ UNCHANGED <<call, files>>
        /\ ing[p].lines \in Seq(Entry) /\ ing[p].lines # <<>>
    BY SystemTypes DEF LossInv, TypeOK, DrainLine
  <1>1. ing'[p].lines = Tail(ing[p].lines) /\ \A r \in Ingesters : r # p => ing'[r] = ing[r]
    BY <1>0, LineEffect DEF DrainLine
  <1>2. \A q \in Path, i \in Nat : ToDrain(c, q, i)' => ToDrain(c, q, i)
    <2>1. ~Claim(p)
      BY DEF Claim, DrainLine, At
    <2>2. \A q \in Path : UnreadBy(p, q)' => UnreadBy(p, q)
      BY <2>1, UnreadStep DEF Ingest
    <2>3. \A r \in Ingesters, q \in Path : UnreadBy(r, q)' => UnreadBy(r, q)
      BY <1>1, <2>2 DEF UnreadBy
    <2> QED BY <1>0, <2>3, UnreadKept DEF ToDrain
  <1>3. \A i \in Nat : InHand(c, p, i)' => i # 0 /\ InHand(c, p, i + 1)
    <2> DEFINE l == ing[p].lines
    <2>1. /\ Len(Tail(l)) = Len(l) - 1 /\ Len(l) \in Nat
          /\ \A i \in 1 .. Len(Tail(l)) : Tail(l)[i] = l[i + 1]
      <3>1. l \in Seq(Entry) /\ l # <<>>
        BY <1>0
      <3> HIDE DEF l
      <3> QED BY <3>1
    <2>2. \A i \in 1 .. Len(Tail(l)) : i # 0 /\ i + 1 \in 1 .. Len(l)
      BY <2>1
    <2> HIDE DEF l
    <2>3. \A i \in Nat : InHand(c, p, i)' => i \in 1 .. Len(Tail(l)) /\ IsPost(Tail(l)[i], c)
      BY <1>1 DEF InHand, l
    <2> QED BY <2>1, <2>2, <2>3 DEF InHand, l
  <1>4. \A r \in Ingesters, i \in Nat : r # p => (InHand(c, r, i)' <=> InHand(c, r, i))
    BY <1>1 DEF InHand
  <1>5. CASE ledger'[c] = ledger[c]
    <2>1. \A r, s \in Ingesters, i, j \in Nat :
             InHand(c, r, i)' /\ InHand(c, s, j)' => r = s /\ i = j
      <3> SUFFICES ASSUME NEW r \in Ingesters, NEW s \in Ingesters, NEW i \in Nat, NEW j \in Nat,
                          InHand(c, r, i)', InHand(c, s, j)'
                   PROVE  r = s /\ i = j
        OBVIOUS
      <3>1. r = s
        BY <1>3, <1>4 DEF OnePlace
      <3>2. CASE r = p
        <4>1. InHand(c, p, i + 1) /\ InHand(c, p, j + 1)
          BY <1>3, <3>1, <3>2
        <4>2. i + 1 = j + 1
          BY <4>1 DEF OnePlace
        <4> QED BY <3>1, <4>2
      <3>3. CASE r # p
        BY <1>4, <3>1, <3>3 DEF OnePlace
      <3> QED BY <3>2, <3>3
    <2>2. \A r \in Ingesters, i \in Nat : InHand(c, r, i)' => \E j \in Nat : InHand(c, r, j)
      BY <1>3, <1>4
    <2> QED BY <1>0, <1>2, <1>5, <2>1, <2>2 DEF OnePlace
  <1>6. CASE ledger'[c] # ledger[c]
    <2>1. /\ e.kind = "post" /\ e.who = c
          /\ ledger' = [ledger EXCEPT ![e.who] = Append(@, ing[p].turns[Owner[e.who]].task)]
      <3>1. DrainPost(p, e)
        BY <1>6 DEF DrainLine, DrainStart, DrainMarker, DrainReject
      <3> HIDE DEF e
      <3> QED BY <1>0, <1>6, <3>1 DEF DrainPost, TypeOK
    <2>2. InHand(c, p, 1) /\ e \in Remaining(p)
      <3>1. 1 \in 1 .. Len(ing[p].lines) /\ e = ing[p].lines[1]
        BY <1>0
      <3> QED BY <2>1, <3>1 DEF InHand, IsPost, Remaining
    <2>3. call[c] = "done"
      BY <2>1, <2>2 DEF PostsMade, PostDone
    <2>4. ledger[c] = <<>>
      BY <2>2 DEF OnePlace
    <2>5. Len(ledger'[c]) = 1
      BY <1>0, <2>1, <2>4 DEF TypeOK
    <2>6. \A q \in Path, i \in Nat : ~ToDrain(c, q, i)'
      BY <1>2, <2>2 DEF OnePlace
    <2>7. \A r \in Ingesters, i \in Nat : ~InHand(c, r, i)'
      <3>1. \A r \in Ingesters, i \in Nat : InHand(c, r, i) => r = p /\ i = 1
        BY <2>2 DEF OnePlace
      <3>2. \A i \in Nat : i # 0 => i + 1 # 1 /\ i + 1 \in Nat
        OBVIOUS
      <3> QED BY <1>3, <1>4, <3>1, <3>2
    <2> HIDE DEF e
    <2> QED BY <1>0, <2>3, <2>5, <2>6, <2>7 DEF OnePlace
  <1> QED BY <1>5, <1>6

LEMMA InitPlaces == Init => PlacesInv
  <1> SUFFICES ASSUME Init PROVE HeldApart /\ \A c \in Calls : OnePlace(c)
    BY DEF PlacesInv
  <1>1. \A q \in Path : files[q].lines = <<>>
    BY DEF Init, NoFile
  <1>2. \A p \in Ingesters : ing[p].held = <<>> /\ ing[p].lines = <<>>
    BY DEF Init, Idle
  <1>3. HeldApart
    BY <1>2 DEF HeldApart, Held
  <1>4. \A c, q, i : ~ToDrain(c, q, i) /\ ~InHand(c, q, i)
    BY <1>1, <1>2 DEF ToDrain, InHand
  <1>5. \A c \in Calls : ledger[c] = <<>>
    BY DEF Init
  <1> QED BY <1>3, <1>4, <1>5 DEF OnePlace

LEMMA OpenLines ==
  ASSUME TypeOK, FilesOK, NEW w, NEW e, Open(w, e)
  PROVE  \A q \in Path : files'[q].lines = files[q].lines
  BY SystemTypes DEF Open, FilesOK, TypeOK

LEMMA PlacesIngest ==
  ASSUME LossInv, PostsMade, HeldApart, NEW p \in Ingesters, Ingest(p) \/ Crash(p),
         [Next]_vars, adoptions' = 0, NEW c \in Calls, OnePlace(c)
  PROVE  OnePlace(c)'
  <1> USE DEF hostVars, sinkVars, diskVars, histVars
  <1>0. /\ TypeOK /\ FilesOK /\ ing \in [Ingesters -> IngestState] /\ ing[p] \in IngestState
        /\ adoptions \in Nat /\ p \in Writer /\ p \notin Calls
    BY BoundAssumption, WriterAssumption DEF LossInv, TypeOK, Writer
  <1>1. CASE Claim(p) /\ FreshNames # {} /\ ing'[p].held = <<NewName>>
    BY <1>1, PlacesClaim
  <1>2. CASE ReadClaim(p)
    BY <1>2, PlacesRead
  <1>3. CASE DrainLine(p)
    BY <1>3, PlacesLine
  <1>4. CASE CarryWrite(p)
    BY <1>0, <1>4, PlacesWrite DEF CarryWrite
  <1>5. ASSUME ~(Claim(p) /\ FreshNames # {} /\ ing'[p].held = <<NewName>>),
               \A q \in Path : files'[q].lines \in {files[q].lines, <<>>},
               ing'[p].lines \in {ing[p].lines, <<>>}, UNCHANGED <<ledger, call>>
        PROVE  OnePlace(c)'
    <2>1. \A q \in Path : UnreadBy(p, q)' => UnreadBy(p, q)
      BY <1>5, UnreadStep
    <2>2. \A r \in Ingesters : r # p => ing'[r] = ing[r]
      BY <1>0, Others
    <2>3. \A r \in Ingesters, q \in Path : UnreadBy(r, q)' => UnreadBy(r, q)
      BY <2>1, <2>2 DEF UnreadBy
    <2>4. Shrinks(c)
      BY <1>5, <2>2, <2>3, UnreadKept, ShrinkFrom
    <2> QED BY <1>5, <2>4, ShrinkStep
  <1>6. CASE Claim(p) /\ ~(FreshNames # {} /\ ing'[p].held = <<NewName>>)
    <2>1. UNCHANGED <<files, ledger, call>> /\ ing' = [ing EXCEPT ![p].pc = "list"]
      <3>1. CASE ing' = [ing EXCEPT ![p].pc = "list", ![p].held = <<NewName>>] /\ FreshNames # {}
        BY <1>0, <1>6, <3>1 DEF IngestState
      <3> QED BY <1>6, <3>1 DEF Claim
    <2>2. ing'[p].lines = ing[p].lines
      BY <1>0, <2>1 DEF IngestState
    <2> QED BY <1>5, <1>6, <2>1, <2>2
  <1>7. CASE \E n \in ClaimName : Adopt(p, n)
    <2>1. PICK n \in ClaimName : Adopt(p, n)
      BY <1>7
    <2>2. ing' = [ing EXCEPT ![p].todo = @ \ {n}] /\ UNCHANGED <<files, ledger, call>>
      BY <1>0, <2>1 DEF Adopt
    <2>3. ing'[p].lines = ing[p].lines
      BY <1>0, <2>2 DEF IngestState
    <2>4. ~Claim(p)
      BY <2>1 DEF Claim, Adopt, At
    <2> QED BY <1>5, <2>2, <2>3, <2>4
  <1>8. CASE ListClaims(p) \/ ReadTurns(p) \/ WriteRejected(p)
    <2>1. UNCHANGED <<files, ledger, call>> /\ ~Claim(p)
      BY <1>8 DEF Claim, ListClaims, ReadTurns, WriteRejected, At
    <2>2. CASE ListClaims(p)
      <3>1. ing'[p].lines = ing[p].lines
        BY <1>0, <2>2 DEF ListClaims, IngestState
      <3> QED BY <1>5, <2>1, <3>1
    <2>3. CASE ReadTurns(p) \/ WriteRejected(p)
      <3>1. ing'[p].lines = ing[p].lines
        BY <1>0, <2>3 DEF ReadTurns, WriteRejected, IngestState
      <3> QED BY <1>5, <2>1, <3>1
    <2> QED BY <1>8, <2>2, <2>3
  <1>9. CASE NothingToDrain(p) \/ SaveTurns(p) \/ Crash(p)
    <2>1. ing'[p] = Idle /\ UNCHANGED <<files, ledger, call>> /\ ~Claim(p)
      BY <1>0, <1>9 DEF NothingToDrain, SaveTurns, Crash, Claim, At
    <2>2. ing'[p].lines = <<>>
      BY <2>1 DEF Idle
    <2> QED BY <1>5, <2>1, <2>2
  <1>10. CASE RemoveClaim(p)
    <2>1. UNCHANGED <<ledger, call>> /\ ~Claim(p)
      BY <1>10 DEF RemoveClaim, Claim, At
    <2>2. \A q \in Path : files'[q].lines \in {files[q].lines, <<>>}
      BY <1>0, <1>10 DEF RemoveClaim, TypeOK, NoFile
    <2>3. ing'[p].lines = ing[p].lines
      <3>1. CASE ing[p].next < Len(ing[p].held)
        BY <1>0, <1>10, <3>1 DEF RemoveClaim, IngestState
      <3>2. CASE ~(ing[p].next < Len(ing[p].held))
        BY <1>0, <1>10, <3>2 DEF RemoveClaim, IngestState
      <3> QED BY <3>1, <3>2
    <2> QED BY <1>5, <2>1, <2>2, <2>3
  <1>11. CASE CarryOpen(p)
    <2>1. UNCHANGED <<ledger, call>> /\ ~Claim(p)
      BY <1>11 DEF CarryOpen, Claim, At
    <2>2. \A q \in Path : files'[q].lines = files[q].lines
      BY <1>0, <1>11, OpenLines DEF CarryOpen
    <2>3. ing'[p].lines = ing[p].lines
      BY <1>0, <1>11 DEF CarryOpen, IngestState
    <2> QED BY <1>5, <2>1, <2>2, <2>3
  <1> QED BY <1>1, <1>2, <1>3, <1>4, <1>6, <1>7, <1>8, <1>9, <1>10, <1>11 DEF Ingest

LEMMA NextPlaces == LossInv /\ PostsMade /\ PlacesInv /\ [Next]_vars => PlacesInv'
  <1> SUFFICES ASSUME LossInv, PostsMade, PlacesInv, [Next]_vars, adoptions' = 0
               PROVE  HeldApart' /\ \A c \in Calls : OnePlace(c)'
    BY DEF PlacesInv
  <1> USE DEF hostVars, sinkVars, diskVars, histVars
  <1>0. TypeOK /\ FilesOK /\ adoptions \in Nat
    BY BoundAssumption DEF LossInv, TypeOK
  <1>1. adoptions = 0
    <2>1. ASSUME NEW p \in Ingesters, Ingest(p) PROVE adoptions' = adoptions \/ adoptions' = adoptions + 1
      <3>1. CASE Claim(p) \/ ListClaims(p)
        BY <3>1 DEF Claim, ListClaims
      <3>2. CASE \E n \in ClaimName : Adopt(p, n)
        BY <3>2 DEF Adopt
      <3>3. CASE NothingToDrain(p) \/ ReadTurns(p) \/ ReadClaim(p) \/ DrainLine(p)
        BY <3>3 DEF NothingToDrain, ReadTurns, ReadClaim, DrainLine
      <3>4. CASE WriteRejected(p) \/ RemoveClaim(p) \/ CarryOpen(p)
        BY <3>4 DEF WriteRejected, RemoveClaim, CarryOpen
      <3>5. CASE CarryWrite(p) \/ SaveTurns(p)
        BY <3>5 DEF CarryWrite, Write, SaveTurns
      <3> QED BY <2>1, <3>1, <3>2, <3>3, <3>4, <3>5 DEF Ingest
    <2>2. adoptions' = adoptions \/ adoptions' = adoptions + 1
      BY <2>1 DEF Next, Prompt, WriteMarker, StartCall, FinishCall, WriteCall, Write, Crash,
                  Tick, vars
    <2> QED BY <1>0, <2>2
  <1>2. HeldApart /\ \A c \in Calls : OnePlace(c)
    BY <1>1 DEF PlacesInv
  <1>3. HeldApart'
    BY <1>0, <1>2, HeldStep
  <1>4. \A c \in Calls : call[c] = "done" => call'[c] = "done"
    BY <1>0, CallStep
  <1> SUFFICES ASSUME NEW c \in Calls PROVE OnePlace(c)'
    BY <1>3
  <1>5. ASSUME \A q \in Path : files'[q].lines = files[q].lines, UNCHANGED <<ing, ledger>>
        PROVE  OnePlace(c)'
    <2>1. \A q \in Path : Unread(q)' => Unread(q)
      BY <1>5 DEF Unread, UnreadBy
    <2>2. Shrinks(c)
      BY <1>5, <2>1, ShrinkFrom
    <2> QED BY <1>2, <1>4, <2>2, ShrinkStep
  <1>6. CASE (\E s \in Sessions : Prompt(s)) \/ (\E d \in Calls : StartCall(d) \/ FinishCall(d))
    BY <1>0, <1>5, <1>6, OpenLines DEF Prompt, StartCall, FinishCall
  <1>7. ASSUME NEW s \in Sessions, WriteMarker(s) PROVE OnePlace(c)'
    BY <1>2, <1>4, <1>7, PlacesWrite, WriterAssumption DEF WriteMarker, Writer
  <1>8. ASSUME NEW d \in Calls, WriteCall(d) PROVE OnePlace(c)'
    BY <1>2, <1>4, <1>8, PlacesWrite DEF WriteCall, Writer
  <1>9. CASE \E p \in Ingesters : Ingest(p) \/ Crash(p)
    BY <1>2, <1>9, PlacesIngest
  <1>10. CASE Tick \/ UNCHANGED vars
    BY <1>5, <1>10 DEF Tick, vars
  <1> QED BY <1>6, <1>7, <1>8, <1>9, <1>10 DEF Next

(* Any number of drains that run at once never share a line: until one of    *)
(* them adopts a claim, each call has at most one completion in the ledger,  *)
(* crashes included.                                                         *)
THEOREM RecordedOncePerClaim == Spec => []OncePerClaim
  <1>1. Init => LossInv /\ PostsMade /\ PlacesInv
    BY InitLoss, InitPosts, InitPlaces
  <1>2. LossInv /\ PostsMade /\ PlacesInv /\ [Next]_vars => LossInv' /\ PostsMade' /\ PlacesInv'
    BY NextLoss, NextPosts, NextPlaces
  <1>3. PlacesInv => OncePerClaim
    BY DEF PlacesInv, OncePerClaim, RecordedOnce, OnePlace
  <1> QED BY <1>1, <1>2, <1>3, PTL DEF Spec

-------------------------------------------------------------------------------
(* Drains one after another: in one ingest slot and while no drain dies, a   *)
(* completion is recorded for its own turn, and the open turn a drain leaves *)
(* behind never goes back.                                                   *)

(* The inductive invariant.                                                  *)

(* The lines that speak of the turns of a session, and the turn each does.   *)
MarkerOf(e, s) == e.kind = "marker" /\ e.who = s
OfSession(e, s) ==
    \/ MarkerOf(e, s)
    \/ e.kind = "post" /\ e.who \in Calls /\ Owner[e.who] = s
TurnOf(e) == IF e.kind = "marker" THEN e.turn ELSE callTurn[e.who]

(* y may come after x.                                                       *)
InOrder(x, y) ==
    \A s \in Sessions : OfSession(x, s) /\ OfSession(y, s) =>
        /\ TurnOf(x) <= TurnOf(y)
        /\ y.kind = "marker" => TurnOf(x) < TurnOf(y)

(* What is still to be drained, in that order: what the drain has in hand,   *)
(* the claim it has yet to read, and the live journal.                       *)
Waiting(p) ==
    IF ing[p].pc \in {"list", "adopt", "drain"} /\ ing[p].next <= Len(ing[p].held)
    THEN files[ing[p].held[Len(ing[p].held)]].lines ELSE <<>>
WaitingLines(p) == {Waiting(p)[i] : i \in 1 .. Len(Waiting(p))}
Pending(p) == Remaining(p) \cup WaitingLines(p) \cup Lines(Live)

(* No claim is on disk but the last one that the drain holds.                *)
ClaimsHeld(p) ==
    /\ ing[p].pc \in {"idle", "carry"} => \A n \in ClaimName : ~files[n].exists
    /\ ing[p].pc \notin {"idle", "carry"} => \A n \in ClaimName :
          files[n].exists => ing[p].held # <<>> /\ n = ing[p].held[Len(ing[p].held)]
    /\ ing[p].pc # "drain" => ing[p].lines = <<>>
    /\ \A k \in 1 .. Len(ing[p].held) - 1 : ing[p].held[k] # ing[p].held[Len(ing[p].held)]

(* The host waits for the hook of a prompt, and starts no prompt while a     *)
(* call of the session is under way.                                         *)
HostTurns ==
    /\ \A c \in Calls : /\ callTurn[c] <= turnNo[Owner[c]]
                        /\ call[c] # "done" => ledger[c] = <<>>
                        /\ call[c] \in {"starting", "running", "finishing"} =>
                              callTurn[c] = turnNo[Owner[c]] /\ ~IsOpen(Owner[c])
    /\ \A s \in Sessions : IsOpen(s) =>
          /\ MarkerOf(handle[s].entry, s) /\ handle[s].entry.turn = turnNo[s]
          /\ \A c \in Calls : Owner[c] = s => call[c] \in {"new", "done"}
          /\ \A c \in Calls : Owner[c] = s /\ call[c] = "done" => callTurn[c] < turnNo[s]
    /\ \A p \in Ingesters : IsOpen(p) => handle[p].entry.kind = "start"

(* No line is of a turn to come; while a marker is being written, none is of *)
(* its turn.                                                                 *)
NoneAhead(p) ==
    \A s \in Sessions :
        /\ \A e \in Pending(p) : OfSession(e, s) =>
              TurnOf(e) <= turnNo[s] /\ (IsOpen(s) => TurnOf(e) < turnNo[s])
        /\ \A t \in {turnFile[s].task, ing[p].turns[s].task} :
              t <= turnNo[s] /\ (IsOpen(s) => t < turnNo[s])

(* What a hook has yet to write into a claim comes before what is in the     *)
(* live journal.                                                             *)
LateWrites ==
    \A e \in Lines(Live) :
        /\ \A s \in Sessions : handle[s].path \in ClaimName => ~OfSession(e, s)
        /\ \A c \in Calls : handle[c].path \in ClaimName /\ OfSession(e, Owner[c]) =>
              e.kind = "post" /\ TurnOf(e) = callTurn[c]

Sorted(q) == \A i, j \in 1 .. Len(q) : i < j => InOrder(q[i], q[j])
Ordered(p) ==
    /\ Sorted(ing[p].lines) /\ Sorted(Waiting(p)) /\ Sorted(files[Live].lines)
    /\ \A x \in Remaining(p), y \in WaitingLines(p) : InOrder(x, y)
    /\ \A x \in Remaining(p) \cup WaitingLines(p), y \in Lines(Live) : InOrder(x, y)

(* The open turn: in the hands of a drain that has read it, or in the file.  *)
OpenTurnOf(p, s) == IF ing[p].pc \in {"drain", "remove", "carry"}
                    THEN ing[p].turns[s] ELSE turnFile[s]
Advancing(p) ==
    \A s \in Sessions :
        /\ OpenTurnOf(p, s) = NoTurn \/ OpenTurnOf(p, s).task >= turnFile[s].task
        /\ \A e \in Pending(p) : MarkerOf(e, s) =>
              turnFile[s].task < e.turn /\ OpenTurnOf(p, s).task < e.turn

(* The marker of turn t is to be drained, or was the last one drained (its   *)
(* turn may have expired since), or its append was open across a rename.     *)
Straddled(s, t) == \E e \in straddled : MarkerOf(e, s) /\ e.turn = t
MarkerKnown(p, s, t) ==
    \/ Straddled(s, t)
    \/ \E e \in Pending(p) : MarkerOf(e, s) /\ e.turn = t
    \/ /\ OpenTurnOf(p, s).task \in {0, t}
       /\ \A e \in Pending(p) : MarkerOf(e, s) => t < e.turn
MarkersKnown(p) ==
    /\ \A s \in Sessions : turnNo[s] > 0 /\ ~IsOpen(s) => MarkerKnown(p, s, turnNo[s])
    /\ \A e \in Pending(p) : e.kind = "post" =>
          MarkerKnown(p, Owner[e.who], callTurn[e.who])

TurnsInv(p) ==
    /\ ClaimsHeld(p) /\ HostTurns /\ NoneAhead(p) /\ LateWrites /\ Ordered(p)
    /\ Advancing(p) /\ MarkersKnown(p) /\ OwnTurn

(* Nothing is taken from or added to what is still to be drained.            *)
SameLines(p) ==
    /\ ing'[p].lines = ing[p].lines
    /\ Waiting(p)' = Waiting(p)
    /\ files'[Live].lines = files[Live].lines

-------------------------------------------------------------------------------
(* Types, and what keeps each part of the invariant.                         *)

LEMMA PendingTypes ==
  ASSUME LossInv, NEW p \in Ingesters
  PROVE  /\ ing[p].lines \in Seq(Entry) /\ Waiting(p) \in Seq(Entry)
         /\ files[Live].lines \in Seq(Entry)
         /\ Pending(p) \subseteq Entry
  <1>1. /\ ing[p].lines \in Seq(Entry) /\ files[Live].lines \in Seq(Entry)
        /\ ing[p].held \in Seq(ClaimName) /\ ing[p].next \in Nat \ {0}
    BY SystemTypes DEF LossInv
  <1>2. Waiting(p) \in Seq(Entry)
    <2>1. CASE ing[p].next <= Len(ing[p].held)
      <3>1. ing[p].held[Len(ing[p].held)] \in ClaimName
        BY <1>1, <2>1
      <3>2. files[ing[p].held[Len(ing[p].held)]].lines \in Seq(Entry)
        BY <3>1, SystemTypes DEF LossInv, Path
      <3> QED BY <3>2 DEF Waiting
    <2>2. CASE ~(ing[p].next <= Len(ing[p].held))
      BY <2>2 DEF Waiting
    <2> QED BY <2>1, <2>2
  <1>3. Remaining(p) \subseteq Entry
    BY <1>1 DEF Remaining
  <1>4. WaitingLines(p) \subseteq Entry
    BY <1>2 DEF WaitingLines
  <1>5. Lines(Live) \subseteq Entry
    BY <1>1 DEF Lines
  <1> QED BY <1>1, <1>2, <1>3, <1>4, <1>5 DEF Pending

LEMMA TurnTypes ==
  ASSUME LossInv, NEW p \in Ingesters
  PROVE  /\ \A e \in Entry : e.turn \in Nat
         /\ \A c \in Calls : callTurn[c] \in Nat /\ Owner[c] \in Sessions
         /\ \A s \in Sessions :
               /\ turnNo[s] \in Nat
               /\ OpenTurnOf(p, s).task \in Nat
               /\ turnFile[s].task \in Nat
               /\ ing[p].turns[s].task \in Nat
  <1>1. Task \subseteq Nat
    BY BoundAssumption DEF Task
  <1>2. \A e \in Entry : e.turn \in Nat
    BY <1>1 DEF Entry
  <1>3. \A c \in Calls : callTurn[c] \in Nat /\ Owner[c] \in Sessions
    BY <1>1, OwnerAssumption DEF LossInv, TypeOK
  <1>4. \A s \in Sessions : turnNo[s] \in Nat
    BY <1>1 DEF LossInv, TypeOK
  <1>5. \A s \in Sessions : turnFile[s] \in OpenTurn /\ ing[p].turns[s] \in OpenTurn
    <2>1. turnFile \in [Sessions -> OpenTurn] /\ ing[p] \in IngestState
      BY DEF LossInv, TypeOK
    <2>2. ing[p].turns \in [Sessions -> OpenTurn]
      BY <2>1 DEF IngestState
    <2> QED BY <2>1, <2>2
  <1>6. \A t \in OpenTurn : t.task \in Nat
    BY <1>1 DEF OpenTurn
  <1>7. \A s \in Sessions : OpenTurnOf(p, s) \in OpenTurn
    BY <1>5 DEF OpenTurnOf
  <1> QED BY <1>2, <1>3, <1>4, <1>5, <1>6, <1>7

LEMMA SamePending ==
  ASSUME NEW p, SameLines(p)
  PROVE  /\ Remaining(p)' = Remaining(p) /\ WaitingLines(p)' = WaitingLines(p)
         /\ Lines(Live)' = Lines(Live) /\ Pending(p)' = Pending(p)
  <1>1. Remaining(p)' = Remaining(p)
    BY DEF SameLines, Remaining
  <1>2. WaitingLines(p)' = WaitingLines(p)
    BY DEF SameLines, WaitingLines
  <1>3. Lines(Live)' = Lines(Live)
    BY DEF SameLines, Lines
  <1> QED BY <1>1, <1>2, <1>3 DEF Pending

LEMMA WaitingPath ==
  ASSUME LossInv, NEW p \in Ingesters, Waiting(p) # <<>>
  PROVE  /\ ing[p].held[Len(ing[p].held)] \in ClaimName
         /\ Waiting(p) = files[ing[p].held[Len(ing[p].held)]].lines
         /\ ing[p].pc \in {"list", "adopt", "drain"}
         /\ ing[p].next <= Len(ing[p].held)
  <1>1. ing[p].held \in Seq(ClaimName) /\ ing[p].next \in Nat \ {0}
    BY SystemTypes DEF LossInv
  <1>2. /\ ing[p].pc \in {"list", "adopt", "drain"} /\ ing[p].next <= Len(ing[p].held)
        /\ Waiting(p) = files[ing[p].held[Len(ing[p].held)]].lines
    BY DEF Waiting
  <1>3. ing[p].held[Len(ing[p].held)] \in ClaimName
    BY <1>1, <1>2
  <1> QED BY <1>2, <1>3

LEMMA PendingMade ==
  ASSUME LossInv, PostsMade, NEW p \in Ingesters
  PROVE  \A e \in Pending(p) : e.kind = "post" => e.who \in Calls /\ call[e.who] = "done"
  <1>1. \A e \in Remaining(p) \cup Lines(Live) : PostDone(e)
    BY DEF PostsMade, Path
  <1>2. \A e \in WaitingLines(p) : PostDone(e)
    <2> SUFFICES ASSUME NEW e \in WaitingLines(p) PROVE PostDone(e)
      OBVIOUS
    <2> DEFINE n == ing[p].held[Len(ing[p].held)]
    <2>1. Waiting(p) # <<>>
      BY DEF WaitingLines
    <2>2. n \in Path /\ Waiting(p) = files[n].lines
      BY <2>1, WaitingPath DEF Path
    <2>3. e \in Lines(n)
      BY <2>2 DEF WaitingLines, Lines
    <2> QED BY <2>2, <2>3 DEF PostsMade
  <1> QED BY <1>1, <1>2 DEF Pending, PostDone

(* Only a call not yet started is given a turn, and no line speaks of it.    *)
LEMMA SameTurns ==
  ASSUME LossInv, PostsMade, NEW p \in Ingesters,
         \A c \in Calls : call[c] = "done" => callTurn'[c] = callTurn[c]
  PROVE  /\ \A e \in Pending(p), s \in Sessions :
              OfSession(e, s) => TurnOf(e)' = TurnOf(e)
         /\ \A x, y \in Pending(p) : InOrder(x, y) => InOrder(x, y)'
  <1>1. \A e \in Pending(p), s \in Sessions : OfSession(e, s) => TurnOf(e)' = TurnOf(e)
    BY PendingMade DEF OfSession, MarkerOf, TurnOf
  <1>2. \A e, s : OfSession(e, s)' <=> OfSession(e, s)
    BY DEF OfSession, MarkerOf
  <1> QED BY <1>1, <1>2 DEF InOrder

LEMMA SameOrder ==
  ASSUME LossInv, PostsMade, NEW p \in Ingesters, SameLines(p), Ordered(p),
         \A c \in Calls : call[c] = "done" => callTurn'[c] = callTurn[c]
  PROVE  Ordered(p)'
  <1>1. \A x, y \in Pending(p) : InOrder(x, y) => InOrder(x, y)'
    BY SameTurns
  <1>2. Sorted(ing[p].lines)'
    BY <1>1 DEF SameLines, Ordered, Sorted, Pending, Remaining
  <1>3. Sorted(Waiting(p))'
    BY <1>1 DEF SameLines, Ordered, Sorted, Pending, WaitingLines
  <1>4. Sorted(files[Live].lines)'
    BY <1>1 DEF SameLines, Ordered, Sorted, Pending, Lines
  <1>5. /\ \A x \in Remaining(p), y \in WaitingLines(p) : InOrder(x, y)'
        /\ \A x \in Remaining(p) \cup WaitingLines(p), y \in Lines(Live) : InOrder(x, y)'
    BY <1>1 DEF Ordered, Pending
  <1> QED BY <1>2, <1>3, <1>4, <1>5, SamePending DEF Ordered

(* The steps of a drain between two lines: the turn that is open may expire, *)
(* and what the drain knows of the turns is read from the file or saved.     *)
LEMMA QuietTurns ==
  ASSUME LossInv, PostsMade, NEW p \in Ingesters, TurnsInv(p), Pending(p)' = Pending(p),
         UNCHANGED <<turnNo, call, callTurn, ledger>>, straddled \subseteq straddled',
         \A s \in Sessions : IsOpen(s)' = IsOpen(s) /\ handle'[s].entry = handle[s].entry,
         \A q \in Ingesters : IsOpen(q)' => handle'[q].entry.kind = "start",
         \A s \in Sessions : OpenTurnOf(p, s)' \in {OpenTurnOf(p, s), NoTurn},
         \A s \in Sessions : turnFile'[s] \in {turnFile[s], OpenTurnOf(p, s)'},
         \A s \in Sessions : ing'[p].turns[s] \in {ing[p].turns[s], turnFile[s], NoTurn}
  PROVE  HostTurns' /\ NoneAhead(p)' /\ Advancing(p)' /\ MarkersKnown(p)' /\ OwnTurn'
  <1>1. Pending(p)' = Pending(p) /\ NoTurn.task = 0
    BY DEF NoTurn
  <1>2. HostTurns'
    BY OwnerAssumption DEF TurnsInv, HostTurns, MarkerOf
  <1>3. \A s \in Sessions : turnFile'[s] \in {turnFile[s], OpenTurnOf(p, s), NoTurn}
    OBVIOUS
  <1>4. \A s \in Sessions : OpenTurnOf(p, s) \in {turnFile[s], ing[p].turns[s]}
    BY DEF OpenTurnOf
  <1>5. \A s \in Sessions : \A t \in {turnFile'[s].task, ing'[p].turns[s].task} :
          t \in {0, turnFile[s].task, ing[p].turns[s].task}
    BY <1>1, <1>3, <1>4
  <1>6. \A e, s : (OfSession(e, s)' <=> OfSession(e, s)) /\ (MarkerOf(e, s)' <=> MarkerOf(e, s))
                  /\ TurnOf(e)' = TurnOf(e)
    BY DEF OfSession, MarkerOf, TurnOf
  <1>7. NoneAhead(p)'
    <2> SUFFICES ASSUME NEW s \in Sessions
                 PROVE  /\ \A e \in Pending(p) : OfSession(e, s) =>
                            TurnOf(e) <= turnNo[s] /\ (IsOpen(s) => TurnOf(e) < turnNo[s])
                        /\ \A t \in {turnFile'[s].task, ing'[p].turns[s].task} :
                            t <= turnNo[s] /\ (IsOpen(s) => t < turnNo[s])
      BY <1>1, <1>6 DEF NoneAhead
    <2>1. \A t \in {turnFile[s].task, ing[p].turns[s].task} :
             t <= turnNo[s] /\ (IsOpen(s) => t < turnNo[s])
      BY DEF TurnsInv, NoneAhead
    <2>2. turnNo[s] \in Nat /\ turnFile[s].task \in Nat
      BY TurnTypes
    <2>3. 0 <= turnNo[s] /\ (IsOpen(s) => 0 < turnNo[s])
      BY <2>1, <2>2
    <2>4. \A t \in {turnFile'[s].task, ing'[p].turns[s].task} :
             t <= turnNo[s] /\ (IsOpen(s) => t < turnNo[s])
      BY <1>5, <2>1, <2>3
    <2> QED BY <2>4 DEF TurnsInv, NoneAhead
  <1>9. Advancing(p)'
    <2> SUFFICES ASSUME NEW s \in Sessions
                 PROVE  /\ \/ OpenTurnOf(p, s)' = NoTurn
                           \/ OpenTurnOf(p, s)'.task >= turnFile'[s].task
                        /\ \A e \in Pending(p) : MarkerOf(e, s) =>
                              turnFile'[s].task < e.turn /\ OpenTurnOf(p, s)'.task < e.turn
      BY <1>1, <1>6 DEF Advancing
    <2>1. /\ OpenTurnOf(p, s) = NoTurn \/ OpenTurnOf(p, s).task >= turnFile[s].task
          /\ \A e \in Pending(p) : MarkerOf(e, s) =>
                turnFile[s].task < e.turn /\ OpenTurnOf(p, s).task < e.turn
      BY DEF TurnsInv, Advancing
    <2>2. OpenTurnOf(p, s).task \in Nat /\ turnFile[s].task \in Nat
          /\ \A e \in Pending(p) : e.turn \in Nat
      BY TurnTypes, PendingTypes
    <2>3. OpenTurnOf(p, s)' = NoTurn \/ OpenTurnOf(p, s)'.task >= turnFile'[s].task
      BY <1>1, <2>1, <2>2
    <2>4. ASSUME NEW e \in Pending(p), MarkerOf(e, s)
          PROVE  turnFile'[s].task < e.turn /\ OpenTurnOf(p, s)'.task < e.turn
      <3>1. turnFile[s].task < e.turn /\ OpenTurnOf(p, s).task < e.turn /\ 0 < e.turn
        BY <2>1, <2>2, <2>4
      <3> QED BY <1>1, <1>3, <3>1
    <2> QED BY <2>3, <2>4
  <1>10. \A s, t : s \in Sessions /\ MarkerKnown(p, s, t) => MarkerKnown(p, s, t)'
    BY <1>1, <1>6 DEF MarkerKnown, Straddled
  <1>11. MarkersKnown(p)'
    <2>1. \A e \in Pending(p) : e.kind = "post" => Owner[e.who] \in Sessions
      BY PendingMade, OwnerAssumption
    <2> QED BY <1>1, <1>10, <2>1 DEF TurnsInv, MarkersKnown
  <1>12. OwnTurn'
    BY DEF TurnsInv, OwnTurn
  <1> QED BY <1>2, <1>7, <1>9, <1>11, <1>12

LEMMA SameLate ==
  ASSUME LateWrites, UNCHANGED callTurn, Lines(Live)' \subseteq Lines(Live),
         \A w \in Writer : handle'[w].path \in ClaimName => handle[w].path \in ClaimName
  PROVE  LateWrites'
  <1>1. \A e, s : (OfSession(e, s)' <=> OfSession(e, s)) /\ TurnOf(e)' = TurnOf(e)
    BY DEF OfSession, MarkerOf, TurnOf
  <1> QED BY <1>1 DEF LateWrites, Writer

-------------------------------------------------------------------------------
(* The steps of a drain between its lines.                                   *)

LEMMA BetweenStep ==
  ASSUME LossInv, PostsMade, NEW p \in Ingesters, TurnsInv(p),
         \/ ListClaims(p) \/ NothingToDrain(p) \/ ReadTurns(p) \/ WriteRejected(p)
         \/ SaveTurns(p) \/ (Claim(p) /\ ing' = [ing EXCEPT ![p].pc = "list"]
                                      /\ UNCHANGED <<files, handle, straddled>>)
  PROVE  TurnsInv(p)'
  <1> USE DEF hostVars, diskVars, sinkVars, histVars
  <1> DEFINE Advanced ==
               /\ \A s \in Sessions : OpenTurnOf(p, s)' \in {OpenTurnOf(p, s), NoTurn}
               /\ \A s \in Sessions : turnFile'[s] \in {turnFile[s], OpenTurnOf(p, s)'}
               /\ \A s \in Sessions :
                    ing'[p].turns[s] \in {ing[p].turns[s], turnFile[s], NoTurn}
  <1>0. /\ ing \in [Ingesters -> IngestState] /\ ing[p] \in IngestState
        /\ turnFile \in [Sessions -> OpenTurn] /\ ing[p].turns \in [Sessions -> OpenTurn]
        /\ ing[p].next \in Nat \ {0} /\ ing[p].held \in Seq(ClaimName)
    BY SystemTypes DEF LossInv, TypeOK, IngestState
  <1>1. UNCHANGED <<turnNo, call, callTurn, ledger, files, handle, straddled>>
    BY DEF ListClaims, NothingToDrain, ReadTurns, WriteRejected, SaveTurns, Claim
  <1>2. ClaimsHeld(p) /\ FilesOK
    BY DEF TurnsInv, LossInv
  <1>3. SameLines(p) /\ ClaimsHeld(p)' /\ Advanced
    <2>1. CASE ListClaims(p)
      <3>1. /\ ing[p].pc = "list" /\ ing'[p].pc = "adopt" /\ ing'[p].lines = ing[p].lines
            /\ ing'[p].held = ing[p].held /\ ing'[p].next = ing[p].next
            /\ ing'[p].turns = ing[p].turns /\ turnFile' = turnFile
        BY <1>0, <2>1 DEF ListClaims, At, IngestState
      <3>2. SameLines(p)
        BY <1>1, <3>1 DEF SameLines, Waiting
      <3>3. ClaimsHeld(p)'
        BY <1>1, <1>2, <3>1 DEF ClaimsHeld
      <3> QED BY <3>1, <3>2, <3>3 DEF OpenTurnOf
    <2>2. CASE NothingToDrain(p)
      <3>1. /\ ing[p].pc = "adopt" /\ ing[p].held = <<>> /\ ing'[p] = Idle
            /\ turnFile' = turnFile
        BY <1>0, <2>2 DEF NothingToDrain, At
      <3>2. ing[p].lines = <<>>
        BY <1>2, <3>1 DEF ClaimsHeld
      <3>3. SameLines(p)
        BY <1>0, <1>1, <3>1, <3>2 DEF SameLines, Waiting, Idle
      <3>4. ClaimsHeld(p)'
        BY <1>1, <1>2, <3>1 DEF ClaimsHeld, Idle
      <3> QED BY <3>1, <3>3, <3>4 DEF OpenTurnOf, Idle
    <2>3. CASE ReadTurns(p)
      <3>1. /\ ing[p].pc = "adopt" /\ ing'[p].pc = "drain" /\ ing'[p].lines = ing[p].lines
            /\ ing'[p].held = ing[p].held /\ ing'[p].next = ing[p].next
            /\ ing'[p].turns = Current(turnFile) /\ turnFile' = turnFile
        BY <1>0, <2>3 DEF ReadTurns, At, IngestState
      <3>2. SameLines(p)
        BY <1>1, <3>1 DEF SameLines, Waiting
      <3>3. ClaimsHeld(p)'
        BY <1>1, <1>2, <3>1 DEF ClaimsHeld
      <3>4. \A s \in Sessions : Current(turnFile)[s] \in {turnFile[s], NoTurn}
        BY DEF Current
      <3> QED BY <3>1, <3>2, <3>3, <3>4 DEF OpenTurnOf
    <2>4. CASE WriteRejected(p)
      <3>1. /\ ing[p].pc = "drain" /\ ing'[p].pc = "remove" /\ ing[p].lines = <<>>
            /\ ing'[p].lines = <<>> /\ ing'[p].held = ing[p].held
            /\ ing[p].next > Len(ing[p].held)
            /\ ing'[p].turns = ing[p].turns /\ turnFile' = turnFile
        BY <1>0, <2>4 DEF WriteRejected, At, IngestState
      <3>2. SameLines(p)
        BY <1>0, <1>1, <3>1 DEF SameLines, Waiting
      <3>3. ClaimsHeld(p)'
        BY <1>1, <1>2, <3>1 DEF ClaimsHeld
      <3> QED BY <3>1, <3>2, <3>3 DEF OpenTurnOf
    <2>5. CASE SaveTurns(p)
      <3>1. /\ ing[p].pc = "carry" /\ ing'[p] = Idle /\ turnFile' = Current(ing[p].turns)
        BY <1>0, <2>5 DEF SaveTurns, At
      <3>2. ing[p].lines = <<>>
        BY <1>2, <3>1 DEF ClaimsHeld
      <3>3. SameLines(p)
        BY <1>1, <3>1, <3>2 DEF SameLines, Waiting, Idle
      <3>4. ClaimsHeld(p)'
        BY <1>1, <1>2, <3>1 DEF ClaimsHeld, Idle
      <3>5. \A s \in Sessions : Current(ing[p].turns)[s] \in {ing[p].turns[s], NoTurn}
        BY DEF Current
      <3> QED BY <3>1, <3>3, <3>4, <3>5 DEF OpenTurnOf, Idle
    <2>6. CASE Claim(p) /\ ing' = [ing EXCEPT ![p].pc = "list"]
      <3>1. /\ ing[p].pc = "idle" /\ ing'[p].pc = "list" /\ ing'[p].lines = ing[p].lines
            /\ ing'[p].held = ing[p].held /\ ing'[p].next = ing[p].next
            /\ ing'[p].turns = ing[p].turns /\ turnFile' = turnFile
        BY <1>0, <2>6 DEF Claim, At, IngestState
      <3>2. \A n \in ClaimName : ~files[n].exists /\ files[n].lines = <<>>
        BY <1>2, <3>1 DEF ClaimsHeld, FilesOK, Path
      <3>3. Waiting(p)' = <<>>
        <4>1. CASE ing[p].next <= Len(ing[p].held)
          <5>1. ing[p].held[Len(ing[p].held)] \in ClaimName
            BY <1>0, <4>1
          <5> QED BY <1>1, <3>1, <3>2, <5>1 DEF Waiting
        <4>2. CASE ~(ing[p].next <= Len(ing[p].held))
          BY <3>1, <4>2 DEF Waiting
        <4> QED BY <4>1, <4>2
      <3>4. SameLines(p)
        BY <1>1, <3>1, <3>3 DEF SameLines, Waiting
      <3>5. ClaimsHeld(p)'
        BY <1>1, <1>2, <3>1, <3>2 DEF ClaimsHeld
      <3> QED BY <3>1, <3>4, <3>5 DEF OpenTurnOf
    <2> HIDE DEF Advanced
    <2> QED BY <2>1, <2>2, <2>3, <2>4, <2>5, <2>6
  <1>4. /\ \A s \in Sessions : IsOpen(s)' = IsOpen(s) /\ handle'[s].entry = handle[s].entry
        /\ \A q \in Ingesters : IsOpen(q)' => handle'[q].entry.kind = "start"
    BY <1>1 DEF IsOpen, TurnsInv, HostTurns
  <1>5. HostTurns' /\ NoneAhead(p)' /\ Advancing(p)' /\ MarkersKnown(p)' /\ OwnTurn'
    BY <1>1, <1>3, <1>4, SamePending, QuietTurns
  <1>6. LateWrites'
    BY <1>1, SameLate DEF TurnsInv, Lines
  <1>7. Ordered(p)'
    BY <1>1, <1>3, SameOrder DEF TurnsInv
  <1> QED BY <1>3, <1>5, <1>6, <1>7 DEF TurnsInv

(* Unlinking a claim, or putting a start back.                               *)
LEMMA TidyStep ==
  ASSUME LossInv, PostsMade, NEW p \in Ingesters, Ingesters = {p}, TurnsInv(p),
         RemoveClaim(p) \/ CarryOpen(p)
  PROVE  TurnsInv(p)'
  <1> USE DEF hostVars, diskVars, sinkVars, histVars
  <1>0. /\ ing \in [Ingesters -> IngestState] /\ ing[p] \in IngestState
        /\ ing[p].next \in Nat \ {0} /\ ing[p].held \in Seq(ClaimName)
        /\ Live \in Path /\ Live \notin ClaimName
    BY SystemTypes DEF LossInv, TypeOK
  <1>1. UNCHANGED <<turnNo, call, callTurn, ledger, straddled, turnFile>>
    BY DEF RemoveClaim, CarryOpen
  <1>2. ClaimsHeld(p) /\ FilesOK /\ TypeOK
    BY DEF TurnsInv, LossInv
  <1>3. /\ ing'[p].lines = ing[p].lines /\ ing'[p].held = ing[p].held
        /\ ing'[p].turns = ing[p].turns
        /\ ing[p].pc \in {"remove", "carry"} /\ ing'[p].pc \in {"remove", "carry"}
        /\ ing[p].pc = "carry" => ing'[p].pc = "carry"
    <2>1. CASE RemoveClaim(p) /\ ing[p].next < Len(ing[p].held)
      BY <1>0, <2>1 DEF RemoveClaim, At, IngestState
    <2>2. CASE RemoveClaim(p) /\ ~(ing[p].next < Len(ing[p].held))
      BY <1>0, <2>2 DEF RemoveClaim, At, IngestState
    <2>3. CASE CarryOpen(p)
      BY <1>0, <2>3 DEF CarryOpen, At, IngestState
    <2> QED BY <2>1, <2>2, <2>3
  <1>4. /\ files'[Live].lines = files[Live].lines
        /\ \A n \in ClaimName : files'[n].exists => files[n].exists
        /\ RemoveClaim(p) /\ ing'[p].pc = "carry" => \A n \in ClaimName : ~files'[n].exists
    <2>1. CASE RemoveClaim(p)
      <3> DEFINE n == ing[p].held[ing[p].next]
      <3>1. n \in ClaimName
        BY <1>0, <2>1 DEF RemoveClaim
      <3>2. \A q \in Path : files'[q] = IF q = n THEN NoFile ELSE files[q]
        BY <1>2, <2>1, <3>1 DEF RemoveClaim, TypeOK
      <3>3. \A q \in ClaimName : q \in Path
        BY DEF Path
      <3>4. ASSUME ing'[p].pc = "carry" PROVE n = ing[p].held[Len(ing[p].held)]
        <4>1. ~(ing[p].next < Len(ing[p].held))
          BY <1>0, <2>1, <3>4 DEF RemoveClaim, At, IngestState
        <4> QED BY <1>0, <2>1, <4>1 DEF RemoveClaim
      <3> HIDE DEF n
      <3>5. ing'[p].pc = "carry" => \A q \in ClaimName : ~files'[q].exists
        BY <1>2, <1>3, <2>1, <3>2, <3>3, <3>4 DEF ClaimsHeld, NoFile, RemoveClaim, At
      <3> QED BY <1>0, <3>1, <3>2, <3>3, <3>5 DEF NoFile
    <2>2. CASE CarryOpen(p)
      <3>1. \A q \in Path : files'[q].lines = files[q].lines
        BY <1>2, <2>2 DEF CarryOpen, Open, TypeOK, FilesOK
      <3>2. \A q \in ClaimName : q \in Path /\ files'[q] = files[q]
        BY <1>0, <1>2, <2>2 DEF CarryOpen, Open, TypeOK, Path
      <3>3. ~RemoveClaim(p)
        BY <2>2 DEF CarryOpen, RemoveClaim, At
      <3> QED BY <1>0, <3>1, <3>2, <3>3
    <2> QED BY <2>1, <2>2
  <1>5. SameLines(p)
    BY <1>3, <1>4 DEF SameLines, Waiting
  <1>6. ClaimsHeld(p)'
    <2>1. CASE RemoveClaim(p)
      BY <1>2, <1>3, <1>4, <2>1 DEF ClaimsHeld, RemoveClaim, At
    <2>2. CASE CarryOpen(p)
      BY <1>2, <1>3, <1>4, <2>2 DEF ClaimsHeld, CarryOpen, At
    <2> QED BY <2>1, <2>2
  <1>7. /\ \A s \in Sessions : IsOpen(s)' = IsOpen(s) /\ handle'[s].entry = handle[s].entry
        /\ IsOpen(p)' => handle'[p].entry.kind = "start"
        /\ \A w \in Writer : handle'[w].path \in ClaimName => handle[w].path \in ClaimName
    <2>1. CASE RemoveClaim(p)
      <3>1. /\ ing[p].held[ing[p].next] \in ClaimName
            /\ \A w \in Writer : /\ handle'[w].entry = handle[w].entry
                                 /\ handle'[w].path =
                                      IF handle[w].path = ing[p].held[ing[p].next]
                                      THEN Gone ELSE handle[w].path
        BY <1>2, <2>1, RemoveDisk
      <3>2. \A w \in Writer : IsOpen(w)' = IsOpen(w)
        BY <3>1, NameAssumption DEF IsOpen, Gone, Shut
      <3> QED BY <3>1, <3>2, NameAssumption DEF Writer, TurnsInv, HostTurns
    <2>2. CASE CarryOpen(p)
      <3>1. PICK e \in ing[p].unfinished : Open(p, e)
        BY <2>2 DEF CarryOpen
      <3>2. e.kind = "start"
        BY <3>1 DEF PostsMade
      <3>3. \A w \in Writer : handle'[w] = IF w = p THEN [path |-> Live, entry |-> e]
                                           ELSE handle[w]
        BY <1>2, <3>1 DEF Open, TypeOK
      <3>4. \A s \in Sessions : s # p /\ s \in Writer
        BY WriterAssumption DEF Writer
      <3> QED BY <1>0, <3>2, <3>3, <3>4 DEF IsOpen, Writer
    <2> QED BY <2>1, <2>2
  <1>8. HostTurns' /\ NoneAhead(p)' /\ Advancing(p)' /\ MarkersKnown(p)' /\ OwnTurn'
    <2>1. \A s \in Sessions : OpenTurnOf(p, s)' = OpenTurnOf(p, s)
      BY <1>3 DEF OpenTurnOf
    <2> QED BY <1>1, <1>3, <1>5, <1>7, <2>1, SamePending, QuietTurns
  <1>9. LateWrites'
    BY <1>1, <1>5, <1>7, SamePending, SameLate DEF TurnsInv
  <1>10. Ordered(p)'
    BY <1>1, <1>5, SameOrder DEF TurnsInv
  <1> QED BY <1>6, <1>8, <1>9, <1>10 DEF TurnsInv

-------------------------------------------------------------------------------
(* The steps that move lines: a rename, the reading of a claim.              *)

LEMMA RenamedLines ==
  ASSUME TypeOK, FilesOK, NEW from \in Path, NEW to \in FreshNames, files[from].exists,
         RenameTo(from, to)
  PROVE  /\ \A q \in Path : files'[q] = IF q = from THEN NoFile
                                        ELSE IF q = to THEN files[from] ELSE files[q]
         /\ to \in Path /\ to \in ClaimName /\ to # from
         /\ \A w \in Writer : /\ IsOpen(w)' = IsOpen(w)
                              /\ handle'[w].entry = handle[w].entry
                              /\ handle'[w].path = IF handle[w].path = from
                                                   THEN to ELSE handle[w].path
  <1>1. to \in Path /\ to # from /\ to \in ClaimName
    BY DEF FreshNames, Path
  <1>2. \A q \in Path : files'[q] = IF q = from THEN NoFile
                                    ELSE IF q = to THEN files[from] ELSE files[q]
    BY <1>1 DEF RenameTo, TypeOK
  <1>3. \A w \in Writer : /\ handle'[w].entry = handle[w].entry
                          /\ handle'[w].path = IF handle[w].path = from
                                               THEN to ELSE handle[w].path
    BY RenameDisk
  <1>4. from # Shut /\ to # Shut
    BY <1>1, SystemTypes
  <1>5. \A w \in Writer : IsOpen(w)' = IsOpen(w)
    BY <1>3, <1>4 DEF IsOpen
  <1> QED BY <1>1, <1>2, <1>3, <1>5

LEMMA ClaimTurns ==
  ASSUME LossInv, PostsMade, NEW p \in Ingesters, TurnsInv(p), Claim(p)
  PROVE  TurnsInv(p)'
  <1> USE DEF hostVars, diskVars, sinkVars, histVars
  <1> DEFINE n == NewName
  <1>0. /\ ing \in [Ingesters -> IngestState] /\ ing[p] \in IngestState
        /\ TypeOK /\ FilesOK /\ ClaimsHeld(p) /\ ing[p].next = 1 /\ ing[p].pc = "idle"
        /\ Live \in Path /\ Live \notin ClaimName
    BY SystemTypes DEF LossInv, TypeOK, TurnsInv, DrainsOK, DrainOK, Claim, At
  <1>1. CASE ing' = [ing EXCEPT ![p].pc = "list"] /\ UNCHANGED <<files, handle, straddled>>
    BY <1>1, BetweenStep
  <1>2. CASE /\ files[Live].exists /\ FreshNames # {} /\ RenameTo(Live, NewName)
             /\ ing' = [ing EXCEPT ![p].pc = "list", ![p].held = <<NewName>>]
             /\ straddled \subseteq straddled'
    <2>1. n \in FreshNames
      BY <1>2, NewNameType
    <2>2. /\ \A q \in Path : files'[q] = IF q = Live THEN NoFile
                                         ELSE IF q = n THEN files[Live] ELSE files[q]
          /\ n \in Path /\ n \in ClaimName /\ n # Live
          /\ \A w \in Writer : /\ IsOpen(w)' = IsOpen(w)
                               /\ handle'[w].entry = handle[w].entry
      BY <1>0, <1>2, <2>1, RenamedLines
    <2> HIDE DEF n
    <2>3. /\ ing'[p].pc = "list" /\ ing'[p].held = <<n>> /\ ing'[p].next = 1
          /\ ing'[p].lines = <<>> /\ ing[p].lines = <<>> /\ ing'[p].turns = ing[p].turns
      BY <1>0, <1>2 DEF IngestState, ClaimsHeld, n
    <2>4. /\ Waiting(p) = <<>> /\ Waiting(p)' = files[Live].lines
          /\ files'[Live].lines = <<>>
      BY <1>0, <2>2, <2>3 DEF Waiting, NoFile
    <2>5. /\ Remaining(p) = {} /\ Remaining(p)' = {} /\ WaitingLines(p) = {}
          /\ WaitingLines(p)' = Lines(Live) /\ Lines(Live)' = {}
      BY <2>3, <2>4 DEF Remaining, WaitingLines, Lines
    <2>6. Pending(p)' = Pending(p)
      BY <2>5 DEF Pending
    <2>7. UNCHANGED <<turnNo, call, callTurn, ledger, turnFile>>
      BY DEF Claim
    <2>8. ClaimsHeld(p)'
      <3>1. \A q \in ClaimName : files'[q].exists => q = n
        BY <1>0, <2>2 DEF ClaimsHeld, Path, NoFile
      <3> QED BY <2>3, <3>1 DEF ClaimsHeld
    <2>9. Ordered(p)'
      <3>1. \A x, y \in Pending(p) : InOrder(x, y) => InOrder(x, y)'
        BY <2>7, SameTurns
      <3>2. Sorted(ing[p].lines)' /\ Sorted(files[Live].lines)'
        BY <2>3, <2>4 DEF Sorted
      <3>3. Sorted(Waiting(p))'
        BY <2>4, <3>1 DEF TurnsInv, Ordered, Sorted, Pending, Lines
      <3> QED BY <2>5, <3>2, <3>3 DEF Ordered
    <2>10. LateWrites'
      BY <2>5 DEF LateWrites
    <2>11. \A s \in Sessions : OpenTurnOf(p, s)' = OpenTurnOf(p, s)
      BY <1>0, <2>3, <2>7 DEF OpenTurnOf
    <2>12. HostTurns' /\ NoneAhead(p)' /\ Advancing(p)' /\ MarkersKnown(p)' /\ OwnTurn'
      <3>1. /\ \A s \in Sessions : IsOpen(s)' = IsOpen(s) /\ handle'[s].entry = handle[s].entry
            /\ \A q \in Ingesters : IsOpen(q)' => handle'[q].entry.kind = "start"
        BY <2>2 DEF Writer, TurnsInv, HostTurns
      <3> QED BY <1>2, <2>3, <2>6, <2>7, <2>11, <3>1, QuietTurns
    <2> QED BY <2>8, <2>9, <2>10, <2>12 DEF TurnsInv
  <1> QED BY <1>1, <1>2 DEF Claim

(* With one drain at a time, what it adopts is the claim it holds.           *)
LEMMA AdoptTurns ==
  ASSUME LossInv, PostsMade, NEW p \in Ingesters, TurnsInv(p), NEW m \in ClaimName, Adopt(p, m)
  PROVE  TurnsInv(p)'
  <1> USE DEF hostVars, diskVars, sinkVars, histVars
  <1> DEFINE n == NewName
             held == ing[p].held
  <1>0. /\ ing \in [Ingesters -> IngestState] /\ ing[p] \in IngestState
        /\ TypeOK /\ FilesOK /\ ClaimsHeld(p) /\ ing[p].next = 1 /\ ing[p].pc = "adopt"
        /\ Live \in Path /\ Live \notin ClaimName /\ m \in Path
        /\ ing[p].held \in Seq(ClaimName)
    BY SystemTypes DEF LossInv, TypeOK, TurnsInv, DrainsOK, DrainOK, Adopt, At, Path
  <1>1. UNCHANGED <<turnNo, call, callTurn, ledger, turnFile, straddled>>
    BY DEF Adopt
  <1>2. /\ SameLines(p) /\ ClaimsHeld(p)' /\ ing'[p].pc = "adopt" /\ ing'[p].turns = ing[p].turns
        /\ \A w \in Writer : /\ IsOpen(w)' = IsOpen(w)
                             /\ handle'[w].entry = handle[w].entry
                             /\ handle'[w].path \in ClaimName => handle[w].path \in ClaimName
    <2>1. CASE Stale(p, m) /\ adoptions < MaxAdoptions
      <3>1. /\ FreshNames # {} /\ RenameTo(m, n) /\ files[m].exists
            /\ ing' = [ing EXCEPT ![p].todo = @ \ {m}, ![p].held = Append(@, n)]
        BY <2>1 DEF Adopt, Stale
      <3>2. n \in FreshNames
        BY <3>1, NewNameType
      <3>3. /\ \A q \in Path : files'[q] = IF q = m THEN NoFile
                                           ELSE IF q = n THEN files[m] ELSE files[q]
            /\ n \in Path /\ n \in ClaimName /\ n # m
            /\ \A w \in Writer : /\ IsOpen(w)' = IsOpen(w)
                                 /\ handle'[w].entry = handle[w].entry
                                 /\ handle'[w].path = IF handle[w].path = m
                                                      THEN n ELSE handle[w].path
        BY <1>0, <3>1, <3>2, RenamedLines
      <3>4. \A k \in 1 .. Len(held) : held[k] # n
        BY <3>2 DEF FreshNames, Held
      <3> HIDE DEF n
      <3>5. /\ ing'[p].pc = "adopt" /\ ing'[p].held = Append(held, n) /\ ing'[p].next = 1
            /\ ing'[p].lines = ing[p].lines /\ ing'[p].turns = ing[p].turns
        BY <1>0, <3>1 DEF IngestState
      <3>6. held # <<>> /\ m = held[Len(held)]
        BY <1>0, <3>1 DEF ClaimsHeld
      <3>7. /\ Len(ing'[p].held) = Len(held) + 1
            /\ ing'[p].held[Len(held) + 1] = n
            /\ \A k \in 1 .. Len(held) : ing'[p].held[k] = held[k]
            /\ Len(held) \in Nat /\ 1 <= Len(held)
        BY <1>0, <3>3, <3>5, <3>6
      <3>8. Waiting(p)' = Waiting(p)
        <4>1. Waiting(p) = files[m].lines
          BY <1>0, <3>6, <3>7 DEF Waiting
        <4>2. Waiting(p)' = files'[n].lines
          BY <3>5, <3>7 DEF Waiting
        <4> QED BY <3>3, <4>1, <4>2
      <3>9. SameLines(p)
        BY <1>0, <3>3, <3>5, <3>8 DEF SameLines
      <3>10. \A q \in ClaimName : files'[q].exists => q = n
        BY <1>0, <3>3, <3>6 DEF ClaimsHeld, Path, NoFile
      <3>11. ClaimsHeld(p)'
        <4>1. ing[p].lines = <<>>
          BY <1>0 DEF ClaimsHeld
        <4>2. ing'[p].held # <<>>
          BY <3>7
        <4> QED BY <3>4, <3>5, <3>7, <3>10, <4>1, <4>2 DEF ClaimsHeld
      <3> QED BY <1>0, <3>3, <3>5, <3>9, <3>11
    <2>2. CASE ~(Stale(p, m) /\ adoptions < MaxAdoptions)
      <3>1. /\ ing' = [ing EXCEPT ![p].todo = @ \ {m}] /\ UNCHANGED <<files, handle>>
        BY <2>2 DEF Adopt
      <3>2. /\ ing'[p].pc = "adopt" /\ ing'[p].held = ing[p].held /\ ing'[p].next = ing[p].next
            /\ ing'[p].lines = ing[p].lines /\ ing'[p].turns = ing[p].turns
        BY <1>0, <3>1 DEF IngestState
      <3>3. SameLines(p)
        BY <1>0, <3>1, <3>2 DEF SameLines, Waiting
      <3>4. ClaimsHeld(p)'
        BY <1>0, <3>1, <3>2 DEF ClaimsHeld
      <3> QED BY <3>1, <3>2, <3>3, <3>4 DEF IsOpen
    <2> QED BY <2>1, <2>2
  <1>3. Ordered(p)'
    BY <1>1, <1>2, SameOrder DEF TurnsInv
  <1>4. LateWrites'
    BY <1>1, <1>2, SamePending, SameLate DEF TurnsInv
  <1>5. \A s \in Sessions : OpenTurnOf(p, s)' = OpenTurnOf(p, s)
    BY <1>0, <1>1, <1>2 DEF OpenTurnOf
  <1>6. HostTurns' /\ NoneAhead(p)' /\ Advancing(p)' /\ MarkersKnown(p)' /\ OwnTurn'
    <2>1. /\ \A s \in Sessions : IsOpen(s)' = IsOpen(s) /\ handle'[s].entry = handle[s].entry
          /\ \A q \in Ingesters : IsOpen(q)' => handle'[q].entry.kind = "start"
      BY <1>2 DEF Writer, TurnsInv, HostTurns
    <2> QED BY <1>1, <1>2, <1>5, <2>1, SamePending, QuietTurns
  <1> QED BY <1>2, <1>3, <1>4, <1>6 DEF TurnsInv

LEMMA ReadTurnsOf ==
  ASSUME LossInv, PostsMade, NEW p \in Ingesters, TurnsInv(p), ReadClaim(p)
  PROVE  TurnsInv(p)'
  <1> USE DEF hostVars, diskVars, sinkVars, histVars
  <1> DEFINE held == ing[p].held
             k == ing[p].next
  <1>0. /\ ing \in [Ingesters -> IngestState] /\ ing[p] \in IngestState
        /\ TypeOK /\ FilesOK /\ ClaimsHeld(p) /\ Live \in Path
        /\ held \in Seq(ClaimName) /\ k \in Nat \ {0}
        /\ ing[p].pc = "drain" /\ k <= Len(held) /\ ing[p].lines = <<>>
    BY SystemTypes DEF LossInv, TypeOK, TurnsInv, ReadClaim, At
  <1>1. UNCHANGED <<turnNo, call, callTurn, ledger, turnFile, straddled, files, handle>>
    BY DEF ReadClaim
  <1>2. /\ ing'[p].pc = "drain" /\ ing'[p].held = held /\ ing'[p].next = k + 1
        /\ ing'[p].lines = files[held[k]].lines /\ ing'[p].turns = ing[p].turns
    BY <1>0 DEF ReadClaim, IngestState
  <1>3. Pending(p)' = Pending(p) /\ Ordered(p)'
    <2>1. CASE k = Len(held)
      <3>1. Waiting(p) = files[held[k]].lines /\ Waiting(p)' = <<>>
        BY <1>0, <1>2, <2>1 DEF Waiting
      <3>2. /\ Remaining(p) = {} /\ Remaining(p)' = WaitingLines(p) /\ WaitingLines(p)' = {}
            /\ Lines(Live)' = Lines(Live)
        BY <1>0, <1>1, <1>2, <3>1 DEF Remaining, WaitingLines, Lines
      <3>3. Pending(p)' = Pending(p)
        BY <3>2 DEF Pending
      <3>4. \A x, y \in Pending(p) : InOrder(x, y) => InOrder(x, y)'
        BY <1>1, SameTurns
      <3>5. Sorted(ing[p].lines)'
        BY <1>2, <3>1, <3>4 DEF TurnsInv, Ordered, Sorted, Pending, WaitingLines
      <3>6. Sorted(Waiting(p))'
        BY <3>1 DEF Sorted
      <3>7. Sorted(files[Live].lines)'
        <4>1. /\ \A x, y \in Lines(Live) : InOrder(x, y) => InOrder(x, y)'
              /\ Sorted(files[Live].lines) /\ files'[Live].lines = files[Live].lines
          BY <1>1, <3>4 DEF TurnsInv, Ordered, Pending
        <4> QED BY <4>1 DEF Sorted, Lines
      <3>8. \A x \in WaitingLines(p), y \in Lines(Live) : InOrder(x, y)'
        BY <3>4 DEF TurnsInv, Ordered, Pending
      <3> QED BY <3>2, <3>3, <3>5, <3>6, <3>7, <3>8 DEF Ordered
    <2>2. CASE k # Len(held)
      <3>1. k \in 1 .. Len(held) - 1 /\ k + 1 <= Len(held) /\ held[k] \in ClaimName
        BY <1>0, <2>2
      <3>2. held[k] # held[Len(held)]
        BY <1>0, <3>1 DEF ClaimsHeld
      <3>3. ~files[held[k]].exists
        BY <1>0, <3>1, <3>2 DEF ClaimsHeld
      <3>4. files[held[k]].lines = <<>>
        BY <1>0, <3>1, <3>3 DEF FilesOK, Path
      <3>5. Waiting(p)' = Waiting(p)
        BY <1>0, <1>1, <1>2, <3>1 DEF Waiting
      <3>6. SameLines(p)
        BY <1>0, <1>1, <1>2, <3>4, <3>5 DEF SameLines
      <3> QED BY <1>1, <3>6, SamePending, SameOrder DEF TurnsInv
    <2> QED BY <2>1, <2>2
  <1>4. ClaimsHeld(p)'
    BY <1>0, <1>1, <1>2 DEF ClaimsHeld
  <1>5. LateWrites'
    BY <1>1, SameLate DEF TurnsInv, Lines
  <1>6. \A s \in Sessions : OpenTurnOf(p, s)' = OpenTurnOf(p, s)
    BY <1>0, <1>2 DEF OpenTurnOf
  <1>7. HostTurns' /\ NoneAhead(p)' /\ Advancing(p)' /\ MarkersKnown(p)' /\ OwnTurn'
    <2>1. /\ \A s \in Sessions : IsOpen(s)' = IsOpen(s) /\ handle'[s].entry = handle[s].entry
          /\ \A q \in Ingesters : IsOpen(q)' => handle'[q].entry.kind = "start"
      BY <1>1 DEF IsOpen, TurnsInv, HostTurns
    <2> QED BY <1>1, <1>2, <1>3, <1>6, <2>1, QuietTurns
  <1> QED BY <1>3, <1>4, <1>5, <1>7 DEF TurnsInv

-------------------------------------------------------------------------------
(* One line drained: it is the first of all that are pending.                *)

LEMMA HeadFirst ==
  ASSUME LossInv, NEW p \in Ingesters, Ordered(p), NEW e, ing[p].lines # <<>>,
         e = Head(ing[p].lines), ing'[p].lines = Tail(ing[p].lines),
         Waiting(p)' = Waiting(p), files' = files
  PROVE  /\ e \in Pending(p) /\ Pending(p)' \subseteq Pending(p)
         /\ \A x \in Pending(p) : x = e \/ x \in Pending(p)'
         /\ \A y \in Pending(p)' : InOrder(e, y)
         /\ Remaining(p)' \subseteq Remaining(p) /\ WaitingLines(p)' = WaitingLines(p)
         /\ Lines(Live)' = Lines(Live) /\ Sorted(Tail(ing[p].lines))
  <1> DEFINE q == ing[p].lines
  <1>1. /\ q \in Seq(Entry) /\ q # <<>> /\ Len(q) \in Nat /\ 1 \in 1 .. Len(q) /\ e = q[1]
        /\ Len(Tail(q)) = Len(q) - 1 /\ \A i \in 1 .. Len(Tail(q)) : Tail(q)[i] = q[i + 1]
    BY SystemTypes DEF LossInv
  <1>2. e \in Remaining(p)
    BY <1>1 DEF Remaining
  <1>3. Remaining(p)' = {Tail(q)[i] : i \in 1 .. Len(Tail(q))}
    BY DEF Remaining
  <1>4. Remaining(p)' \subseteq Remaining(p)
    BY <1>1, <1>3, TailWithin DEF Remaining
  <1>5. \A x \in Remaining(p) : x = e \/ x \in Remaining(p)'
    BY <1>1, <1>3, TailElements DEF Remaining
  <1>6. \A i \in 1 .. Len(Tail(q)) : i + 1 \in 1 .. Len(q) /\ 1 < i + 1
    BY <1>1
  <1>7. Sorted(q)
    BY DEF Ordered
  <1> HIDE DEF q
  <1>8. \A y \in Remaining(p)' : InOrder(e, y)
    <2> SUFFICES ASSUME NEW i \in 1 .. Len(Tail(q)) PROVE InOrder(e, Tail(q)[i])
      BY <1>3
    <2> QED BY <1>1, <1>6, <1>7 DEF Sorted
  <1>9. Sorted(Tail(q))
    <2> SUFFICES ASSUME NEW i \in 1 .. Len(Tail(q)), NEW j \in 1 .. Len(Tail(q)), i < j
                 PROVE  InOrder(q[i + 1], q[j + 1])
      BY <1>1 DEF Sorted
    <2>1. i + 1 < j + 1
      OBVIOUS
    <2> QED BY <1>6, <1>7, <2>1 DEF Sorted
  <1>10. WaitingLines(p)' = WaitingLines(p) /\ Lines(Live)' = Lines(Live)
    BY DEF WaitingLines, Lines
  <1>11. \A y \in WaitingLines(p) \cup Lines(Live) : InOrder(e, y)
    BY <1>2 DEF Ordered
  <1> QED BY <1>2, <1>4, <1>5, <1>8, <1>9, <1>10, <1>11 DEF Pending, q

(* What a line does to the turns and to the ledger.                          *)
LEMMA LineSinks ==
  ASSUME LossInv, NEW p \in Ingesters, NEW e \in Entry,
         DrainStart(p, e) \/ DrainMarker(p, e) \/ DrainPost(p, e) \/ DrainReject(p, e)
  PROVE  /\ \A s \in Sessions : ing'[p].turns[s] = IF MarkerOf(e, s)
                                                   THEN [task |-> e.turn, at |-> e.at]
                                                   ELSE ing[p].turns[s]
         /\ \A c \in Calls : \/ ledger'[c] = ledger[c]
                             \/ /\ IsPost(e, c)
                                /\ ledger'[c] = Append(ledger[c], ing[p].turns[Owner[c]].task)
  <1>0. /\ ing \in [Ingesters -> IngestState] /\ ing[p] \in IngestState
        /\ ing[p].turns \in [Sessions -> OpenTurn] /\ ledger \in [Calls -> Seq(Task)]
    BY DEF LossInv, TypeOK, IngestState
  <1> DEFINE W == WithoutStart(p, e.who)
             X == W \cup {e}
  <1> HIDE DEF W, X
  <1>1. CASE DrainStart(p, e)
    <2>1. ing' = [ing EXCEPT ![p].lines = Tail(@), ![p].unfinished = X]
      BY <1>1 DEF DrainStart, W, X
    <2>2. ing'[p].turns = ing[p].turns
      BY <1>0, <2>1 DEF IngestState
    <2> QED BY <1>1, <2>2 DEF DrainStart, MarkerOf
  <1>2. CASE DrainMarker(p, e)
    <2> DEFINE T == [ing[p].turns EXCEPT ![e.who] = [task |-> e.turn, at |-> e.at]]
    <2>1. ing'[p].turns = T
      BY <1>0, <1>2 DEF DrainMarker, IngestState
    <2>2. \A s \in Sessions : T[s] = IF s = e.who THEN [task |-> e.turn, at |-> e.at]
                                     ELSE ing[p].turns[s]
      BY <1>0
    <2> HIDE DEF T
    <2> QED BY <1>2, <2>1, <2>2 DEF DrainMarker, MarkerOf
  <1>3. CASE DrainPost(p, e)
    <2>1. ing' = [ing EXCEPT ![p].lines = Tail(@), ![p].unfinished = W]
      BY <1>3 DEF DrainPost, W
    <2>2. ing'[p].turns = ing[p].turns
      BY <1>0, <2>1 DEF IngestState
    <2>3. \A c \in Calls : \/ ledger'[c] = ledger[c]
                           \/ /\ c = e.who
                              /\ ledger'[c] = Append(ledger[c], ing[p].turns[Owner[c]].task)
      BY <1>0, <1>3 DEF DrainPost
    <2>4. e.kind = "post"
      BY <1>3 DEF DrainPost
    <2> QED BY <2>2, <2>3, <2>4 DEF MarkerOf, IsPost
  <1>4. CASE DrainReject(p, e)
    <2>1. ing' = [ing EXCEPT ![p].lines = Tail(@), ![p].unfinished = W,
                             ![p].rejects = @ \cup {e.who}]
      BY <1>4 DEF DrainReject, W
    <2>2. ing'[p].turns = ing[p].turns
      BY <1>0, <2>1 DEF IngestState
    <2>3. e.kind = "post" /\ ledger' = ledger
      BY <1>4 DEF DrainReject
    <2> QED BY <2>2, <2>3 DEF MarkerOf
  <1> QED BY <1>1, <1>2, <1>3, <1>4

LEMMA LineTurns ==
  ASSUME LossInv, PostsMade, NEW p \in Ingesters, TurnsInv(p), DrainLine(p)
  PROVE  TurnsInv(p)'
  <1> USE DEF hostVars, diskVars, sinkVars, histVars
  <1> DEFINE e == Head(ing[p].lines)
             turns == ing[p].turns
  <1>0. /\ ing \in [Ingesters -> IngestState] /\ ing[p].lines \in Seq(Entry)
        /\ ing[p].lines # <<>> /\ ing[p].pc = "drain" /\ e \in Entry
        /\ ClaimsHeld(p) /\ Ordered(p) /\ HostTurns /\ NoneAhead(p)
    BY SystemTypes DEF LossInv, TypeOK, TurnsInv, DrainLine, At
  <1>1. UNCHANGED <<turnNo, call, callTurn, turnFile, straddled, files, handle>>
    BY DEF DrainLine
  <1>2. DrainStart(p, e) \/ DrainMarker(p, e) \/ DrainPost(p, e) \/ DrainReject(p, e)
    BY DEF DrainLine
  <1> HIDE DEF e
  <1>3. /\ ing'[p].pc = "drain" /\ ing'[p].held = ing[p].held /\ ing'[p].next = ing[p].next
        /\ ing'[p].lines = Tail(ing[p].lines)
    BY <1>0, <1>2, LineEffect
  <1>4. /\ \A s \in Sessions : ing'[p].turns[s] = IF MarkerOf(e, s)
                                                  THEN [task |-> e.turn, at |-> e.at]
                                                  ELSE turns[s]
        /\ \A c \in Calls : \/ ledger'[c] = ledger[c]
                            \/ /\ IsPost(e, c)
                               /\ ledger'[c] = Append(ledger[c], turns[Owner[c]].task)
    BY <1>0, <1>2, LineSinks
  <1>5. Waiting(p)' = Waiting(p)
    BY <1>0, <1>1, <1>3 DEF Waiting
  <1>6. /\ e \in Pending(p) /\ Pending(p)' \subseteq Pending(p)
        /\ \A x \in Pending(p) : x = e \/ x \in Pending(p)'
        /\ \A y \in Pending(p)' : InOrder(e, y)
        /\ Remaining(p)' \subseteq Remaining(p) /\ WaitingLines(p)' = WaitingLines(p)
        /\ Lines(Live)' = Lines(Live) /\ Sorted(Tail(ing[p].lines))
    BY <1>0, <1>1, <1>3, <1>5, HeadFirst DEF e
  <1>7. \A x, s : (OfSession(x, s)' <=> OfSession(x, s)) /\ (MarkerOf(x, s)' <=> MarkerOf(x, s))
                  /\ TurnOf(x)' = TurnOf(x)
    BY <1>1 DEF OfSession, MarkerOf, TurnOf
  <1>8. \A x, y : InOrder(x, y)' <=> InOrder(x, y)
    BY <1>7 DEF InOrder
  <1>9. /\ \A x \in Pending(p) : x.turn \in Nat
        /\ \A c \in Calls : callTurn[c] \in Nat /\ Owner[c] \in Sessions
        /\ \A s \in Sessions : turnNo[s] \in Nat /\ turnFile[s].task \in Nat
    BY TurnTypes, PendingTypes
  <1>10. \A s \in Sessions : OpenTurnOf(p, s) = turns[s] /\ OpenTurnOf(p, s)' = ing'[p].turns[s]
    BY <1>0, <1>3 DEF OpenTurnOf
  <1>11. \A s \in Sessions, y \in Pending(p)' :
            MarkerOf(e, s) /\ MarkerOf(y, s) => e.turn < y.turn
    BY <1>6 DEF InOrder, OfSession, MarkerOf, TurnOf
  <1> HIDE DEF turns
  <1>12. ClaimsHeld(p)'
    BY <1>0, <1>1, <1>3 DEF ClaimsHeld
  <1>13. Ordered(p)'
    <2>1. Sorted(ing[p].lines)' /\ Sorted(Waiting(p))' /\ Sorted(files[Live].lines)'
      BY <1>0, <1>1, <1>3, <1>5, <1>6, <1>8 DEF Ordered, Sorted
    <2> QED BY <1>0, <1>6, <1>8, <2>1 DEF Ordered
  <1>14. LateWrites'
    BY <1>1, <1>6, SameLate DEF TurnsInv
  <1>15. HostTurns'
    <2>1. \A c \in Calls : call[c] # "done" => ledger'[c] = ledger[c]
      BY <1>4, <1>6, PendingMade DEF IsPost
    <2> QED BY <1>0, <1>1, <2>1 DEF HostTurns, IsOpen, MarkerOf
  <1>16. NoneAhead(p)'
    <2> SUFFICES ASSUME NEW s \in Sessions
                 PROVE  /\ \A x \in Pending(p)' : OfSession(x, s) =>
                            TurnOf(x) <= turnNo[s] /\ (IsOpen(s) => TurnOf(x) < turnNo[s])
                        /\ \A t \in {turnFile[s].task, ing'[p].turns[s].task} :
                            t <= turnNo[s] /\ (IsOpen(s) => t < turnNo[s])
      BY <1>1, <1>7 DEF NoneAhead, IsOpen
    <2>1. MarkerOf(e, s) => e.turn <= turnNo[s] /\ (IsOpen(s) => e.turn < turnNo[s])
      BY <1>0, <1>6 DEF NoneAhead, OfSession, MarkerOf, TurnOf
    <2> QED BY <1>0, <1>4, <1>6, <2>1 DEF NoneAhead, turns
  <1>17. Advancing(p)'
    <2> SUFFICES ASSUME NEW s \in Sessions
                 PROVE  /\ ing'[p].turns[s] = NoTurn \/ ing'[p].turns[s].task >= turnFile[s].task
                        /\ \A x \in Pending(p)' : MarkerOf(x, s) =>
                              turnFile[s].task < x.turn /\ ing'[p].turns[s].task < x.turn
      BY <1>1, <1>7, <1>10 DEF Advancing
    <2>1. /\ turns[s] = NoTurn \/ turns[s].task >= turnFile[s].task
          /\ \A x \in Pending(p) : MarkerOf(x, s) =>
                turnFile[s].task < x.turn /\ turns[s].task < x.turn
      BY <1>10 DEF TurnsInv, Advancing
    <2>2. CASE MarkerOf(e, s)
      <3>1. ing'[p].turns[s].task = e.turn
        BY <1>4, <2>2
      <3>2. e.turn >= turnFile[s].task
        BY <1>6, <1>9, <2>1, <2>2
      <3> QED BY <1>6, <1>11, <2>1, <2>2, <3>1, <3>2
    <2>3. CASE ~MarkerOf(e, s)
      BY <1>4, <1>6, <2>1, <2>3
    <2> QED BY <2>2, <2>3
  <1>18. ASSUME NEW s \in Sessions, NEW t \in Nat, MarkerKnown(p, s, t),
                MarkerOf(e, s) => e.turn <= t
         PROVE  MarkerKnown(p, s, t)'
    <2>1. CASE Straddled(s, t)
      BY <1>1, <2>1 DEF MarkerKnown, Straddled, MarkerOf
    <2>2. ASSUME NEW x \in Pending(p), MarkerOf(x, s), x.turn = t
          PROVE  MarkerKnown(p, s, t)'
      <3>1. CASE x = e
        <4>1. OpenTurnOf(p, s)'.task = t
          BY <1>4, <1>10, <2>2, <3>1
        <4>2. \A y \in Pending(p)' : MarkerOf(y, s)' => t < y.turn
          BY <1>7, <1>11, <2>2, <3>1
        <4> QED BY <4>1, <4>2 DEF MarkerKnown
      <3>2. CASE x # e
        BY <1>6, <1>7, <2>2, <3>2 DEF MarkerKnown
      <3> QED BY <3>1, <3>2
    <2>3. CASE /\ OpenTurnOf(p, s).task \in {0, t}
               /\ \A x \in Pending(p) : MarkerOf(x, s) => t < x.turn
      <3>1. ~MarkerOf(e, s)
        BY <1>6, <1>9, <1>18, <2>3
      <3>2. OpenTurnOf(p, s)'.task \in {0, t}
        BY <1>4, <1>10, <2>3, <3>1
      <3> QED BY <1>6, <1>7, <2>3, <3>2 DEF MarkerKnown
    <2> QED BY <1>18, <2>1, <2>2, <2>3 DEF MarkerKnown
  <1>19. MarkersKnown(p)'
    <2>1. ASSUME NEW s \in Sessions, turnNo[s] > 0, ~IsOpen(s)
          PROVE  MarkerKnown(p, s, turnNo[s])'
      <3>1. MarkerOf(e, s) => e.turn <= turnNo[s]
        BY <1>0, <1>6 DEF NoneAhead, OfSession, MarkerOf, TurnOf
      <3>2. MarkerKnown(p, s, turnNo[s])
        BY <2>1 DEF TurnsInv, MarkersKnown
      <3> DEFINE t == turnNo[s]
      <3>3. t \in Nat /\ t' = t
        BY <1>1, <1>9
      <3> HIDE DEF t
      <3> QED BY <1>18, <3>1, <3>2, <3>3 DEF t
    <2>2. ASSUME NEW y \in Pending(p)', y.kind = "post"
          PROVE  MarkerKnown(p, Owner[y.who], callTurn[y.who])'
      <3>1. y \in Pending(p) /\ y.who \in Calls
        BY <1>6, <2>2, PendingMade
      <3>2. MarkerOf(e, Owner[y.who]) => e.turn <= callTurn[y.who]
        BY <1>6, <1>9, <2>2, <3>1 DEF InOrder, OfSession, MarkerOf, TurnOf
      <3>3. MarkerKnown(p, Owner[y.who], callTurn[y.who])
        BY <2>2, <3>1 DEF TurnsInv, MarkersKnown
      <3>4. Owner[y.who] \in Sessions /\ callTurn[y.who] \in Nat
            /\ callTurn'[y.who] = callTurn[y.who]
        BY <1>1, <1>9, <3>1
      <3> QED BY <1>18, <3>2, <3>3, <3>4
    <2> QED BY <1>1, <2>1, <2>2 DEF MarkersKnown, IsOpen
  <1>20. OwnTurn'
    <2> SUFFICES ASSUME NEW c \in Calls, NEW i \in 1 .. Len(ledger'[c])
                 PROVE  ledger'[c][i] \in {0, callTurn[c]} \/ Straddled(Owner[c], callTurn[c])
      BY <1>1 DEF OwnTurn, Straddled, MarkerOf
    <2>1. \A j \in 1 .. Len(ledger[c]) :
             ledger[c][j] \in {0, callTurn[c]} \/ Straddled(Owner[c], callTurn[c])
      BY DEF TurnsInv, OwnTurn, Straddled, MarkerOf
    <2>2. CASE ledger'[c] = ledger[c]
      BY <2>1, <2>2
    <2>3. CASE IsPost(e, c) /\ ledger'[c] = Append(ledger[c], turns[Owner[c]].task)
      <3>1. ledger[c] \in Seq(Task)
        BY DEF LossInv, TypeOK
      <3>2. \/ i \in 1 .. Len(ledger[c]) /\ ledger'[c][i] = ledger[c][i]
            \/ ledger'[c][i] = turns[Owner[c]].task
        BY <2>3, <3>1
      <3>3. turns[Owner[c]].task \in {0, callTurn[c]} \/ Straddled(Owner[c], callTurn[c])
        <4>1. MarkerKnown(p, Owner[c], callTurn[c])
          BY <1>6, <2>3 DEF TurnsInv, MarkersKnown, IsPost
        <4>2. ~\E x \in Pending(p) : MarkerOf(x, Owner[c]) /\ x.turn = callTurn[c]
          <5> SUFFICES ASSUME NEW x \in Pending(p), MarkerOf(x, Owner[c]), x.turn = callTurn[c]
                       PROVE  FALSE
            OBVIOUS
          <5>1. x \in Pending(p)'
            BY <1>6, <2>3 DEF MarkerOf, IsPost
          <5>2. callTurn[c] < x.turn
            BY <1>6, <1>9, <2>3, <5>1 DEF InOrder, OfSession, MarkerOf, TurnOf, IsPost
          <5> QED BY <1>9, <5>2
        <4> QED BY <1>9, <1>10, <4>1, <4>2 DEF MarkerKnown
      <3> QED BY <2>1, <3>2, <3>3
    <2> QED BY <1>4, <2>2, <2>3
  <1> QED BY <1>12, <1>13, <1>14, <1>15, <1>16, <1>17, <1>19, <1>20 DEF TurnsInv

-------------------------------------------------------------------------------
(* The host opens an append, or time passes: no line is written.             *)

LEMMA HostQuiet ==
  ASSUME LossInv, PostsMade, NEW p \in Ingesters, TurnsInv(p), SameLines(p), HostTurns',
         UNCHANGED <<ing, turnFile, ledger, straddled>>,
         \A c \in Calls : call[c] = "done" \/ handle'[c].path \in ClaimName =>
                             callTurn'[c] = callTurn[c],
         \A s \in Sessions : \/ turnNo'[s] = turnNo[s] /\ IsOpen(s)' = IsOpen(s)
                             \/ turnNo'[s] = turnNo[s] + 1 /\ IsOpen(s)',
         \A w \in Writer : handle'[w].path \in ClaimName => handle[w].path \in ClaimName
  PROVE  NoneAhead(p)' /\ LateWrites' /\ Ordered(p)' /\ Advancing(p)' /\ MarkersKnown(p)'
         /\ OwnTurn'
  <1>1. /\ Pending(p)' = Pending(p) /\ Lines(Live)' = Lines(Live)
        /\ Lines(Live) \subseteq Pending(p)
    BY SamePending DEF Pending
  <1>2. \A s \in Sessions : OpenTurnOf(p, s)' = OpenTurnOf(p, s)
    BY DEF OpenTurnOf
  <1>3. \A e, s : (OfSession(e, s)' <=> OfSession(e, s)) /\ (MarkerOf(e, s)' <=> MarkerOf(e, s))
    BY DEF OfSession, MarkerOf
  <1>4. \A e \in Pending(p), s \in Sessions : OfSession(e, s) => TurnOf(e)' = TurnOf(e)
    BY SameTurns
  <1>5. /\ \A s \in Sessions : turnNo[s] \in Nat /\ turnFile[s].task \in Nat
                               /\ ing[p].turns[s].task \in Nat
        /\ \A c \in Calls : callTurn[c] \in Nat /\ Owner[c] \in Sessions
        /\ \A e \in Pending(p) : e.turn \in Nat
    BY TurnTypes, PendingTypes
  <1>6. \A e \in Pending(p), s \in Sessions : OfSession(e, s) => TurnOf(e) \in Nat
    BY <1>5 DEF OfSession, MarkerOf, TurnOf
  <1>7. NoneAhead(p)'
    <2> SUFFICES ASSUME NEW s \in Sessions
                 PROVE  /\ \A e \in Pending(p) : OfSession(e, s) =>
                            TurnOf(e) <= turnNo'[s] /\ (IsOpen(s)' => TurnOf(e) < turnNo'[s])
                        /\ \A t \in {turnFile[s].task, ing[p].turns[s].task} :
                            t <= turnNo'[s] /\ (IsOpen(s)' => t < turnNo'[s])
      BY <1>1, <1>3, <1>4 DEF NoneAhead
    <2>1. /\ \A e \in Pending(p) : OfSession(e, s) =>
                TurnOf(e) <= turnNo[s] /\ (IsOpen(s) => TurnOf(e) < turnNo[s])
          /\ \A t \in {turnFile[s].task, ing[p].turns[s].task} :
                t <= turnNo[s] /\ (IsOpen(s) => t < turnNo[s])
      BY DEF TurnsInv, NoneAhead
    <2>2. CASE turnNo'[s] = turnNo[s] /\ IsOpen(s)' = IsOpen(s)
      BY <2>1, <2>2
    <2>3. CASE turnNo'[s] = turnNo[s] + 1
      <3>1. \A t \in Nat : t <= turnNo[s] => t <= turnNo'[s] /\ t < turnNo'[s]
        BY <1>5, <2>3
      <3> QED BY <1>5, <1>6, <2>1, <3>1
    <2> QED BY <2>2, <2>3
  <1>8. LateWrites'
    <2> SUFFICES ASSUME NEW e \in Lines(Live)
                 PROVE  /\ \A s \in Sessions : handle'[s].path \in ClaimName => ~OfSession(e, s)
                        /\ \A c \in Calls :
                              handle'[c].path \in ClaimName /\ OfSession(e, Owner[c]) =>
                                 e.kind = "post" /\ TurnOf(e)' = callTurn'[c]
      BY <1>1, <1>3 DEF LateWrites
    <2>1. LateWrites
      BY DEF TurnsInv
    <2>2. \A c \in Calls : OfSession(e, Owner[c]) => TurnOf(e)' = TurnOf(e)
      BY <1>1, <1>4, <1>5
    <2> QED BY <2>1, <2>2 DEF LateWrites, Writer
  <1>9. Ordered(p)'
    BY SameOrder DEF TurnsInv
  <1>10. Advancing(p)'
    BY <1>1, <1>2, <1>3 DEF TurnsInv, Advancing
  <1>11. \A s, t : s \in Sessions => (MarkerKnown(p, s, t)' <=> MarkerKnown(p, s, t))
    BY <1>1, <1>2, <1>3 DEF MarkerKnown, Straddled
  <1>12. MarkersKnown(p)'
    <2>1. ASSUME NEW s \in Sessions, turnNo'[s] > 0, ~IsOpen(s)'
          PROVE  MarkerKnown(p, s, turnNo[s])'
      <3>1. turnNo'[s] = turnNo[s] /\ ~IsOpen(s)
        BY <2>1
      <3> DEFINE t == turnNo[s]
      <3>2. MarkerKnown(p, s, t) /\ t' = t
        BY <2>1, <3>1 DEF TurnsInv, MarkersKnown
      <3> HIDE DEF t
      <3> QED BY <1>11, <3>2 DEF t
    <2>2. ASSUME NEW e \in Pending(p), e.kind = "post"
          PROVE  MarkerKnown(p, Owner[e.who], callTurn[e.who])'
      <3>1. e.who \in Calls /\ callTurn'[e.who] = callTurn[e.who]
        BY <2>2, PendingMade
      <3>2. MarkerKnown(p, Owner[e.who], callTurn[e.who])
        BY <2>2 DEF TurnsInv, MarkersKnown
      <3> QED BY <1>5, <1>11, <3>1, <3>2
    <2> QED BY <1>1, <2>1, <2>2 DEF MarkersKnown
  <1>13. OwnTurn'
    <2>1. \A c \in Calls : ledger[c] = <<>> \/ callTurn'[c] = callTurn[c]
      BY DEF TurnsInv, HostTurns
    <2>2. \A c \in Calls : Len(ledger[c]) = 0 \/ callTurn'[c] = callTurn[c]
      BY <2>1
    <2> QED BY <2>2 DEF TurnsInv, OwnTurn
  <1> QED BY <1>7, <1>8, <1>9, <1>10, <1>12, <1>13

(* An open changes no line and no claim.                                     *)
LEMMA OpenKeeps ==
  ASSUME LossInv, NEW p \in Ingesters, TurnsInv(p), NEW w \in Writer, NEW x, Open(w, x),
         ing' = ing
  PROVE  /\ SameLines(p) /\ ClaimsHeld(p)'
         /\ \A v \in Writer : handle'[v] = IF v = w THEN [path |-> Live, entry |-> x]
                                           ELSE handle[v]
         /\ IsOpen(w)' /\ \A v \in Writer : v # w => IsOpen(v)' = IsOpen(v)
         /\ \A v \in Writer : handle'[v].path \in ClaimName => handle[v].path \in ClaimName
  <1>0. TypeOK /\ FilesOK /\ Live \in Path /\ Live \notin ClaimName /\ Shut \notin Path
    BY SystemTypes DEF LossInv
  <1>1. \A q \in Path : files'[q].lines = files[q].lines
    BY <1>0, OpenLines
  <1>2. \A q \in ClaimName : q \in Path /\ files'[q] = files[q]
    BY <1>0 DEF Open, TypeOK, Path
  <1>3. \A v \in Writer : handle'[v] = IF v = w THEN [path |-> Live, entry |-> x] ELSE handle[v]
    BY <1>0 DEF Open, TypeOK
  <1>4. Waiting(p)' = Waiting(p)
    <2>1. CASE Waiting(p) = <<>> /\ ~(ing[p].next <= Len(ing[p].held))
      BY <2>1 DEF Waiting
    <2>2. CASE ing[p].next <= Len(ing[p].held)
      <3>1. ing[p].held \in Seq(ClaimName) /\ ing[p].next \in Nat \ {0}
        BY <1>0, SystemTypes
      <3>2. ing[p].held[Len(ing[p].held)] \in ClaimName
        BY <2>2, <3>1
      <3> QED BY <1>2, <3>2 DEF Waiting
    <2> QED BY <2>1, <2>2 DEF Waiting
  <1>5. SameLines(p)
    BY <1>0, <1>1, <1>4 DEF SameLines
  <1>6. ClaimsHeld(p)'
    BY <1>2 DEF TurnsInv, ClaimsHeld
  <1> QED BY <1>0, <1>3, <1>5, <1>6 DEF IsOpen

LEMMA PromptTurns ==
  ASSUME LossInv, PostsMade, NEW p \in Ingesters, TurnsInv(p), NEW s \in Sessions, Prompt(s)
  PROVE  TurnsInv(p)'
  <1> USE DEF hostVars, diskVars, sinkVars, histVars
  <1> DEFINE x == Marker(s, turnNo[s] + 1, now)
  <1>0. s \in Writer /\ (\A c \in Calls : c \in Writer /\ c # s)
        /\ (\A q \in Ingesters : q \in Writer /\ q # s) /\ (\A z \in Sessions : z \in Writer)
    BY WriterAssumption DEF Writer
  <1>1. Open(s, x) /\ UNCHANGED <<call, callTurn, turnFile, ledger, straddled, ing>>
    BY DEF Prompt
  <1>2. /\ SameLines(p) /\ ClaimsHeld(p)'
        /\ \A v \in Writer : handle'[v] = IF v = s THEN [path |-> Live, entry |-> x]
                                          ELSE handle[v]
        /\ IsOpen(s)' /\ \A v \in Writer : v # s => IsOpen(v)' = IsOpen(v)
        /\ \A v \in Writer : handle'[v].path \in ClaimName => handle[v].path \in ClaimName
    BY <1>0, <1>1, OpenKeeps
  <1>3. \A z \in Sessions : turnNo'[z] = IF z = s THEN turnNo[s] + 1 ELSE turnNo[z]
    BY DEF Prompt, LossInv, TypeOK
  <1>4. x.kind = "marker" /\ x.who = s /\ x.turn = turnNo[s] + 1
    BY DEF Marker
  <1>5. \A c \in Calls : /\ callTurn[c] \in Nat /\ Owner[c] \in Sessions
                         /\ Owner[c] = s => call[c] \in {"new", "done"}
    BY TurnTypes DEF Prompt
  <1>6. \A z \in Sessions : turnNo[z] \in Nat
    BY TurnTypes
  <1> HIDE DEF x
  <1>7. HostTurns'
    <2>1. \A c \in Calls : /\ callTurn[c] <= turnNo'[Owner[c]]
                           /\ Owner[c] = s => callTurn[c] < turnNo'[s]
      BY <1>3, <1>5, <1>6 DEF TurnsInv, HostTurns
    <2>2. \A c \in Calls : call[c] \in {"starting", "running", "finishing"} =>
             callTurn[c] = turnNo'[Owner[c]] /\ ~IsOpen(Owner[c])'
      BY <1>0, <1>2, <1>3, <1>5 DEF TurnsInv, HostTurns
    <2>3. \A z \in Sessions : IsOpen(z)' =>
             MarkerOf(handle'[z].entry, z) /\ handle'[z].entry.turn = turnNo'[z]
      <3>1. handle'[s].entry = x
        BY <1>0, <1>2
      <3> QED BY <1>0, <1>2, <1>3, <1>4, <3>1 DEF TurnsInv, HostTurns, MarkerOf
    <2>4. \A z \in Sessions : IsOpen(z)' =>
             /\ \A c \in Calls : Owner[c] = z => call[c] \in {"new", "done"}
             /\ \A c \in Calls : Owner[c] = z /\ call[c] = "done" => callTurn[c] < turnNo'[z]
      BY <1>0, <1>2, <1>3, <1>5, <2>1 DEF TurnsInv, HostTurns
    <2>5. \A q \in Ingesters : IsOpen(q)' => handle'[q].entry.kind = "start"
      BY <1>0, <1>2 DEF TurnsInv, HostTurns
    <2>6. \A c \in Calls : call[c] # "done" => ledger[c] = <<>>
      BY DEF TurnsInv, HostTurns
    <2> QED BY <1>1, <2>1, <2>2, <2>3, <2>4, <2>5, <2>6 DEF HostTurns, MarkerOf
  <1>8. \A z \in Sessions : \/ turnNo'[z] = turnNo[z] /\ IsOpen(z)' = IsOpen(z)
                            \/ turnNo'[z] = turnNo[z] + 1 /\ IsOpen(z)'
    BY <1>0, <1>2, <1>3
  <1>9. NoneAhead(p)' /\ LateWrites' /\ Ordered(p)' /\ Advancing(p)' /\ MarkersKnown(p)' /\ OwnTurn'
    BY <1>1, <1>2, <1>7, <1>8, HostQuiet
  <1> QED BY <1>2, <1>7, <1>9 DEF TurnsInv

LEMMA CallTurns ==
  ASSUME LossInv, PostsMade, NEW p \in Ingesters, TurnsInv(p), NEW c \in Calls,
         StartCall(c) \/ FinishCall(c)
  PROVE  TurnsInv(p)'
  <1> USE DEF hostVars, diskVars, sinkVars, histVars
  <1>0. c \in Writer /\ (\A z \in Sessions : z \in Writer /\ z # c)
        /\ (\A q \in Ingesters : q \in Writer /\ q # c) /\ Owner[c] \in Sessions
        /\ (\A d \in Calls : d \in Writer)
    BY WriterAssumption, OwnerAssumption DEF Writer
  <1>1. PICK x : Open(c, x)
    BY DEF StartCall, FinishCall
  <1>2. UNCHANGED <<turnNo, turnFile, ledger, straddled, ing>>
    BY DEF StartCall, FinishCall
  <1>3. /\ SameLines(p) /\ ClaimsHeld(p)'
        /\ \A v \in Writer : handle'[v] = IF v = c THEN [path |-> Live, entry |-> x]
                                          ELSE handle[v]
        /\ IsOpen(c)' /\ \A v \in Writer : v # c => IsOpen(v)' = IsOpen(v)
        /\ \A v \in Writer : handle'[v].path \in ClaimName => handle[v].path \in ClaimName
    BY <1>0, <1>1, <1>2, OpenKeeps
  <1>4. /\ \A d \in Calls : d # c => call'[d] = call[d] /\ callTurn'[d] = callTurn[d]
        /\ call[c] # "done" /\ call'[c] \in {"starting", "finishing"}
        /\ callTurn'[c] = turnNo[Owner[c]] /\ ~IsOpen(Owner[c])
    <2>1. CASE StartCall(c)
      BY <2>1 DEF StartCall, LossInv, TypeOK
    <2>2. CASE FinishCall(c)
      BY <2>2 DEF FinishCall, LossInv, TypeOK, TurnsInv, HostTurns
    <2> QED BY <2>1, <2>2
  <1>5. \A z \in Sessions : IsOpen(z)' = IsOpen(z) /\ handle'[z] = handle[z] /\ turnNo[z] \in Nat
    BY <1>0, <1>3, TurnTypes
  <1>6. HostTurns'
    <2>1. \A d \in Calls : /\ callTurn'[d] <= turnNo[Owner[d]]
                           /\ call'[d] # "done" => ledger[d] = <<>>
                           /\ call'[d] \in {"starting", "running", "finishing"} =>
                                 callTurn'[d] = turnNo[Owner[d]] /\ ~IsOpen(Owner[d])
      BY <1>0, <1>4, <1>5 DEF TurnsInv, HostTurns
    <2>2. \A z \in Sessions : IsOpen(z) =>
             /\ MarkerOf(handle[z].entry, z) /\ handle[z].entry.turn = turnNo[z]
             /\ \A d \in Calls : Owner[d] = z => d # c /\ call[d] \in {"new", "done"}
             /\ \A d \in Calls : Owner[d] = z /\ call[d] = "done" => callTurn[d] < turnNo[z]
      BY <1>4 DEF TurnsInv, HostTurns
    <2>3. \A q \in Ingesters : IsOpen(q)' => handle'[q].entry.kind = "start"
      BY <1>0, <1>3 DEF TurnsInv, HostTurns
    <2>4. \A d \in Calls : Owner[d] \in Sessions
      BY OwnerAssumption
    <2> QED BY <1>2, <1>4, <1>5, <2>1, <2>2, <2>3, <2>4 DEF HostTurns, MarkerOf
  <1>7. \A d \in Calls : call[d] = "done" \/ handle'[d].path \in ClaimName =>
           callTurn'[d] = callTurn[d]
    <2>1. handle'[c].path = Live /\ Live \notin ClaimName
      BY <1>0, <1>3, SystemTypes DEF LossInv
    <2> QED BY <1>4, <2>1
  <1>8. NoneAhead(p)' /\ LateWrites' /\ Ordered(p)' /\ Advancing(p)' /\ MarkersKnown(p)' /\ OwnTurn'
    BY <1>2, <1>3, <1>5, <1>6, <1>7, HostQuiet
  <1> QED BY <1>3, <1>6, <1>8 DEF TurnsInv

LEMMA StillTurns ==
  ASSUME LossInv, PostsMade, NEW p \in Ingesters, TurnsInv(p), Tick \/ UNCHANGED vars
  PROVE  TurnsInv(p)'
  <1>1. UNCHANGED <<turnNo, call, callTurn, files, handle, turnFile, ledger, ing, straddled>>
    BY DEF Tick, vars, hostVars, diskVars, sinkVars, histVars
  <1>2. SameLines(p)
    BY <1>1 DEF SameLines, Waiting
  <1>3. HostTurns'
    BY <1>1 DEF TurnsInv, HostTurns, IsOpen, MarkerOf
  <1>4. ClaimsHeld(p)'
    BY <1>1 DEF TurnsInv, ClaimsHeld
  <1>5. \A s \in Sessions : turnNo'[s] = turnNo[s] /\ IsOpen(s)' = IsOpen(s)
    BY <1>1 DEF IsOpen
  <1>6. NoneAhead(p)' /\ LateWrites' /\ Ordered(p)' /\ Advancing(p)' /\ MarkersKnown(p)' /\ OwnTurn'
    BY <1>1, <1>2, <1>3, <1>5, HostQuiet
  <1> QED BY <1>3, <1>4, <1>6 DEF TurnsInv

-------------------------------------------------------------------------------
(* A line is written.                                                        *)

LEMMA SortedAppend ==
  ASSUME NEW S, NEW q \in Seq(S), NEW x \in S, Sorted(q),
         \A y \in {q[i] : i \in 1 .. Len(q)} : InOrder(y, x)
  PROVE  Sorted(Append(q, x))
  <1>1. /\ Len(q) \in Nat /\ Len(Append(q, x)) = Len(q) + 1
        /\ \A i \in 1 .. Len(q) : Append(q, x)[i] = q[i]
        /\ Append(q, x)[Len(q) + 1] = x
    OBVIOUS
  <1> SUFFICES ASSUME NEW i \in 1 .. Len(q) + 1, NEW j \in 1 .. Len(q) + 1, i < j
               PROVE  InOrder(Append(q, x)[i], Append(q, x)[j])
    BY <1>1 DEF Sorted
  <1>2. i \in 1 .. Len(q) /\ Append(q, x)[i] = q[i]
    BY <1>1
  <1>3. CASE j = Len(q) + 1
    BY <1>1, <1>2, <1>3
  <1>4. CASE j # Len(q) + 1
    <2>1. j \in 1 .. Len(q) /\ Append(q, x)[j] = q[j]
      BY <1>1, <1>4
    <2> QED BY <1>2, <2>1 DEF Sorted
  <1> QED BY <1>3, <1>4

(* Where a written line lands: in the journal, in the claim that has yet to  *)
(* be read, or, its append having been open across a rename, elsewhere.      *)
LEMMA WriteZones ==
  ASSUME LossInv, NEW p \in Ingesters, TurnsInv(p), NEW w \in Writer, Write(w), ing' = ing,
         NEW x, x = handle[w].entry
  PROVE  /\ x \in Entry /\ IsOpen(w) /\ ClaimsHeld(p)'
         /\ ~IsOpen(w)' /\ \A v \in Writer : v # w => handle'[v] = handle[v]
         /\ handle'[w].path \notin ClaimName
         /\ \/ /\ files'[Live].lines = Append(files[Live].lines, x)
               /\ Waiting(p)' = Waiting(p)
            \/ /\ handle[w].path \in ClaimName /\ files'[Live].lines = files[Live].lines
               /\ Waiting(p)' = Append(Waiting(p), x)
            \/ SameLines(p) /\ x \in straddled
  <1> DEFINE r == handle[w].path
             n == ing[p].held[Len(ing[p].held)]
             Reads == ing[p].pc \in {"list", "adopt", "drain"} /\ ing[p].next <= Len(ing[p].held)
  <1>0. /\ TypeOK /\ FilesOK /\ HandlesOK /\ Live \in Path /\ Live \notin ClaimName
        /\ Gone \notin Path /\ Shut \notin Path
    BY SystemTypes DEF LossInv
  <1>1. /\ IsOpen(w) /\ handle[w] \in Handle
    BY <1>0, SystemTypes DEF Write, IsOpen
  <1>2. x \in Entry /\ r \in Path \cup {Gone}
    BY <1>1 DEF Handle
  <1>3. /\ \A v \in Writer : v # w => handle'[v] = handle[v]
        /\ handle'[w] = Closed
    BY <1>0 DEF Write, TypeOK
  <1>4. handle'[w].path = Shut /\ Shut \notin ClaimName
    BY <1>0, <1>3 DEF Closed, Path
  <1>5. \A q \in Path : /\ q # r => files'[q] = files[q]
                        /\ q = r => /\ files'[q].exists = files[q].exists
                                    /\ files'[q].lines = Append(files[q].lines, x)
    <2>1. CASE r = Gone
      BY <1>0, <2>1 DEF Write
    <2>2. CASE r # Gone
      <3>1. files[r] \in File /\ r \in Path
        BY <1>0, <1>2, <2>2, SystemTypes
      <3>2. files' = [files EXCEPT ![r].lines = Append(@, x), ![r].mtime = now]
        BY <2>2 DEF Write
      <3> HIDE DEF r
      <3> QED BY <1>0, <3>1, <3>2 DEF TypeOK, File
    <2> QED BY <2>1, <2>2
  <1> HIDE DEF r
  <1>6. Reads => n \in ClaimName /\ n \in Path /\ n # Live
    <2>1. ing[p].held \in Seq(ClaimName) /\ ing[p].next \in Nat \ {0}
      BY <1>0, SystemTypes
    <2> QED BY <1>0, <2>1 DEF Path
  <1>7. /\ Waiting(p) = IF Reads THEN files[n].lines ELSE <<>>
        /\ Waiting(p)' = IF Reads THEN files'[n].lines ELSE <<>>
    BY DEF Waiting
  <1> HIDE DEF n, Reads
  <1>8. ClaimsHeld(p)'
    <2>1. \A q \in ClaimName : files'[q].exists = files[q].exists
      BY <1>5 DEF Path
    <2> QED BY <2>1 DEF TurnsInv, ClaimsHeld
  <1>9. CASE r = Live
    BY <1>0, <1>1, <1>2, <1>3, <1>4, <1>5, <1>6, <1>7, <1>8, <1>9 DEF IsOpen
  <1>10. CASE Reads /\ r = n
    BY <1>0, <1>1, <1>2, <1>3, <1>4, <1>5, <1>6, <1>7, <1>8, <1>10 DEF IsOpen, r
  <1>11. CASE r # Live /\ ~(Reads /\ r = n)
    <2>1. Waiting(p)' = Waiting(p) /\ files'[Live].lines = files[Live].lines
      BY <1>0, <1>5, <1>6, <1>7, <1>11
    <2>2. x \in straddled
      BY <1>0, <1>1, <1>11 DEF HandlesOK, IsOpen, r
    <2>3. SameLines(p)
      BY <2>1 DEF SameLines
    <2> QED BY <1>1, <1>2, <1>3, <1>4, <1>8, <2>2, <2>3 DEF IsOpen
  <1> QED BY <1>9, <1>10, <1>11

(* What is being written is of the turn its session is on, and comes after   *)
(* all that it has to come after.                                            *)
LEMMA WrittenLast ==
  ASSUME LossInv, PostsMade, StartsTrue, NEW p \in Ingesters, TurnsInv(p),
         NEW w \in Writer, IsOpen(w), NEW x, x = handle[w].entry, Ingesters = {p}
  PROVE  /\ \A s \in Sessions : MarkerOf(x, s) => w = s /\ x.turn = turnNo[s]
         /\ \A s \in Sessions : OfSession(x, s) /\ ~MarkerOf(x, s) =>
               /\ x.kind = "post" /\ w \in Calls /\ x.who = w /\ Owner[w] = s
               /\ call[w] = "finishing" /\ callTurn[w] = turnNo[s] /\ ~IsOpen(s)
         /\ \A s \in Sessions : OfSession(x, s) => TurnOf(x) = turnNo[s]
         /\ w \in Sessions => MarkerOf(x, w)
         /\ \A y \in Pending(p) : InOrder(y, x)
         /\ handle[w].path \in ClaimName => \A y \in Lines(Live) : InOrder(x, y)
  <1>0. HostTurns /\ NoneAhead(p) /\ LateWrites /\ HandlesOK
    BY DEF TurnsInv, LossInv
  <1>1. CASE w \in Sessions
    <2>1. MarkerOf(x, w) /\ x.turn = turnNo[w]
      BY <1>0, <1>1 DEF HostTurns
    <2>2. \A s \in Sessions : OfSession(x, s) => s = w /\ MarkerOf(x, s) /\ TurnOf(x) = turnNo[w]
      BY <2>1 DEF OfSession, MarkerOf, TurnOf
    <2>3. \A y \in Pending(p) : OfSession(y, w) => TurnOf(y) <= turnNo[w] /\ TurnOf(y) < turnNo[w]
      BY <1>0, <1>1 DEF NoneAhead
    <2>4. handle[w].path \in ClaimName => \A y \in Lines(Live) : ~OfSession(y, w)
      BY <1>0, <1>1 DEF LateWrites
    <2> QED BY <2>1, <2>2, <2>3, <2>4 DEF InOrder, MarkerOf
  <1>2. CASE w \in Calls /\ call[w] = "finishing"
    <2> DEFINE o == Owner[w]
    <2>1. x.kind = "post" /\ x.who = w
      <3>1. x = Post(w)
        BY <1>0, <1>2 DEF HandlesOK
      <3> QED BY <3>1 DEF Post
    <2>2. o \in Sessions /\ callTurn[w] = turnNo[o] /\ ~IsOpen(o) /\ callTurn[w] \in Nat
      BY <1>0, <1>2, OwnerAssumption, TurnTypes DEF HostTurns
    <2>3. \A s \in Sessions : OfSession(x, s) => s = o /\ ~MarkerOf(x, s) /\ TurnOf(x) = turnNo[o]
      BY <2>1, <2>2 DEF OfSession, MarkerOf, TurnOf
    <2>4. \A s \in Sessions : ~MarkerOf(x, s)
      BY <2>1 DEF MarkerOf
    <2>5. \A y \in Pending(p) : OfSession(y, o) => TurnOf(y) <= turnNo[o]
      BY <1>0, <2>2 DEF NoneAhead
    <2>6. handle[w].path \in ClaimName => \A y \in Lines(Live) : OfSession(y, o) =>
             y.kind = "post" /\ TurnOf(y) = turnNo[o]
      BY <1>0, <1>2, <2>2 DEF LateWrites
    <2>7. w \notin Sessions
      BY <1>2, WriterAssumption
    <2> HIDE DEF o
    <2>8. turnNo[o] <= turnNo[o]
      BY <2>2
    <2>9. \A y \in Pending(p) : InOrder(y, x)
      BY <2>1, <2>3, <2>5 DEF InOrder
    <2>10. handle[w].path \in ClaimName => \A y \in Lines(Live) : InOrder(x, y)
      BY <2>3, <2>6, <2>8 DEF InOrder
    <2> QED BY <1>2, <2>1, <2>2, <2>3, <2>4, <2>7, <2>9, <2>10 DEF o
  <1>3. CASE x.kind = "start" /\ w \notin Sessions
    <2>1. \A s \in Sessions : ~OfSession(x, s) /\ ~MarkerOf(x, s)
      BY <1>3 DEF OfSession, MarkerOf
    <2> QED BY <1>3, <2>1 DEF InOrder
  <1>4. w \in Calls => call[w] = "finishing" \/ x.kind = "start"
    <2>1. w \in Calls => call[w] = "finishing" \/ x = Start(w, startedAt[w])
      BY <1>0 DEF HandlesOK, StartsTrue
    <2> QED BY <2>1 DEF Start
  <1>5. w \in Ingesters => x.kind = "start"
    BY <1>0 DEF HostTurns
  <1>6. w \in Sessions \cup Calls \cup Ingesters /\ (w \in Calls \cup Ingesters => w \notin Sessions)
    BY WriterAssumption DEF Writer
  <1> QED BY <1>1, <1>2, <1>3, <1>4, <1>5, <1>6

LEMMA WriteTurns ==
  ASSUME LossInv, PostsMade, StartsTrue, NEW p \in Ingesters, Ingesters = {p}, TurnsInv(p),
         NEW w \in Writer, Write(w), ing' = ing,
         \A c \in Calls : call'[c] = IF c # w THEN call[c]
                                     ELSE IF call[c] = "starting" THEN "running" ELSE "done"
  PROVE  TurnsInv(p)'
  <1> USE DEF sinkVars, histVars
  <1> DEFINE x == handle[w].entry
  <1>1. UNCHANGED <<turnNo, callTurn, turnFile, ledger, straddled>>
    BY DEF Write
  <1> DEFINE Late == /\ handle[w].path \in ClaimName /\ files'[Live].lines = files[Live].lines
                     /\ Waiting(p)' = Append(Waiting(p), x)
             Last == /\ files'[Live].lines = Append(files[Live].lines, x)
                     /\ Waiting(p)' = Waiting(p)
  <1>2. /\ x \in Entry /\ IsOpen(w) /\ ClaimsHeld(p)'
        /\ ~IsOpen(w)' /\ (\A v \in Writer : v # w => handle'[v] = handle[v])
        /\ handle'[w].path \notin ClaimName
        /\ Last \/ Late \/ (SameLines(p) /\ x \in straddled)
    BY WriteZones
  <1>3. /\ \A s \in Sessions : MarkerOf(x, s) => w = s /\ x.turn = turnNo[s]
        /\ \A s \in Sessions : OfSession(x, s) /\ ~MarkerOf(x, s) =>
              /\ x.kind = "post" /\ w \in Calls /\ x.who = w /\ Owner[w] = s
              /\ call[w] = "finishing" /\ callTurn[w] = turnNo[s] /\ ~IsOpen(s)
        /\ \A s \in Sessions : OfSession(x, s) => TurnOf(x) = turnNo[s]
        /\ w \in Sessions => MarkerOf(x, w)
        /\ \A y \in Pending(p) : InOrder(y, x)
        /\ handle[w].path \in ClaimName => \A y \in Lines(Live) : InOrder(x, y)
    BY <1>2, WrittenLast
  <1> HIDE DEF x
  <1>4. /\ ing[p].lines \in Seq(Entry) /\ Waiting(p) \in Seq(Entry)
        /\ files[Live].lines \in Seq(Entry) /\ Pending(p) \subseteq Entry
    BY PendingTypes
  <1>5. /\ \A s \in Sessions : /\ turnNo[s] \in Nat /\ turnFile[s].task \in Nat
                               /\ ing[p].turns[s].task \in Nat /\ OpenTurnOf(p, s).task \in Nat
        /\ \A c \in Calls : callTurn[c] \in Nat /\ Owner[c] \in Sessions
        /\ \A e \in Entry : e.turn \in Nat
    BY TurnTypes
  <1>6. \A e, s : (OfSession(e, s)' <=> OfSession(e, s)) /\ (MarkerOf(e, s)' <=> MarkerOf(e, s))
                  /\ TurnOf(e)' = TurnOf(e)
    BY <1>1 DEF OfSession, MarkerOf, TurnOf
  <1>7. \A y, z : InOrder(y, z)' <=> InOrder(y, z)
    BY <1>6 DEF InOrder
  <1>8. Remaining(p)' = Remaining(p)
    BY DEF Remaining
  <1>9. /\ Last => /\ Lines(Live)' = Lines(Live) \cup {x} /\ WaitingLines(p)' = WaitingLines(p)
        /\ Late => /\ Lines(Live)' = Lines(Live) /\ WaitingLines(p)' = WaitingLines(p) \cup {x}
    <2>1. ASSUME NEW q \in Seq(Entry)
          PROVE  {Append(q, x)[i] : i \in 1 .. Len(Append(q, x))}
                   = {q[i] : i \in 1 .. Len(q)} \cup {x}
      BY <1>2, AppendElements
    <2>2. ASSUME Last
          PROVE  Lines(Live)' = Lines(Live) \cup {x} /\ WaitingLines(p)' = WaitingLines(p)
      BY <1>4, <2>1, <2>2 DEF Lines, WaitingLines
    <2>3. ASSUME Late
          PROVE  Lines(Live)' = Lines(Live) /\ WaitingLines(p)' = WaitingLines(p) \cup {x}
      BY <1>4, <2>1, <2>3 DEF Lines, WaitingLines
    <2> QED BY <2>2, <2>3
  <1>10. /\ Pending(p) \subseteq Pending(p)' /\ Pending(p)' \subseteq Pending(p) \cup {x}
         /\ x \in Pending(p)' \/ x \in straddled
         /\ Lines(Live)' = Lines(Live) \/ (Last /\ Lines(Live)' = Lines(Live) \cup {x})
    BY <1>2, <1>8, <1>9, SamePending DEF Pending
  <1>11. Ordered(p)'
    <2>0. Ordered(p)
      BY DEF TurnsInv
    <2>1. CASE Last
      <3>1. Sorted(Append(files[Live].lines, x))
        BY <1>2, <1>3, <1>4, <2>0, SortedAppend DEF Ordered, Pending, Lines
      <3>2. Sorted(ing[p].lines)' /\ Sorted(Waiting(p))' /\ Sorted(files[Live].lines)'
        BY <1>7, <2>0, <2>1, <3>1 DEF Ordered, Sorted
      <3> QED BY <1>3, <1>7, <1>8, <1>9, <2>0, <2>1, <3>2 DEF Ordered, Pending
    <2>2. CASE Late
      <3>1. Sorted(Append(Waiting(p), x))
        BY <1>2, <1>3, <1>4, <2>0, SortedAppend DEF Ordered, Pending, WaitingLines
      <3>2. Sorted(ing[p].lines)' /\ Sorted(Waiting(p))' /\ Sorted(files[Live].lines)'
        BY <1>7, <2>0, <2>2, <3>1 DEF Ordered, Sorted
      <3> QED BY <1>3, <1>7, <1>8, <1>9, <2>0, <2>2, <3>2 DEF Ordered, Pending
    <2>3. CASE SameLines(p)
      BY <1>1, <2>0, <2>3, SameOrder
    <2> QED BY <1>2, <2>1, <2>2, <2>3
  <1> HIDE DEF Last, Late
  <1>12. /\ \A s \in Sessions : IsOpen(s)' <=> IsOpen(s) /\ s # w
         /\ \A s \in Sessions : s # w => handle'[s] = handle[s]
         /\ \A q \in Ingesters : IsOpen(q)' => handle'[q] = handle[q] /\ IsOpen(q)
    BY <1>2 DEF IsOpen, Writer
  <1>13. HostTurns'
    <2>0. HostTurns
      BY DEF TurnsInv
    <2>1. \A c \in Calls : /\ call'[c] # "done" => call[c] # "done"
                           /\ call'[c] \in {"starting", "running", "finishing"} =>
                                call[c] \in {"starting", "running", "finishing"}
                           /\ call'[c] # call[c] => call[c] \in {"starting", "finishing"}
      BY <1>2 DEF LossInv, HandlesOK
    <2>2. \A c \in Calls : /\ callTurn[c] <= turnNo[Owner[c]]
                           /\ call'[c] # "done" => ledger[c] = <<>>
                           /\ call'[c] \in {"starting", "running", "finishing"} =>
                                 callTurn[c] = turnNo[Owner[c]] /\ ~IsOpen(Owner[c])'
      BY <1>5, <1>12, <2>0, <2>1 DEF HostTurns
    <2>3. \A s \in Sessions : IsOpen(s)' =>
             /\ MarkerOf(handle'[s].entry, s) /\ handle'[s].entry.turn = turnNo[s]
             /\ \A c \in Calls : Owner[c] = s => call'[c] = call[c]
      BY <1>12, <2>0, <2>1 DEF HostTurns
    <2>4. \A s \in Sessions : IsOpen(s)' =>
             /\ \A c \in Calls : Owner[c] = s => call'[c] \in {"new", "done"}
             /\ \A c \in Calls : Owner[c] = s /\ call'[c] = "done" => callTurn[c] < turnNo[s]
      BY <1>12, <2>0, <2>3 DEF HostTurns
    <2>5. \A q \in Ingesters : IsOpen(q)' => handle'[q].entry.kind = "start"
      BY <1>12, <2>0 DEF HostTurns
    <2> QED BY <1>1, <2>2, <2>3, <2>4, <2>5 DEF HostTurns, MarkerOf
  <1>14. NoneAhead(p)'
    <2> SUFFICES ASSUME NEW s \in Sessions
                 PROVE  /\ \A e \in Pending(p)' : OfSession(e, s) =>
                            TurnOf(e) <= turnNo[s] /\ (IsOpen(s)' => TurnOf(e) < turnNo[s])
                        /\ \A t \in {turnFile[s].task, ing[p].turns[s].task} :
                            t <= turnNo[s] /\ (IsOpen(s)' => t < turnNo[s])
      BY <1>1, <1>6 DEF NoneAhead
    <2>1. OfSession(x, s) => TurnOf(x) <= turnNo[s] /\ ~IsOpen(s)'
      BY <1>3, <1>5, <1>12
    <2> QED BY <1>10, <1>12, <2>1 DEF TurnsInv, NoneAhead
  <1>15. LateWrites'
    <2>1. CASE Lines(Live)' = Lines(Live)
      <3>1. \A v \in Writer : handle'[v].path \in ClaimName => handle[v].path \in ClaimName
        BY <1>2
      <3> QED BY <1>1, <2>1, <3>1, SameLate DEF TurnsInv
    <2>2. CASE Lines(Live)' = Lines(Live) \cup {x}
      <3>0. Shut \notin ClaimName
        BY SystemTypes DEF LossInv, Path
      <3>1. ASSUME NEW s \in Sessions, handle'[s].path \in ClaimName
            PROVE  handle[s].path \in ClaimName /\ ~OfSession(x, s)
        <4>1. s # w /\ IsOpen(s) /\ handle[s].path \in ClaimName
          BY <1>2, <1>12, <3>0, <3>1 DEF IsOpen
        <4> QED BY <1>3, <4>1
      <3>2. ASSUME NEW c \in Calls, handle'[c].path \in ClaimName
            PROVE  /\ handle[c].path \in ClaimName
                   /\ OfSession(x, Owner[c]) => x.kind = "post" /\ TurnOf(x) = callTurn[c]
        <4>1. c \in Writer
          BY DEF Writer
        <4>2. IsOpen(c) /\ handle[c].path \in ClaimName
          BY <1>2, <3>0, <3>2, <4>1 DEF IsOpen
        <4>3. call[c] \in {"starting", "finishing"}
          BY <4>2 DEF LossInv, HandlesOK
        <4>4. callTurn[c] = turnNo[Owner[c]] /\ ~IsOpen(Owner[c])
          BY <4>3 DEF TurnsInv, HostTurns
        <4> QED BY <1>2, <1>3, <1>5, <4>2, <4>4
      <3> QED BY <1>1, <1>6, <2>2, <3>1, <3>2 DEF TurnsInv, LateWrites
    <2> QED BY <1>10, <2>1, <2>2
  <1>16. \A s \in Sessions : OpenTurnOf(p, s)' = OpenTurnOf(p, s)
    BY <1>1 DEF OpenTurnOf
  <1>17. Advancing(p)'
    <2> SUFFICES ASSUME NEW s \in Sessions
                 PROVE  /\ \/ OpenTurnOf(p, s) = NoTurn
                           \/ OpenTurnOf(p, s).task >= turnFile[s].task
                        /\ \A e \in Pending(p)' : MarkerOf(e, s) =>
                              turnFile[s].task < e.turn /\ OpenTurnOf(p, s).task < e.turn
      BY <1>1, <1>6, <1>16 DEF Advancing
    <2>1. MarkerOf(x, s) => turnFile[s].task < x.turn /\ OpenTurnOf(p, s).task < x.turn
      BY <1>2, <1>3 DEF TurnsInv, NoneAhead, OpenTurnOf
    <2> QED BY <1>10, <2>1 DEF TurnsInv, Advancing
  <1>18. ASSUME NEW s \in Sessions, NEW t, MarkerKnown(p, s, t), MarkerOf(x, s) => t < x.turn
         PROVE  MarkerKnown(p, s, t)'
    <2>1. Straddled(s, t) => Straddled(s, t)'
      BY <1>1 DEF Straddled, MarkerOf
    <2> QED BY <1>6, <1>10, <1>16, <1>18, <2>1 DEF MarkerKnown
  <1>19. ASSUME NEW s \in Sessions, ~IsOpen(s) PROVE MarkerKnown(p, s, turnNo[s])
    <2>1. CASE turnNo[s] > 0
      BY <1>19, <2>1 DEF TurnsInv, MarkersKnown
    <2>2. CASE turnNo[s] = 0
      <3>1. OpenTurnOf(p, s).task = 0
        BY <1>5, <2>2 DEF TurnsInv, NoneAhead, OpenTurnOf
      <3>2. \A e \in Pending(p) : MarkerOf(e, s) => 0 < e.turn
        BY <3>1 DEF TurnsInv, Advancing
      <3> QED BY <2>2, <3>1, <3>2 DEF MarkerKnown
    <2> QED BY <1>5, <2>1, <2>2
  <1>20. MarkersKnown(p)'
    <2>1. ASSUME NEW s \in Sessions, turnNo[s] > 0, ~IsOpen(s)'
          PROVE  MarkerKnown(p, s, turnNo[s])'
      <3> DEFINE t == turnNo[s]
      <3>0. t' = t
        BY <1>1
      <3>1. CASE s = w
        <4>1. MarkerOf(x, s) /\ x.turn = t
          BY <1>3, <3>1
        <4> HIDE DEF t
        <4>2. MarkerKnown(p, s, t)'
          BY <1>1, <1>6, <1>10, <3>0, <4>1 DEF MarkerKnown, Straddled
        <4> QED BY <4>2 DEF t
      <3>2. CASE s # w
        <4>1. MarkerKnown(p, s, t) /\ ~MarkerOf(x, s)
          BY <1>3, <1>12, <1>19, <2>1, <3>2
        <4> HIDE DEF t
        <4>2. MarkerKnown(p, s, t)'
          BY <1>18, <3>0, <4>1
        <4> QED BY <4>2 DEF t
      <3> QED BY <3>1, <3>2
    <2>2. ASSUME NEW y \in Pending(p)', y.kind = "post"
          PROVE  MarkerKnown(p, Owner[y.who], callTurn[y.who])'
      <3> DEFINE c == y.who
      <3>1. c \in Calls /\ MarkerKnown(p, Owner[c], callTurn[c])
            /\ (MarkerOf(x, Owner[c]) => callTurn[c] < x.turn)
        <4>1. CASE y \in Pending(p)
          <5>1. c \in Calls /\ call[c] = "done" /\ MarkerKnown(p, Owner[c], callTurn[c])
            BY <2>2, <4>1, PendingMade DEF TurnsInv, MarkersKnown
          <5>2. MarkerOf(x, Owner[c]) => IsOpen(Owner[c]) /\ x.turn = turnNo[Owner[c]]
            BY <1>2, <1>3, <1>5, <5>1
          <5> QED BY <1>5, <5>1, <5>2 DEF TurnsInv, HostTurns
        <4>2. CASE y = x
          <5>1. w \in Writer /\ x.kind = "post" /\ \A s : ~MarkerOf(x, s)
            BY <2>2, <4>2 DEF MarkerOf
          <5>2. c \in Calls
            <6>1. w \in Calls /\ x = Post(w)
              BY <2>2, <4>2 DEF PostsMade, x
            <6> QED BY <4>2, <6>1 DEF Post
          <5>3. OfSession(x, Owner[c])
            BY <1>5, <4>2, <5>1, <5>2 DEF OfSession
          <5>4. callTurn[c] = turnNo[Owner[c]] /\ ~IsOpen(Owner[c])
            BY <1>3, <1>5, <4>2, <5>1, <5>2, <5>3
          <5> QED BY <1>5, <1>19, <5>1, <5>2, <5>4
        <4> QED BY <1>10, <4>1, <4>2
      <3>2. Owner[c] \in Sessions /\ callTurn'[c] = callTurn[c]
        BY <1>1, <1>5, <3>1
      <3> HIDE DEF c
      <3>3. MarkerKnown(p, Owner[c], callTurn[c])'
        BY <1>18, <3>1, <3>2
      <3> QED BY <3>3 DEF c
    <2> QED BY <1>1, <2>1, <2>2 DEF MarkersKnown
  <1>21. OwnTurn'
    BY <1>1 DEF TurnsInv, OwnTurn
  <1> QED BY <1>2, <1>11, <1>13, <1>14, <1>15, <1>17, <1>20, <1>21 DEF TurnsInv

-------------------------------------------------------------------------------
(* Every step.                                                               *)

LEMMA InitTurns ==
  ASSUME NEW p \in Ingesters, Init
  PROVE  TurnsInv(p)
  <1>1. /\ ing[p] = Idle /\ (\A w \in Writer : handle[w].path = Shut)
        /\ \A q \in Path : files[q] = NoFile
    BY DEF Init, Closed
  <1>2. Shut \notin ClaimName /\ Live \in Path /\ (\A q \in ClaimName : q \in Path)
    BY NameAssumption DEF Path
  <1>3. \A w \in Writer : ~IsOpen(w) /\ handle[w].path \notin ClaimName
    BY <1>1, <1>2 DEF IsOpen
  <1>4. /\ ing[p].pc = "idle" /\ ing[p].lines = <<>> /\ ing[p].held = <<>>
        /\ \A s \in Sessions : ing[p].turns[s] = NoTurn
    BY <1>1 DEF Idle
  <1>5. Waiting(p) = <<>> /\ files[Live].lines = <<>> /\ (\A q \in ClaimName : ~files[q].exists)
    BY <1>1, <1>2, <1>4 DEF Waiting, NoFile
  <1>6. Remaining(p) = {} /\ WaitingLines(p) = {} /\ Lines(Live) = {} /\ Pending(p) = {}
    BY <1>4, <1>5 DEF Remaining, WaitingLines, Lines, Pending
  <1>7. ClaimsHeld(p)
    BY <1>4, <1>5 DEF ClaimsHeld
  <1>8. HostTurns
    BY <1>3, OwnerAssumption DEF Init, HostTurns, Writer
  <1>9. NoneAhead(p)
    BY <1>3, <1>4, <1>6 DEF Init, NoneAhead, NoTurn, Writer
  <1>10. LateWrites /\ Ordered(p)
    BY <1>4, <1>5, <1>6 DEF LateWrites, Ordered, Sorted
  <1>11. Advancing(p) /\ MarkersKnown(p)
    BY <1>4, <1>6 DEF Init, Advancing, MarkersKnown, OpenTurnOf
  <1>12. OwnTurn
    BY DEF Init, OwnTurn
  <1> QED BY <1>7, <1>8, <1>9, <1>10, <1>11, <1>12 DEF TurnsInv

LEMMA NextTurns ==
  ASSUME LossInv, PostsMade, StartsTrue, NEW p, Ingesters = {p}, TurnsInv(p),
         [Next]_vars, ~Crash(p)
  PROVE  TurnsInv(p)'
  <1>0. p \in Ingesters /\ p \in Writer /\ p \notin Calls
        /\ call \in [Calls -> {"new", "starting", "running", "finishing", "done"}]
    BY WriterAssumption DEF Writer, LossInv, TypeOK
  <1>1. ASSUME NEW s \in Sessions, WriteMarker(s) PROVE TurnsInv(p)'
    <2>1. s \in Writer /\ s \notin Calls
      BY WriterAssumption DEF Writer
    <2> QED BY <1>0, <1>1, <2>1, WriteTurns DEF WriteMarker
  <1>2. ASSUME NEW c \in Calls, WriteCall(c) PROVE TurnsInv(p)'
    <2>1. c \in Writer
      BY DEF Writer
    <2>2. \A d \in Calls : call'[d] = IF d # c THEN call[d]
                                      ELSE IF call[d] = "starting" THEN "running" ELSE "done"
      BY <1>0, <1>2 DEF WriteCall
    <2> QED BY <1>0, <1>2, <2>1, <2>2, WriteTurns DEF WriteCall
  <1>3. CASE CarryWrite(p)
    BY <1>0, <1>3, WriteTurns DEF CarryWrite
  <1>4. CASE Ingest(p) /\ ~CarryWrite(p)
    BY <1>0, <1>4, ClaimTurns, AdoptTurns, ReadTurnsOf, LineTurns, BetweenStep, TidyStep
       DEF Ingest
  <1>5. ASSUME NEW s \in Sessions, Prompt(s) PROVE TurnsInv(p)'
    BY <1>0, <1>5, PromptTurns
  <1>6. ASSUME NEW c \in Calls, StartCall(c) \/ FinishCall(c) PROVE TurnsInv(p)'
    BY <1>0, <1>6, CallTurns
  <1>7. CASE Tick \/ UNCHANGED vars
    BY <1>0, <1>7, StillTurns
  <1> QED BY <1>1, <1>2, <1>3, <1>4, <1>5, <1>6, <1>7 DEF Next

LEMMA CrashCount ==
  ASSUME TypeOK, [Next]_vars, crashes' = 0
  PROVE  crashes = 0 /\ ~\E p \in Ingesters : Crash(p)
  <1> USE DEF hostVars, diskVars, sinkVars, histVars
  <1>0. crashes \in Nat
    BY BoundAssumption DEF TypeOK
  <1>1. ASSUME NEW p \in Ingesters PROVE ~Crash(p)
    BY <1>0 DEF Crash
  <1>2. ASSUME NEW p \in Ingesters, Ingest(p) PROVE crashes' = crashes
    <2>1. CASE Claim(p) \/ ListClaims(p) \/ (\E n \in ClaimName : Adopt(p, n))
      BY <2>1 DEF Claim, ListClaims, Adopt
    <2>2. CASE NothingToDrain(p) \/ ReadTurns(p) \/ ReadClaim(p) \/ DrainLine(p)
      BY <2>2 DEF NothingToDrain, ReadTurns, ReadClaim, DrainLine
    <2>3. CASE WriteRejected(p) \/ RemoveClaim(p) \/ CarryOpen(p) \/ CarryWrite(p) \/ SaveTurns(p)
      BY <2>3 DEF WriteRejected, RemoveClaim, CarryOpen, CarryWrite, Write, SaveTurns
    <2> QED BY <1>2, <2>1, <2>2, <2>3 DEF Ingest
  <1>3. crashes' = crashes
    BY <1>1, <1>2 DEF Next, Prompt, WriteMarker, StartCall, FinishCall, WriteCall, Write, Tick, vars
  <1> QED BY <1>1, <1>3

(* The turns of a ledger no drain of which has died.                         *)
TurnsKept(p) == crashes = 0 => TurnsInv(p)

LEMMA KeptTurns ==
  ASSUME NEW p, Ingesters = {p}
  PROVE  /\ Init => LossInv /\ PostsMade /\ StartsTrue /\ TurnsKept(p)
         /\ LossInv /\ PostsMade /\ StartsTrue /\ TurnsKept(p) /\ [Next]_vars
              => LossInv' /\ PostsMade' /\ StartsTrue' /\ TurnsKept(p)'
  <1>1. Init => LossInv /\ PostsMade /\ StartsTrue /\ TurnsKept(p)
    BY InitLoss, InitPosts, InitStarts, InitTurns DEF TurnsKept
  <1>2. LossInv /\ PostsMade /\ StartsTrue /\ [Next]_vars => LossInv' /\ PostsMade' /\ StartsTrue'
    BY NextLoss, NextPosts, NextStarts
  <1>3. ASSUME LossInv, PostsMade, StartsTrue, TurnsKept(p), [Next]_vars PROVE TurnsKept(p)'
    <2> SUFFICES ASSUME crashes' = 0 PROVE TurnsInv(p)'
      BY DEF TurnsKept
    <2>1. crashes = 0 /\ ~Crash(p)
      BY <1>3, CrashCount DEF LossInv
    <2> QED BY <1>3, <2>1, NextTurns DEF TurnsKept
  <1> QED BY <1>1, <1>2, <1>3

(* While drains run one after the other and none has died, every completion  *)
(* is recorded for the turn its call was made in, or for no turn at all,     *)
(* unless the append of that turn's marker was open across a rename.  After  *)
(* a drain that died its claim waits to be adopted while newer lines are     *)
(* drained, and this fails.                                                  *)
THEOREM RecordedForItsTurn ==
  ASSUME NEW p, Ingesters = {p}
  PROVE  Spec => [](crashes = 0 => OwnTurn)
  <1>1. TurnsKept(p) => (crashes = 0 => OwnTurn)
    BY DEF TurnsKept, TurnsInv
  <1> QED BY <1>1, KeptTurns, PTL DEF Spec

LEMMA SavedTurns ==
  ASSUME LossInv, NEW p, Ingesters = {p}, TurnsInv(p), [Next]_vars
  PROVE  \A s \in Sessions : turnFile'[s] = NoTurn \/ turnFile'[s].task >= turnFile[s].task
  <1> USE DEF hostVars, diskVars, sinkVars, histVars
  <1>0. \A s \in Sessions : turnFile[s].task \in Nat
    BY TurnTypes
  <1>1. CASE SaveTurns(p)
    <2>1. \A s \in Sessions : turnFile'[s] \in {NoTurn, ing[p].turns[s]}
      BY <1>1 DEF SaveTurns, Current
    <2>2. \A s \in Sessions : ing[p].turns[s] = NoTurn \/ ing[p].turns[s].task >= turnFile[s].task
      BY <1>1 DEF TurnsInv, Advancing, OpenTurnOf, SaveTurns, At
    <2> QED BY <2>1, <2>2
  <1>2. CASE UNCHANGED turnFile
    BY <1>0, <1>2
  <1>3. CASE Ingest(p) /\ ~SaveTurns(p)
    <2>1. CASE Claim(p) \/ ListClaims(p) \/ (\E n \in ClaimName : Adopt(p, n))
      BY <1>2, <2>1 DEF Claim, ListClaims, Adopt
    <2>2. CASE NothingToDrain(p) \/ ReadTurns(p) \/ ReadClaim(p) \/ DrainLine(p)
      BY <1>2, <2>2 DEF NothingToDrain, ReadTurns, ReadClaim, DrainLine
    <2>3. CASE WriteRejected(p) \/ RemoveClaim(p) \/ CarryOpen(p) \/ CarryWrite(p)
      BY <1>2, <2>3 DEF WriteRejected, RemoveClaim, CarryOpen, CarryWrite, Write
    <2> QED BY <1>3, <2>1, <2>2, <2>3 DEF Ingest
  <1> QED BY <1>1, <1>2, <1>3 DEF Next, Prompt, WriteMarker, StartCall, FinishCall, WriteCall,
             Write, Crash, Tick, vars

(* The open turn that drains leave for one another never goes back: with one *)
(* drain at a time and none that dies, the turn a drain saves is the one it  *)
(* read, or a newer one, or has expired.                                     *)
THEOREM TurnNeverReopened ==
  ASSUME NEW p, Ingesters = {p}, MaxCrashes = 0
  PROVE  Spec => OpenTurnAdvances
  <1>1. LossInv => crashes = 0
    BY DEF LossInv, TypeOK
  <1>2. LossInv /\ TurnsKept(p) /\ [Next]_vars =>
          [\A s \in Sessions : \/ turnFile'[s] = NoTurn
                               \/ turnFile'[s].task >= turnFile[s].task]_vars
    BY <1>1, SavedTurns DEF TurnsKept
  <1> QED BY <1>2, KeptTurns, PTL DEF Spec, OpenTurnAdvances
===============================================================================
