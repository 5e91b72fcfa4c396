---------------------------- MODULE SidecarStart ----------------------------
(***************************************************************************)
(* Finding and starting the observation sidecar of a worktree              *)
(* (packages/observation/src/sidecar.ts:366-505).  A client that cannot    *)
(* ping a sidecar spawns one; every sidecar started writes a token of its  *)
(* own, looks whether somebody answers, and else listens on the socket of  *)
(* the worktree.  The token file and the socket's path are shared by all,  *)
(* and outlive the process that made them.                                 *)
(***************************************************************************)
EXTENDS Naturals, FiniteSets

CONSTANTS Starters,   \* the sidecar processes that may be spawned
          Clients,    \* the hook processes that look for one
          NoOne

VARIABLES token,      \* whose token the file holds
          socket,     \* whose socket the path leads to
          starter,    \* each sidecar: where it is, and which attempt it makes
          client      \* each client: where it is, and the token it read

vars == <<token, socket, starter, client>>

Live == {s \in Starters : starter[s].at = "serving"}

(* A request reaches the process whose socket the path leads to, if it     *)
(* listens, and is answered if it carries that process's token.            *)
Responds(held) == socket \in Live /\ held = socket

Move(s, at) == starter' = [starter EXCEPT ![s].at = at]

(* The token file is written before anything is known of a peer. *)
WriteToken(s) ==
  /\ starter[s].at = "spawned"
  /\ token' = s
  /\ Move(s, "probe")
  /\ UNCHANGED <<socket, client>>

Probe(s) ==
  /\ starter[s].at = "probe"
  /\ Move(s, IF Responds(s) THEN "proxy" ELSE "listen")
  /\ UNCHANGED <<token, socket, client>>

Listen(s) ==
  /\ starter[s].at = "listen"
  /\ \/ socket = NoOne /\ socket' = s /\ Move(s, "serving")
     \/ socket # NoOne /\ starter[s].attempt = 0 /\ Move(s, "reprobe") /\ UNCHANGED socket
     \/ socket # NoOne /\ starter[s].attempt = 1 /\ Move(s, "gone") /\ UNCHANGED socket
  /\ UNCHANGED <<token, client>>

Reprobe(s) ==
  /\ starter[s].at = "reprobe"
  /\ Move(s, IF Responds(s) THEN "proxy" ELSE "unlink")
  /\ UNCHANGED <<token, socket, client>>

Unlink(s) ==
  /\ starter[s].at = "unlink"
  /\ socket' = NoOne
  /\ starter' = [starter EXCEPT ![s] = [at |-> "probe", attempt |-> 1]]
  /\ UNCHANGED <<token, client>>

(* A sidecar that is closed removes the path and the token, whosever they  *)
(* are by then; one that crashes leaves both.                              *)
Close(s) ==
  /\ starter[s].at = "serving" /\ Move(s, "gone")
  /\ socket' = NoOne /\ token' = NoOne
  /\ UNCHANGED client
Crash(s) ==
  /\ starter[s].at \notin {"none", "gone"} /\ Move(s, "gone")
  /\ UNCHANGED <<token, socket, client>>

(* ensureObservationSidecar: the token is read once, before the first ping. *)
Connect(c) ==
  /\ client[c].at = "idle"
  /\ client' = [client EXCEPT ![c] = [at |-> "ping", token |-> token]]
  /\ UNCHANGED <<token, socket, starter>>

Ping(c) ==
  /\ client[c].at = "ping"
  /\ \/ /\ Responds(client[c].token)
        /\ client' = [client EXCEPT ![c].at = "connected"] /\ UNCHANGED starter
     \/ /\ ~Responds(client[c].token)
        /\ \E s \in Starters :
             /\ starter[s].at = "none"
             /\ Move(s, "spawned")
        /\ client' = [client EXCEPT ![c].at = "wait"]
  /\ UNCHANGED <<token, socket>>

(* It asks again for a second with the same token, then gives up; the next *)
(* hook begins anew.                                                       *)
Retry(c) ==
  /\ client[c].at = "wait"
  /\ \/ Responds(client[c].token) /\ client' = [client EXCEPT ![c].at = "connected"]
     \/ ~Responds(client[c].token) /\ client' = [client EXCEPT ![c].at = "idle"]
  /\ UNCHANGED <<token, socket, starter>>

Leave(c) ==
  /\ client[c].at = "connected"
  /\ client' = [client EXCEPT ![c].at = "idle"]
  /\ UNCHANGED <<token, socket, starter>>

Init == /\ token = NoOne /\ socket = NoOne
        /\ starter = [s \in Starters |-> [at |-> "none", attempt |-> 0]]
        /\ client = [c \in Clients |-> [at |-> "idle", token |-> NoOne]]

Next == \/ \E s \in Starters : \/ WriteToken(s) \/ Probe(s) \/ Listen(s) \/ Reprobe(s)
                               \/ Unlink(s) \/ Close(s) \/ Crash(s)
        \/ \E c \in Clients : Connect(c) \/ Ping(c) \/ Retry(c) \/ Leave(c)

Spec == Init /\ [][Next]_vars

(* "Re-probe after EADDRINUSE so a peer that won the SessionStart race is  *)
(* never unlinked after its listener becomes live" (sidecar.ts:410-411):   *)
(* a sidecar that serves is the one the path leads to.                     *)
WinnerKept == \A s \in Live : socket = s
=============================================================================
