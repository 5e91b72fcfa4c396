------------------------------- MODULE Setup -------------------------------
(***************************************************************************)
(* Wiring a repository: `patchmesh init`, `exit` and `doctor`              *)
(* (apps/cli/src/init.ts, exit.ts, doctor.ts and the `check` of the host   *)
(* adapters under packages/recorder/src/hosts).                            *)
(*                                                                         *)
(* The files are the host's settings, .mcp.json, the OpenCode plugin,      *)
(* .gitignore and the .patchmesh directory.  They belong to people and to  *)
(* other tools too, so a command that reads one and writes it back may     *)
(* lose what was put there meanwhile, and may be stopped between two files.*)
(* A session loads its hooks once, when it starts, and keeps them.         *)
(***************************************************************************)
EXTENDS Naturals, FiniteSets, Sequences, SequencesExt, Selections

CONSTANTS Events,     \* the host events that carry a hook
          Hosts,      \* values of --host an init is given, "none" among them
          MaxRuns,    \* commands started
          MaxEdits    \* edits, installs and removals made by others

ASSUME SetupAssumption == /\ IsFiniteSet(Events) /\ Events # {}
                          /\ "none" \in Hosts
                          /\ MaxRuns \in Nat /\ MaxEdits \in Nat

VARIABLES settings,   \* .claude/settings.local.json
          mcp,        \* .mcp.json
          plugin,     \* .opencode/plugins/patchmesh.mjs: "none", a place, or "edited"
          ignore,     \* the lines of .gitignore, << >> when there is no file
          ledgerDir,  \* is there a .patchmesh directory?
          present,    \* what the repository holds of other hosts: "opencode", "codex"
          installed,  \* the places PatchMesh's binaries can be run from
          cli,        \* the command that runs
          session,    \* the hook commands the running agent session has loaded
          finished,   \* the last command, when it ended and nobody else acted since it began
          runs, edits

files == <<settings, mcp, plugin, ignore, ledgerDir>>
vars == <<files, present, installed, cli, session, finished, runs, edits>>

Places == {"dependency", "checkout", "global"}
Keys == {"patchmesh", "patchmesh-codex", "patchmesh-generic-mcp"}
Nothing == [op |-> "none"]

(* A JSON file is absent, unreadable, or read; reading treats the first    *)
(* two as an empty object.                                                 *)
NoHooks == [e \in Events |-> << >>]
Empty == [is |-> "json", hooks |-> NoHooks, other |-> FALSE]
ReadSettings == IF settings.is = "json" THEN settings ELSE Empty
NoServers == [k \in Keys |-> {}]
EmptyMcp == [is |-> "json", servers |-> NoServers, foreign |-> FALSE]
ReadMcp == IF mcp.is = "json" THEN mcp ELSE EmptyMcp

(* The place the written commands name: the dependency of the repository,  *)
(* else the checkout the command runs from, else the global install,       *)
(* whether or not the binaries can be found there.                         *)
ResolveBinaries == IF "dependency" \in installed THEN "dependency"
                   ELSE IF "checkout" \in installed THEN "checkout" ELSE "global"

(* A command is PatchMesh's by the binary it runs, wherever it sits. *)
OwnsCommandHere(c) == c = ResolveBinaries     \* mutated form: recognised by its path
OwnsCommand(c) == c \in Places
Ours(group) == \E c \in group : OwnsCommand(c)

(* One hook entry merged into the groups of its event. *)
MergeHook(groups, force) ==
  LET at == {i \in DOMAIN groups : Ours(groups[i])}
  IN IF at = {} THEN Append(groups, {ResolveBinaries})
     ELSE IF force
     THEN LET first == CHOOSE i \in at : \A j \in at : i <= j
          IN [groups EXCEPT ![first] = {ResolveBinaries}]
     ELSE groups

InstallHooks(force) ==
  LET old == ReadSettings
      new == [e \in Events |-> MergeHook(old.hooks[e], force)]
      changed == force \/ \E e \in Events : ~\E i \in DOMAIN old.hooks[e] : Ours(old.hooks[e][i])
  IN IF changed THEN [old EXCEPT !.hooks = new] ELSE settings

ExtraDropped(entry) == {}     \* mutated form: the entry is replaced whole
(* What an entry holds beside type, command and args is carried through. *)
Extra(entry) == entry \cap {"extra"}

(* The server under key, in .mcp.json; the generic entry names the bare command. *)
Register(key, force) ==
  LET old == ReadMcp
      place == IF key = "patchmesh-generic-mcp" THEN "global" ELSE ResolveBinaries
  IN IF old.servers[key] # {} /\ ~force THEN mcp
     ELSE [old EXCEPT !.servers[key] = {place} \cup Extra(@)]

RegisterServer(force) == Register("patchmesh", force)
InstallCodexHooks(force) == Register("patchmesh-codex", force)
InstallGenericMcp(force) == Register("patchmesh-generic-mcp", force)

InstallOpencodePlugin(force) ==
  IF plugin = ResolveBinaries \/ (plugin # "none" /\ ~force) THEN plugin ELSE ResolveBinaries

Comment == "# PatchMesh"
Entry == ".patchmesh/"

(* The entry goes after whatever the file holds; "" ends a file whose last *)
(* line is ended.                                                          *)
IgnoreLedger ==
  IF Contains(ignore, Entry) THEN ignore
  ELSE (IF ignore = << >> THEN <<"">>
        ELSE IF Last(ignore) = "" THEN ignore ELSE Append(ignore, "")) \o <<Comment, Entry, "">>

-----------------------------------------------------------------------------
(* exit *)

RemovePatchmeshHooks ==
  LET groups(e) == settings.hooks[e]
      kept == [e \in Events |-> Select(groups(e), {i \in DOMAIN groups(e) : ~Ours(groups(e)[i])})]
  IN IF settings.is # "json" \/ kept = settings.hooks THEN settings
     ELSE IF kept = NoHooks /\ ~settings.other THEN [Empty EXCEPT !.is = "none"]
     ELSE [settings EXCEPT !.hooks = kept]

RemoveMcpEntry ==
  LET left == [mcp.servers EXCEPT !["patchmesh"] = {}]
  IN IF mcp.is # "json" \/ mcp.servers["patchmesh"] = {} THEN mcp
     ELSE IF left = NoServers /\ ~mcp.foreign THEN [EmptyMcp EXCEPT !.is = "none"]
     ELSE [mcp EXCEPT !.servers = left]

RemoveGitignoreEntry ==
  LET filtered == Select(ignore, {i \in DOMAIN ignore : ignore[i] \notin {Comment, Entry}})
  IN IF filtered = ignore THEN ignore
     ELSE IF \A i \in DOMAIN filtered : filtered[i] = "" THEN << >> ELSE filtered

(* What the dry run says it would remove, in the order of the steps. *)
DryCheckHooks == settings.is = "json" /\ \E e \in Events : \E i \in DOMAIN settings.hooks[e] : Ours(settings.hooks[e][i])
DryCheckMcp == mcp.is = "json" /\ mcp.servers["patchmesh"] # {}
DryCheckGitignore == \E i \in DOMAIN ignore : ignore[i] \in {Comment, Entry}
ExitRepositoryDry == <<ledgerDir, DryCheckHooks, DryCheckMcp, plugin # "none", DryCheckGitignore>>

-----------------------------------------------------------------------------
(* doctor: reads and reports, and changes nothing *)

(* The command doctor takes for an event is the last of ours it meets. *)
InstalledCommand(e) ==
  LET groups == settings.hooks[e]
      mine == {i \in DOMAIN groups : Ours(groups[i])}
      last == {i \in mine : \A j \in mine : j <= i}
  IN {c \in UNION {groups[i] : i \in last} : OwnsCommand(c)}
InstalledEvents == {e \in Events : InstalledCommand(e) # {}}

ClaudeCheck ==
  IF settings.is = "none" THEN "not installed"
  ELSE IF settings.is = "broken" THEN "unreadable"
  ELSE IF InstalledEvents = {} THEN "no hooks"
  ELSE IF \E e \in InstalledEvents : ~(InstalledCommand(e) \subseteq installed) THEN "do not resolve"
  ELSE IF InstalledEvents # Events THEN "some missing" ELSE "ok"

OpencodeCheck == IF plugin = "none" THEN "not installed"
                 ELSE IF plugin = "edited" THEN "names no binary"
                 ELSE IF plugin \in installed THEN "ok" ELSE "not here"
CodexCheck == IF mcp.is = "broken" THEN "unreadable"
              ELSE IF ReadMcp.servers["patchmesh-codex"] = {} THEN "not registered" ELSE "ok"
CheckServer == ReadMcp.servers["patchmesh"] # {}
CheckGitignore == Contains(ignore, Entry)

Diagnose == [claude |-> ClaudeCheck, opencode |-> OpencodeCheck, codex |-> CodexCheck,
             server |-> CheckServer, gitignore |-> CheckGitignore, ledger |-> ledgerDir]
Healthy == Diagnose.claude # "do not resolve"

-----------------------------------------------------------------------------
(* The commands, one file at a time *)

InitSteps(host) ==
  <<"hooks", "server", "gitignore">> \o
  (CASE host = "opencode" -> <<"plugin">>
     [] host = "codex" -> <<"codex">>
     [] host = "generic-mcp" -> <<"generic">>
     [] host = "claude-code" -> <<"hooks">>
     [] host = "all" -> <<"hooks", "plugin if there", "codex if there", "generic">>
     [] OTHER -> << >>)
ExitStepsShort == <<"directory", "unhook", "unregister", "unignore">>   \* mutated form: a file forgotten
ExitSteps == <<"directory", "unhook", "unregister", "unplug", "unignore">>

(* The files as they are after one step. *)
After(step, force) ==
  CASE step = "hooks" -> [settings |-> InstallHooks(force)]
    [] step = "server" -> [mcp |-> RegisterServer(force)]
    [] step = "codex" \/ (step = "codex if there" /\ "codex" \in present) ->
         [mcp |-> InstallCodexHooks(force)]
    [] step = "generic" -> [mcp |-> InstallGenericMcp(force)]
    [] step = "plugin" \/ (step = "plugin if there" /\ "opencode" \in present) ->
         [plugin |-> InstallOpencodePlugin(force)]
    [] step = "gitignore" -> [ignore |-> IgnoreLedger]
    [] step = "directory" -> [ledgerDir |-> FALSE]
    [] step = "unhook" -> [settings |-> RemovePatchmeshHooks]
    [] step = "unregister" -> [mcp |-> RemoveMcpEntry]
    [] step = "unplug" -> [plugin |-> "none"]
    [] step = "unignore" -> [ignore |-> RemoveGitignoreEntry]
    [] OTHER -> << >>

Start ==
  /\ cli = Nothing /\ runs < MaxRuns
  /\ runs' = runs + 1 /\ finished' = Nothing
  /\ \/ \E host \in Hosts, force \in BOOLEAN :
          cli' = [op |-> "init", force |-> force, host |-> host, steps |-> InitSteps(host),
                  write |-> << >>, held |-> FALSE, alone |-> TRUE]
     \/ cli' = [op |-> "exit", force |-> FALSE, host |-> "none", steps |-> ExitSteps,
                write |-> << >>, held |-> FALSE, alone |-> TRUE]
  /\ UNCHANGED <<files, present, installed, session, edits>>

(* The next file is read, and what it is to become is worked out... *)
Look ==
  /\ cli # Nothing /\ ~cli.held /\ cli.steps # << >>
  /\ cli' = [cli EXCEPT !.write = After(Head(cli.steps), cli.force), !.held = TRUE]
  /\ UNCHANGED <<files, present, installed, session, finished, runs, edits>>

Into(name, old) == IF name \in DOMAIN cli.write THEN cli.write[name] ELSE old

(* ... and written over whatever the file holds by then. *)
Write ==
  /\ cli # Nothing /\ cli.held
  /\ settings' = Into("settings", settings)
  /\ mcp' = Into("mcp", mcp)
  /\ plugin' = Into("plugin", plugin)
  /\ ignore' = Into("ignore", ignore)
  /\ ledgerDir' = Into("ledgerDir", ledgerDir)
  /\ present' = present \cup (IF plugin' # "none" THEN {"opencode"} ELSE {})
  /\ cli' = [cli EXCEPT !.steps = Tail(@), !.held = FALSE, !.write = << >>]
  /\ UNCHANGED <<installed, session, finished, runs, edits>>

Done ==
  /\ cli # Nothing /\ ~cli.held /\ cli.steps = << >>
  /\ finished' = IF cli.alone THEN [op |-> cli.op, force |-> cli.force, host |-> cli.host] ELSE Nothing
  /\ cli' = Nothing
  /\ UNCHANGED <<files, present, installed, session, runs, edits>>

Killed ==
  /\ cli # Nothing /\ cli' = Nothing
  /\ UNCHANGED <<files, present, installed, session, finished, runs, edits>>

-----------------------------------------------------------------------------
(* Everyone else *)

Disturb ==
  /\ edits < MaxEdits /\ edits' = edits + 1
  /\ finished' = Nothing
  /\ cli' = IF cli = Nothing THEN cli ELSE [cli EXCEPT !.alone = FALSE]
  /\ UNCHANGED <<session, runs, ledgerDir>>

(* A person or the host adds a hook, beside ours or in our group, removes  *)
(* a group, allows a command, or leaves the file unreadable.               *)
EditSettings ==
  /\ Disturb
  /\ \/ \E e \in Events : settings' = [ReadSettings EXCEPT !.hooks[e] = Append(@, {"foreign"})]
     \/ \E e \in Events : \E i \in DOMAIN settings.hooks[e] :
          settings' \in {[settings EXCEPT !.hooks[e][i] = @ \cup {"foreign"}],
                         [settings EXCEPT !.hooks[e] = RemoveAt(@, i)]}
     \/ settings' = [ReadSettings EXCEPT !.other = TRUE]
     \/ settings' = [Empty EXCEPT !.is = "broken"]
  /\ settings' # settings
  /\ UNCHANGED <<mcp, plugin, ignore, present, installed>>

EditMcp ==
  /\ Disturb
  /\ \/ mcp' = [ReadMcp EXCEPT !.foreign = TRUE]
     \/ mcp.servers["patchmesh"] # {} /\ mcp' = [mcp EXCEPT !.servers["patchmesh"] = @ \cup {"extra"}]
     \/ mcp' = [EmptyMcp EXCEPT !.is = "broken"]
  /\ mcp' # mcp
  /\ UNCHANGED <<settings, plugin, ignore, present, installed>>

EditOther ==
  /\ Disturb
  /\ \/ /\ plugin' = "edited" /\ present' = present \cup {"opencode"}
        /\ UNCHANGED ignore
     \/ /\ ignore' \in {Select(ignore, {i \in DOMAIN ignore : ignore[i] # Entry}), <<"user", "">>}
        /\ UNCHANGED <<plugin, present>>
  /\ UNCHANGED <<settings, mcp, installed>>

(* An install, an upgrade that moves one, or a removal. *)
Reinstall ==
  /\ Disturb
  /\ installed' \in SUBSET Places
  /\ UNCHANGED <<settings, mcp, plugin, ignore, present>>

(* A session loads the hooks; a call it makes runs them, and the recorder  *)
(* makes its directory.                                                    *)
Loaded == [e \in Events |-> {c \in UNION Range(ReadSettings.hooks[e]) : OwnsCommand(c)}]
NoSession == [on |-> FALSE, hooks |-> [e \in Events |-> {}]]
OpenSession ==
  /\ ~session.on
  /\ session' = [on |-> TRUE, hooks |-> Loaded]
  /\ UNCHANGED <<files, present, installed, cli, finished, runs, edits>>
CloseSession ==
  /\ session.on /\ session' = NoSession
  /\ UNCHANGED <<files, present, installed, cli, finished, runs, edits>>
Records(hooks) == \E e \in Events : hooks[e] \cap installed # {}
Call ==
  /\ session.on /\ Records(session.hooks)
  /\ ledgerDir' = TRUE
  /\ UNCHANGED <<settings, mcp, plugin, ignore, present, installed, cli, session, finished, runs, edits>>

Init ==
  /\ settings \in {[Empty EXCEPT !.is = "none"], [Empty EXCEPT !.other = TRUE]}
  /\ mcp = IF settings.is = "none" THEN [EmptyMcp EXCEPT !.is = "none"] ELSE [EmptyMcp EXCEPT !.foreign = TRUE]
  /\ plugin = "none" /\ ledgerDir = FALSE
  /\ ignore \in {<< >>, <<"user">>}
  /\ present = {"codex"}
  /\ installed = {"global"}
  /\ cli = Nothing /\ session = NoSession /\ finished = Nothing
  /\ runs = 0 /\ edits = 0

Next == \/ Start \/ Look \/ Write \/ Done \/ Killed
        \/ EditSettings \/ EditMcp \/ EditOther \/ Reinstall
        \/ OpenSession \/ CloseSession \/ Call

Spec == Init /\ [][Next]_vars

-----------------------------------------------------------------------------
(* Properties *)

Shared(e) == \E g \in Range(settings.hooks[e]) : Ours(g) /\ "foreign" \in g
HookedBy(s) == {e \in Events : \E g \in Range(s.hooks[e]) : "foreign" \in g}

(* However often init is run, from whatever install and stopped wherever,  *)
(* each host event runs at most one command of PatchMesh's: a second one   *)
(* records every call twice (ownsCommand, init.ts:310-316).  Once init has *)
(* ended with nobody else at work, the same init would find nothing to do, *)
(* and doctor finds the hooks, the server and the entry; if it was forced  *)
(* and the binaries are where it looked, the commands run.                 *)
InitSettles ==
  /\ \A e \in Events : Cardinality({i \in DOMAIN settings.hooks[e] : settings.hooks[e][i] \cap Places # {}}) <= 1
  /\ finished.op = "init" =>
       /\ InstallHooks(FALSE) = settings /\ RegisterServer(FALSE) = mcp /\ IgnoreLedger = ignore
       /\ finished.host = "all" /\ "opencode" \in present => plugin # "none"
       /\ Diagnose.claude \in {"ok", "do not resolve"} /\ Diagnose.server /\ Diagnose.gitignore
       /\ finished.force /\ ResolveBinaries \in installed =>
            /\ Healthy /\ Records(Loaded)
            /\ finished.host = "opencode" => Diagnose.opencode = "ok"

(* The dry run of exit, written apart from its steps, names exactly the    *)
(* steps that would remove something (exit.ts:171-243 against 41-169), and *)
(* once exit has ended with nobody else at work, a session started then    *)
(* loads no hook of PatchMesh's, and no server, plugin or line under the   *)
(* names exit owns is left; a file that cannot be read is left as it is.   *)
ExitClean ==
  /\ ExitRepositoryDry = <<ledgerDir, RemovePatchmeshHooks # settings, RemoveMcpEntry # mcp,
                           plugin # "none", RemoveGitignoreEntry # ignore>>
  /\ finished.op = "exit" =>
       /\ \A e \in Events : Loaded[e] = {}
       /\ ReadMcp.servers["patchmesh"] = {} /\ plugin = "none"
       /\ \A l \in Range(ignore) : l \notin {Comment, Entry}

(* "An entry this tool did not write is never touched" (init.ts), as far   *)
(* as the code keeps it: a file written while nobody else acted keeps the  *)
(* other hooks, servers, keys and lines it holds, also through --force,    *)
(* but for a group ours shares with another hook, a plugin under our name, *)
(* and what was added to our own server entry, which leaves with it.       *)
ForeignKept ==
  [][cli # Nothing /\ cli.held /\ cli.alone /\ cli' # Nothing /\ ~cli'.held =>
       /\ HookedBy(settings) \ {e \in Events : Shared(e)} \subseteq HookedBy(settings')
       /\ settings.other => settings'.other
       /\ mcp.foreign => mcp'.foreign
       /\ cli.op = "init" /\ "extra" \in mcp.servers["patchmesh"] => "extra" \in mcp'.servers["patchmesh"]
       /\ plugin = "edited" => plugin' = "edited" \/ cli.force \/ cli.op = "exit"
       /\ Contains(ignore, "user") => Contains(ignore', "user")]_vars
=============================================================================
