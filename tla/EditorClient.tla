---------------------------- MODULE EditorClient ----------------------------
(***************************************************************************)
(* editors/vscode: the life of the language server of one editor window    *)
(* (client.ts, extension.ts, commands.ts, versionStatusItem.ts).  The      *)
(* activation and each restart command are calls that wait twice: for the  *)
(* executable to be looked up and for the server to start.  In between     *)
(* other commands, changed settings and the deactivation run.              *)
(***************************************************************************)
EXTENDS Integers, Sequences

CONSTANTS
    Paths,      \* Paths[n]: the executable under the n-th value of the settings
    Restarts,   \* calls of the restart command
    Activation  \* the call of activate

ASSUME EditorAssumption == Paths # <<>> /\ Activation \notin Restarts

Calls == Restarts \cup {Activation}

VARIABLES
    setting,    \* the value of the settings
    exe,        \* Client.exe; 0: not set
    servers,    \* the language clients made; the last one is Client.client
    call,       \* where each call is, and the executable it was given
    registered, \* the code lens command: the call that registered it, or none
    key,        \* the context key vue-tsgo.serverRunning
    shown,      \* the version item's text, as the executable it is of; 0: none
    subscribed, \* whether context.subscriptions has the activation's disposable
    disposed,
    overlapped  \* whether two calls looked up different executables at a time

vars == <<setting, exe, servers, call, registered, key, shown, subscribed, disposed, overlapped>>

Current == Len(servers)     \* 0: this.client is not set

Init ==
    /\ setting = 1
    /\ exe = 0
    /\ servers = <<>>
    /\ call = [c \in Calls |-> [at |-> IF c = Activation THEN "getExe" ELSE "idle", got |-> 1, server |-> 0]]
    /\ registered = {}
    /\ key = FALSE
    /\ shown = 0
    /\ subscribed = FALSE /\ disposed = FALSE
    /\ overlapped = FALSE

Goto(c, step) == call' = [call EXCEPT ![c].at = step]

Configure ==
    /\ setting < Len(Paths)
    /\ setting' = setting + 1
    /\ UNCHANGED <<exe, servers, call, registered, key, shown, subscribed, disposed, overlapped>>

-----------------------------------------------------------------------------
(* The restart command, up to the first await.  getExe reads the settings  *)
(* at once and then waits for the file system.                             *)
Restart(c) ==
    /\ c \in Restarts /\ call[c].at = "idle" /\ ~disposed
    /\ \/ Current = 0 /\ Goto(c, "rejected") /\ UNCHANGED overlapped
       \/ /\ Current # 0
          /\ call' = [call EXCEPT ![c] = [at |-> "getExe", got |-> setting, server |-> 0]]
          /\ overlapped' = (overlapped \/
                \E d \in Calls \ {c} : call[d].at = "getExe" /\ Paths[call[d].got] # Paths[setting])
    /\ UNCHANGED <<setting, exe, servers, registered, key, shown, subscribed, disposed>>

(* start, up to the second await: a client of its own, whatever became of  *)
(* the one before.                                                         *)
Start(c, path) ==
    /\ exe' = path
    /\ servers' = Append(servers, [exe |-> path, state |-> "starting"])
    /\ call' = [call EXCEPT ![c].at = "starting", ![c].server = Current + 1]

(* LanguageClient.restart (external), not waited for: a client that is     *)
(* starting cannot be stopped, one whose start failed may not either.      *)
RestartCurrent ==
    LET again == [servers EXCEPT ![Current].state = "starting"]
    IN  servers' \in CASE servers[Current].state \in {"running", "stopped"} -> {again}
                       [] servers[Current].state = "failed" -> {again, servers}
                       [] OTHER -> {servers}

(* Mutants: whether the path has changed is not asked; it is, but of the   *)
(* settings as they are when the answer comes.                             *)
PathChangedAlways(c) == TRUE
PathChangedSince(c) == setting # call[c].got

PathChanged(c) == Paths[call[c].got] # exe

GotExe(c) ==
    /\ call[c].at = "getExe"
    /\ \/ /\ c = Activation \/ PathChanged(c)
          /\ Start(c, Paths[call[c].got])
       \/ /\ c # Activation /\ ~PathChanged(c)
          /\ Goto(c, "done")
          /\ RestartCurrent
          /\ UNCHANGED exe
    /\ UNCHANGED <<setting, registered, key, shown, subscribed, disposed, overlapped>>

-----------------------------------------------------------------------------
(* The start of a server settles (external), and start goes on.            *)

Settles(i, state) == servers' = [servers EXCEPT ![i].state = state]

(* onStarted calls back at once, for by then exe is set; a server started  *)
(* later calls nobody back.  The command is registered a second time,      *)
(* which throws, unless the first start failed.                            *)
Started(c) ==
    /\ call[c].at = "starting"
    /\ Settles(call[c].server, "running")
    /\ key' = TRUE
    /\ \/ /\ registered = {}
          /\ registered' = {c}
          /\ Goto(c, "done")
          /\ subscribed' = (subscribed \/ c = Activation)
          /\ shown' = IF c = Activation THEN exe ELSE shown
       \/ /\ registered # {}
          /\ Goto(c, "rejected")
          /\ UNCHANGED <<registered, subscribed, shown>>
    /\ UNCHANGED <<setting, exe, disposed, overlapped>>

NotStarted(c) ==
    /\ call[c].at = "starting"
    /\ Settles(call[c].server, "failed")
    /\ Goto(c, "rejected")
    /\ UNCHANGED <<setting, exe, registered, key, shown, subscribed, disposed, overlapped>>

(* Of a server that LanguageClient.restart starts again.                   *)
StartedAgain(i) ==
    /\ servers[i].state = "starting"
    /\ \A c \in Calls : ~(call[c].at = "starting" /\ call[c].server = i)
    /\ \E state \in {"running", "failed"} : Settles(i, state)
    /\ UNCHANGED <<setting, exe, call, registered, key, shown, subscribed, disposed, overlapped>>

(* The extension is deactivated: the disposable stops the client there is  *)
(* now; a client that is starting refuses.                                 *)
Dispose ==
    /\ subscribed /\ ~disposed
    /\ servers' = IF servers[Current].state = "running"
                  THEN [servers EXCEPT ![Current].state = "stopped"] ELSE servers
    /\ registered' = {}
    /\ key' = FALSE
    /\ shown' = 0
    /\ disposed' = TRUE
    /\ UNCHANGED <<setting, exe, call, subscribed, overlapped>>

Next ==
    \/ Configure \/ Dispose
    \/ \E c \in Calls : Restart(c) \/ GotExe(c) \/ Started(c) \/ NotStarted(c)
    \/ \E i \in DOMAIN servers : StartedAgain(i)

Spec == Init /\ [][Next]_vars

-----------------------------------------------------------------------------
(* Properties. *)

Alive(i) == servers[i].state \in {"starting", "running"}
InFlight == {c \in Calls : call[c].at \in {"getExe", "starting"}}

(* However restarts and settings interleave, a window has one server per   *)
(* change of the executable: a server that lives on beside the current     *)
(* one was replaced by a server of another executable (restart).           *)
OneServerUnlessMoved ==
    \A i \in 1..(Current - 1) : Alive(i) => servers[i].exe # servers[i + 1].exe

(* Once no call is under way the current server runs the executable that   *)
(* the last restart found in the settings.  Not so when two calls looked   *)
(* up different ones at a time: the answers may come in the other order.   *)
SettingFollowed ==
    InFlight = {} /\ ~overlapped =>
        \A c \in Calls : (\A d \in Calls : call[d].got <= call[c].got) =>
            Paths[call[c].got] = servers[Current].exe
=============================================================================
