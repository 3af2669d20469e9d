------------------------- MODULE EditorClientProofs -------------------------
(***************************************************************************)
(* Proofs about EditorClient: a server that lives on beside the current    *)
(* one was replaced by one of another executable, for any number of        *)
(* restarts and settings and however the calls interleave.                 *)
(***************************************************************************)
EXTENDS EditorClient, SequenceTheorems, TLAPS

Server == [exe : {Paths[n] : n \in Nat}, state : {"starting", "running", "failed", "stopped"}]
Steps == {"idle", "getExe", "starting", "done", "rejected"}
Call == [at : Steps, got : Nat, server : Nat]

Typed == servers \in Seq(Server) /\ call \in [Calls -> Call] /\ setting \in Nat

(* The client knows the executable of its current server; a call that      *)
(* looks an executable up is the activation, before any server, or a       *)
(* restart, after the first.                                               *)
ExeKnown ==
    /\ servers # <<>> => exe = servers[Len(servers)].exe
    /\ call[Activation].at = "getExe" => servers = <<>>
    /\ \A c \in Restarts : call[c].at = "getExe" => servers # <<>>
    /\ subscribed => servers # <<>>

(* A call that waits for its server is the only one that does. *)
StartAwaited ==
    /\ \A c \in Calls : call[c].at = "starting" =>
        call[c].server \in 1..Len(servers) /\ servers[call[c].server].state = "starting"
    /\ \A c, d \in Calls :
        c # d /\ call[c].at = "starting" /\ call[d].at = "starting" => call[c].server # call[d].server

ServersInv == Typed /\ ExeKnown /\ StartAwaited /\ OneServerUnlessMoved

-----------------------------------------------------------------------------
(* The servers. *)

LEMMA SetState ==
    ASSUME NEW s \in Seq(Server), NEW i \in 1..Len(s),
           NEW state \in {"starting", "running", "failed", "stopped"},
           NEW t, t = [s EXCEPT ![i].state = state]
    PROVE  /\ t \in Seq(Server) /\ Len(t) = Len(s)
           /\ t[i].state = state /\ t[i].exe = s[i].exe
           /\ \A j \in 1..Len(s) : j # i => t[j] = s[j]
<1>. DEFINE e == [s[i] EXCEPT !.state = state]
<1>1. s[i] \in Server
  BY ElementOfSeq
<1>2. e \in Server /\ e.state = state /\ e.exe = s[i].exe
  BY <1>1 DEF Server
<1>3. [s EXCEPT ![i] = e] \in Seq(Server) /\ Len([s EXCEPT ![i] = e]) = Len(s)
  BY <1>2, ExceptSeq
<1>. QED
  BY <1>2, <1>3

(* A change of state that starts nothing but the current server, and that  *)
(* leaves a server waited for as it is, keeps what the calls know.         *)
LEMMA StateStep ==
    ASSUME ServersInv, NEW i \in 1..Len(servers),
           NEW state \in {"starting", "running", "failed", "stopped"},
           servers' = [servers EXCEPT ![i].state = state],
           state \in {"starting", "running"} => Alive(i) \/ i = Len(servers)
    PROVE  /\ servers' \in Seq(Server) /\ Len(servers') = Len(servers)
           /\ servers # <<>> /\ servers' # <<>> /\ servers'[Len(servers)].exe = servers[Len(servers)].exe
           /\ servers'[i].state = state /\ \A j \in 1..Len(servers) : j # i => servers'[j] = servers[j]
           /\ OneServerUnlessMoved'
<1>1. /\ servers' \in Seq(Server) /\ Len(servers') = Len(servers)
      /\ servers'[i].state = state /\ servers'[i].exe = servers[i].exe
      /\ \A j \in 1..Len(servers) : j # i => servers'[j] = servers[j]
  BY SetState, SMTT(30) DEF ServersInv, Typed
<1>2. Len(servers) \in Nat /\ servers # <<>> /\ servers' # <<>>
  BY <1>1 DEF ServersInv, Typed
<1>3. \A j \in 1..Len(servers) : servers'[j].exe = servers[j].exe
  BY <1>1
<1>4. ASSUME NEW j \in 1..(Len(servers) - 1), Alive(j)' PROVE Alive(j)
  BY <1>1, <1>2, <1>4 DEF Alive
<1>5. OneServerUnlessMoved'
  <2>. SUFFICES ASSUME NEW j \in 1..(Len(servers) - 1), Alive(j)'
                PROVE  servers'[j].exe # servers'[j + 1].exe
    BY <1>1 DEF OneServerUnlessMoved, Current
  <2>1. Alive(j) /\ servers[j].exe # servers[j + 1].exe
    BY <1>4 DEF ServersInv, OneServerUnlessMoved, Current
  <2>2. j \in 1..Len(servers) /\ j + 1 \in 1..Len(servers)
    BY <1>2
  <2>. QED
    BY <1>3, <2>1, <2>2
<1>6. Len(servers) \in 1..Len(servers)
  BY <1>2
<1>. QED
  BY <1>1, <1>2, <1>3, <1>5, <1>6

(* A server of another executable, or the first one, is appended. *)
LEMMA StartStep ==
    ASSUME ServersInv, NEW c \in Calls, call[c].at = "getExe", GotExe(c),
           Start(c, Paths[call[c].got]), servers = <<>> \/ Paths[call[c].got] # exe
    PROVE  ServersInv'
<1>. DEFINE path == Paths[call[c].got]
            new == [exe |-> path, state |-> "starting"]
<1>1. call[c] \in Call /\ call[c].got \in Nat
  BY DEF ServersInv, Typed, Call, Steps
<1>2. new \in Server /\ servers \in Seq(Server)
  BY <1>1 DEF Server, ServersInv, Typed
<1>3. servers' = Append(servers, new) /\ exe' = path
  BY DEF Start
<1>4. /\ servers' \in Seq(Server) /\ Len(servers') = Len(servers) + 1 /\ Len(servers) \in Nat
      /\ \A i \in 1..Len(servers) : servers'[i] = servers[i]
      /\ servers'[Len(servers) + 1] = new
  BY <1>2, <1>3, AppendProperties
<1>5. /\ call' \in [Calls -> Call] /\ call'[c].at = "starting" /\ call'[c].server = Len(servers) + 1
      /\ \A d \in Calls \ {c} : call'[d] = call[d]
  <2>. DEFINE r == [at |-> "starting", got |-> call[c].got, server |-> Len(servers) + 1]
  <2>1. call' = [call EXCEPT ![c].at = "starting", ![c].server = Len(servers) + 1]
    BY DEF Start, Current
  <2>2. r \in Call
    BY <1>1, <1>4 DEF Call, Steps
  <2>3. call'[c] = [[call[c] EXCEPT !.at = "starting"] EXCEPT !.server = Len(servers) + 1]
    BY <2>1 DEF ServersInv, Typed
  <2>4. call'[c] = r
    BY <1>1, <2>3 DEF Call, Steps
  <2>. QED
    BY <2>1, <2>2, <2>4 DEF ServersInv, Typed
<1>6. Typed'
  BY <1>4, <1>5 DEF GotExe, ServersInv, Typed
<1>7. ExeKnown'
  BY <1>3, <1>4, <1>5 DEF ExeKnown, ServersInv, Calls, EditorAssumption
<1>8. StartAwaited'
  BY <1>4, <1>5 DEF StartAwaited, ServersInv
<1>9. OneServerUnlessMoved'
  <2>. SUFFICES ASSUME NEW i \in 1..Len(servers), Alive(i)'
                PROVE  servers'[i].exe # servers'[i + 1].exe
    BY <1>4 DEF OneServerUnlessMoved, Current
  <2>1. CASE i = Len(servers)
    <3>1. exe = servers[i].exe /\ servers # <<>>
      BY <2>1, <1>4 DEF ServersInv, ExeKnown
    <3>. QED
      BY <1>4, <2>1, <3>1
  <2>2. CASE i # Len(servers)
    <3>1. i \in 1..(Len(servers) - 1) /\ i + 1 \in 1..Len(servers)
      BY <1>4, <2>2
    <3>2. servers'[i] = servers[i] /\ servers'[i + 1] = servers[i + 1]
      BY <1>4, <3>1
    <3>. QED
      BY <3>1, <3>2 DEF ServersInv, OneServerUnlessMoved, Current, Alive
  <2>. QED
    BY <2>1, <2>2
<1>. QED
  BY <1>6, <1>7, <1>8, <1>9 DEF ServersInv

-----------------------------------------------------------------------------
(* The steps. *)

(* A step of a call that has no server to wait for afterwards.             *)
LEMMA CallAt ==
    ASSUME Typed, NEW c \in Calls, NEW at \in Steps, Goto(c, at)
    PROVE  /\ call' \in [Calls -> Call] /\ call'[c].at = at
           /\ \A d \in Calls \ {c} : call'[d] = call[d]
<1>1. call[c] \in Call
  BY DEF Typed
<1>2. [call[c] EXCEPT !.at = at] \in Call
  BY <1>1 DEF Call, Steps
<1>3. call' = [call EXCEPT ![c] = [call[c] EXCEPT !.at = at]]
  BY DEF Goto
<1>4. [call[c] EXCEPT !.at = at].at = at
  BY <1>1 DEF Call, Steps
<1>. QED
  BY <1>2, <1>3, <1>4 DEF Typed

LEMMA RestartStep ==
    ASSUME ServersInv, NEW c \in Calls, Restart(c)
    PROVE  ServersInv'
<1>1. c \in Restarts /\ UNCHANGED <<setting, exe, servers, subscribed>>
  BY DEF Restart
<1>2. CASE Current = 0 /\ Goto(c, "rejected")
  BY <1>1, <1>2, CallAt DEF Steps, ServersInv, Typed, ExeKnown, StartAwaited, OneServerUnlessMoved, Alive, Current, Calls
<1>3. ASSUME Current # 0, call' = [call EXCEPT ![c] = [at |-> "getExe", got |-> setting, server |-> 0]]
      PROVE  ServersInv'
  <2>1. call' \in [Calls -> Call] /\ call'[c].at = "getExe" /\ \A d \in Calls \ {c} : call'[d] = call[d]
    BY <1>3 DEF ServersInv, Typed, Call, Steps
  <2>2. servers # <<>> /\ c # Activation
    BY <1>1, <1>3, EditorAssumption DEF Current
  <2>. QED
    BY <1>1, <2>1, <2>2 DEF ServersInv, Typed, ExeKnown, StartAwaited, OneServerUnlessMoved, Alive, Current, Calls
<1>. QED
  BY <1>2, <1>3 DEF Restart

(* LanguageClient.restart, of a current server that no call waits for.     *)
LEMMA RestartCurrentStep ==
    ASSUME ServersInv, NEW c \in Calls, c # Activation, call[c].at = "getExe", Goto(c, "done"),
           RestartCurrent, UNCHANGED <<setting, exe, subscribed>>
    PROVE  ServersInv'
<1>. DEFINE i == Len(servers)
<1>1. servers # <<>> /\ i \in 1..Len(servers)
  BY DEF ServersInv, ExeKnown, Calls, Typed
<1>2. /\ call' \in [Calls -> Call] /\ call'[c].at = "done"
      /\ \A d \in Calls \ {c} : call'[d] = call[d]
  BY CallAt DEF ServersInv, Steps
<1>3. CASE servers' = servers
  BY <1>2, <1>3 DEF ServersInv, Typed, ExeKnown, StartAwaited, OneServerUnlessMoved, Alive, Current, Calls
<1>4. CASE servers[i].state # "starting" /\ servers' = [servers EXCEPT ![i].state = "starting"]
  <2>1. /\ servers' \in Seq(Server) /\ Len(servers') = Len(servers)
        /\ servers' # <<>> /\ servers'[Len(servers)].exe = servers[Len(servers)].exe
        /\ \A j \in 1..Len(servers) : j # i => servers'[j] = servers[j]
        /\ OneServerUnlessMoved'
    BY <1>1, <1>4, StateStep
  <2>2. StartAwaited'
    BY <1>2, <1>4, <2>1 DEF ServersInv, StartAwaited
  <2>3. ExeKnown'
    BY <1>1, <1>2, <2>1, EditorAssumption DEF ServersInv, ExeKnown, Calls
  <2>. QED
    BY <1>2, <2>1, <2>2, <2>3 DEF ServersInv, Typed
<1>5. \/ servers' = servers
      \/ servers[i].state # "starting" /\ servers' = [servers EXCEPT ![i].state = "starting"]
  BY DEF RestartCurrent, Current
<1>. QED
  BY <1>3, <1>4, <1>5

LEMMA GotExeStep ==
    ASSUME ServersInv, NEW c \in Calls, GotExe(c)
    PROVE  ServersInv'
<1>1. call[c].at = "getExe" /\ UNCHANGED <<setting, subscribed>>
  BY DEF GotExe
<1>2. CASE (c = Activation \/ PathChanged(c)) /\ Start(c, Paths[call[c].got])
  <2>1. servers = <<>> \/ Paths[call[c].got] # exe
    BY <1>1, <1>2 DEF ServersInv, ExeKnown, PathChanged
  <2>. QED
    BY <1>1, <1>2, <2>1, StartStep
<1>3. CASE c # Activation /\ Goto(c, "done") /\ RestartCurrent /\ UNCHANGED exe
  BY <1>1, <1>3, RestartCurrentStep
<1>. QED
  BY <1>2, <1>3 DEF GotExe

(* The server a call waits for settles. *)
LEMMA SettleStep ==
    ASSUME ServersInv, NEW c \in Calls, call[c].at = "starting",
           NEW state \in {"running", "failed"}, Settles(call[c].server, state),
           NEW at \in {"done", "rejected"}, Goto(c, at), UNCHANGED <<setting, exe>>
    PROVE  ServersInv'
<1>. DEFINE i == call[c].server
<1>1. i \in 1..Len(servers) /\ Alive(i)
  BY DEF ServersInv, StartAwaited, Alive
<1>2. /\ call' \in [Calls -> Call] /\ call'[c].at = at
      /\ \A d \in Calls \ {c} : call'[d] = call[d]
  BY CallAt DEF ServersInv, Steps
<1>3. /\ servers' \in Seq(Server) /\ Len(servers') = Len(servers)
      /\ servers # <<>> /\ servers' # <<>> /\ servers'[Len(servers)].exe = servers[Len(servers)].exe
      /\ \A j \in 1..Len(servers) : j # i => servers'[j] = servers[j]
      /\ OneServerUnlessMoved'
  BY <1>1, StateStep DEF Settles
<1>4. StartAwaited'
  BY <1>2, <1>3 DEF ServersInv, StartAwaited
<1>5. ExeKnown'
  BY <1>2, <1>3 DEF ServersInv, ExeKnown, Calls
<1>. QED
  BY <1>2, <1>3, <1>4, <1>5 DEF ServersInv, Typed

(* A server settles, or is stopped, that no call waits for. *)
LEMMA AloneStep ==
    ASSUME ServersInv, NEW i \in 1..Len(servers), Alive(i),
           \A c \in Calls : ~(call[c].at = "starting" /\ call[c].server = i),
           NEW state \in {"running", "failed", "stopped"}, Settles(i, state),
           UNCHANGED <<setting, exe, call>>
    PROVE  ServersInv'
<1>1. /\ servers' \in Seq(Server) /\ Len(servers') = Len(servers)
      /\ servers # <<>> /\ servers' # <<>> /\ servers'[Len(servers)].exe = servers[Len(servers)].exe
      /\ \A j \in 1..Len(servers) : j # i => servers'[j] = servers[j]
      /\ OneServerUnlessMoved'
  BY StateStep DEF Settles
<1>2. StartAwaited'
  BY <1>1 DEF ServersInv, StartAwaited
<1>3. ExeKnown'
  BY <1>1 DEF ServersInv, ExeKnown
<1>. QED
  BY <1>1, <1>2, <1>3 DEF ServersInv, Typed

LEMMA DisposeStep ==
    ASSUME ServersInv, Dispose
    PROVE  ServersInv'
<1>1. servers # <<>> /\ Len(servers) \in 1..Len(servers)
  BY DEF Dispose, ServersInv, ExeKnown, Typed
<1>2. CASE servers[Len(servers)].state = "running"
  BY <1>1, <1>2, AloneStep DEF Dispose, Settles, Current, Alive, ServersInv, StartAwaited
<1>3. CASE servers[Len(servers)].state # "running"
  BY <1>3 DEF Dispose, Current, ServersInv, Typed, ExeKnown, StartAwaited, OneServerUnlessMoved, Alive
<1>. QED
  BY <1>2, <1>3

LEMMA ServersStep == ServersInv /\ [Next]_vars => ServersInv'
<1>. SUFFICES ASSUME ServersInv, [Next]_vars PROVE ServersInv'
  OBVIOUS
<1>1. CASE Configure \/ UNCHANGED vars
  BY <1>1 DEF Configure, vars, ServersInv, Typed, ExeKnown, StartAwaited, OneServerUnlessMoved, Alive, Current
<1>2. CASE Dispose
  BY <1>2, DisposeStep
<1>3. ASSUME NEW c \in Calls, Restart(c) \/ GotExe(c) PROVE ServersInv'
  BY <1>3, RestartStep, GotExeStep
<1>4. ASSUME NEW c \in Calls, Started(c) \/ NotStarted(c) PROVE ServersInv'
  BY <1>4, SettleStep DEF Started, NotStarted
<1>5. ASSUME NEW i \in DOMAIN servers, StartedAgain(i) PROVE ServersInv'
  <2>1. i \in 1..Len(servers) /\ Alive(i)
    BY <1>5 DEF ServersInv, Typed, StartedAgain, Alive
  <2>. QED
    BY <1>5, <2>1, AloneStep DEF StartedAgain
<1>. QED
  BY <1>1, <1>2, <1>3, <1>4, <1>5 DEF Next

(* A window has one server per change of the executable (restart of        *)
(* client.ts starts a client without stopping the one there was).          *)
THEOREM ServersMoved == Spec => []OneServerUnlessMoved
<1>1. Init => ServersInv
  BY EditorAssumption DEF Init, ServersInv, Typed, ExeKnown, StartAwaited, OneServerUnlessMoved, Call, Steps, Calls, Current
<1>2. ServersInv => OneServerUnlessMoved
  BY DEF ServersInv
<1>. QED
  BY <1>1, <1>2, ServersStep, PTL DEF Spec

-----------------------------------------------------------------------------
(* Which settings the calls read, and which executable they lead to.       *)

Latest(c) == \A d \in Calls : call[d].got <= call[c].got
LooksUp(c) == call[c].at = "getExe"

(* Settings only go forward.  Unless two look-ups of different executables *)
(* overlapped, the calls that look one up agree with the latest, and when  *)
(* none does the client's executable is the one the latest found.          *)
FollowInv ==
    /\ \A c \in Calls : call[c].got <= setting
    /\ servers = <<>> => LooksUp(Activation)
    /\ ~overlapped =>
          \A c \in Calls : Latest(c) =>
              /\ \A d \in Calls : LooksUp(d) => Paths[call[d].got] = Paths[call[c].got]
              /\ (\A d \in Calls : ~LooksUp(d)) => Paths[call[c].got] = exe

(* Where no call begins a look-up or ends one, nothing changes.            *)
LEMMA CallMoves ==
    ASSUME Typed, FollowInv, NEW c \in Calls, ~LooksUp(c), NEW at \in Steps \ {"getExe"}, Goto(c, at),
           setting <= setting', setting' \in Nat, UNCHANGED <<exe, overlapped>>, Len(servers') = Len(servers),
           servers' \in Seq(Server)
    PROVE  FollowInv'
<1>1. /\ call' \in [Calls -> Call] /\ call'[c].at = at
      /\ \A d \in Calls \ {c} : call'[d] = call[d]
  BY CallAt
<1>2. \A d \in Calls : call'[d].got = call[d].got /\ (LooksUp(d)' <=> LooksUp(d)) /\ call[d].got \in Nat
  BY <1>1 DEF Goto, LooksUp, Typed, Call
<1>3. \A d \in Calls : Latest(d)' <=> Latest(d)
  BY <1>2 DEF Latest
<1>4. (servers' = <<>> <=> servers = <<>>) /\ Activation \in Calls
  BY DEF Typed, Calls
<1>. QED
  BY <1>2, <1>3, <1>4 DEF FollowInv, Typed

(* A restart command begins a look-up in the latest settings. *)
LEMMA FollowRestart ==
    ASSUME ServersInv, FollowInv, NEW c \in Calls, Restart(c)
    PROVE  FollowInv'
<1>1. UNCHANGED <<setting, exe, servers>> /\ call[c].at = "idle" /\ Typed /\ c # Activation /\ Activation \in Calls
  BY EditorAssumption DEF Restart, ServersInv, Calls
<1>2. CASE Current = 0 /\ Goto(c, "rejected") /\ overlapped' = overlapped
  BY <1>1, <1>2, CallMoves DEF Steps, LooksUp, Typed
<1>3. ASSUME call' = [call EXCEPT ![c] = [at |-> "getExe", got |-> setting, server |-> 0]],
             overlapped' = (overlapped \/
                \E d \in Calls \ {c} : call[d].at = "getExe" /\ Paths[call[d].got] # Paths[setting])
      PROVE  FollowInv'
  <2>1. /\ call'[c].at = "getExe" /\ call'[c].got = setting
        /\ \A d \in Calls \ {c} : call'[d] = call[d]
        /\ \A d \in Calls : call[d].got \in Nat
        /\ setting \in Nat
    BY <1>1, <1>3 DEF Typed, Call
  <2>2. \A d \in Calls : call'[d].got <= setting /\ call'[d].got \in Nat
    BY <2>1 DEF FollowInv
  <2>3. \A d \in Calls : Latest(d)' => call'[d].got = setting
    BY <2>1, <2>2 DEF Latest
  <2>4. ~overlapped' => \A d \in Calls : LooksUp(d)' => Paths[call'[d].got] = Paths[setting]
    BY <1>3, <2>1, ZenonT(40) DEF LooksUp
  <2>5. LooksUp(c)'
    BY <2>1 DEF LooksUp
  <2>6. servers = <<>> => LooksUp(Activation)'
    BY <1>1, <2>1 DEF FollowInv, LooksUp
  <2>. QED
    BY <1>1, <2>2, <2>3, <2>4, <2>5, <2>6 DEF FollowInv
<1>. QED
  BY <1>2, <1>3 DEF Restart

(* A look-up that ends sets the executable to what it found. *)
LEMMA FollowGotExe ==
    ASSUME ServersInv, ServersInv', FollowInv, NEW c \in Calls, GotExe(c)
    PROVE  FollowInv'
<1>1. LooksUp(c) /\ UNCHANGED <<setting, overlapped>> /\ Typed /\ servers \in Seq(Server)
  BY DEF GotExe, LooksUp, ServersInv, Typed
<1>2. exe' = Paths[call[c].got]
  BY DEF GotExe, Start, PathChanged
<1>3. /\ \A d \in Calls : call'[d].got = call[d].got /\ call[d].got \in Nat
      /\ \A d \in Calls : LooksUp(d)' => LooksUp(d)
  <2>1. CASE Start(c, Paths[call[c].got])
    BY <1>1, <2>1 DEF Start, LooksUp, Typed, Call
  <2>2. CASE Goto(c, "done")
    BY <1>1, <2>2 DEF Goto, LooksUp, Typed, Call
  <2>. QED
    BY <2>1, <2>2 DEF GotExe
<1>4. servers' # <<>>
  <2>1. CASE Start(c, Paths[call[c].got])
    BY <1>1, <2>1 DEF Start
  <2>2. CASE c # Activation /\ servers' # <<>>
    BY <2>2
  <2>3. CASE c # Activation /\ RestartCurrent
    <3>1. servers # <<>>
      BY <1>1, <2>3 DEF ServersInv, ExeKnown, Calls, LooksUp
    <3>2. servers' = servers \/ servers' = [servers EXCEPT ![Current].state = "starting"]
      BY <2>3 DEF RestartCurrent
    <3>. QED
      BY <1>1, <3>1, <3>2 DEF ServersInv, Typed
  <2>. QED
    BY <2>1, <2>3 DEF GotExe
<1>5. \A d \in Calls : Latest(d)' <=> Latest(d)
  BY <1>3 DEF Latest
<1>. QED
  BY <1>1, <1>2, <1>3, <1>4, <1>5 DEF FollowInv

(* No other step begins or ends a look-up. *)
LEMMA FollowStep == ServersInv /\ ServersInv' /\ FollowInv /\ [Next]_vars => FollowInv'
<1>. SUFFICES ASSUME ServersInv, ServersInv', FollowInv, [Next]_vars PROVE FollowInv'
  OBVIOUS
<1>0. Typed /\ Typed' /\ Activation \in Calls
  BY DEF ServersInv, Calls
<1>1. CASE Configure \/ Dispose \/ UNCHANGED vars \/ \E i \in DOMAIN servers : StartedAgain(i)
  <2>1. /\ setting <= setting' /\ UNCHANGED <<exe, call, overlapped>>
        /\ DOMAIN servers' = DOMAIN servers
    BY <1>0, <1>1 DEF Configure, Dispose, vars, StartedAgain, Settles, Typed
  <2>2. servers' = <<>> <=> servers = <<>>
    BY <1>0, <2>1 DEF Typed
  <2>3. \A c \in Calls : call[c].got <= setting'
    BY <1>0, <2>1 DEF FollowInv, Typed, Call
  <2>. QED
    BY <2>1, <2>2, <2>3 DEF FollowInv, LooksUp, Latest
<1>2. ASSUME NEW c \in Calls, Restart(c) \/ GotExe(c) PROVE FollowInv'
  BY <1>2, FollowRestart, FollowGotExe
<1>3. ASSUME NEW c \in Calls, Started(c) \/ NotStarted(c) PROVE FollowInv'
  <2>1. /\ ~LooksUp(c) /\ UNCHANGED <<setting, exe, overlapped>>
        /\ Goto(c, "done") \/ Goto(c, "rejected")
        /\ DOMAIN servers' = DOMAIN servers
    BY <1>0, <1>3 DEF Started, NotStarted, Settles, LooksUp, Typed
  <2>2. Len(servers') = Len(servers) /\ servers' \in Seq(Server) /\ setting \in Nat
    BY <1>0, <2>1 DEF Typed
  <2>. QED
    BY <1>0, <2>1, <2>2, CallMoves DEF Steps
<1>. QED
  BY <1>1, <1>2, <1>3 DEF Next

(* When all calls have ended the server runs what the latest one found in  *)
(* the settings, unless two look-ups of different executables overlapped.  *)
THEOREM SettingIsFollowed == Spec => []SettingFollowed
<1>1. Init => ServersInv
  BY EditorAssumption DEF Init, ServersInv, Typed, ExeKnown, StartAwaited, OneServerUnlessMoved, Call, Steps, Calls, Current
<1>2. Init => FollowInv
  <2>. SUFFICES ASSUME Init PROVE FollowInv
    OBVIOUS
  <2>1. /\ setting = 1 /\ servers = <<>> /\ LooksUp(Activation)
        /\ \A c \in Calls : call[c].got = 1
    BY DEF Init, LooksUp, Calls
  <2>2. Activation \in Calls
    BY DEF Calls
  <2>. QED
    BY <2>1, <2>2 DEF FollowInv, Latest
<1>3. ServersInv /\ FollowInv => SettingFollowed
  <2>. SUFFICES ASSUME ServersInv, FollowInv, InFlight = {}, ~overlapped, NEW c \in Calls,
                       \A d \in Calls : call[d].got <= call[c].got
                PROVE  Paths[call[c].got] = servers[Current].exe
    BY DEF SettingFollowed
  <2>1. (\A d \in Calls : ~LooksUp(d)) /\ Latest(c)
    BY DEF InFlight, LooksUp, Latest
  <2>2. Paths[call[c].got] = exe
    BY <2>1 DEF FollowInv
  <2>3. servers # <<>>
    BY <2>1 DEF FollowInv, Calls
  <2>. QED
    BY <2>2, <2>3 DEF ServersInv, ExeKnown, Current
<1>. QED
  BY <1>1, <1>2, <1>3, ServersStep, FollowStep, PTL DEF Spec
=============================================================================
