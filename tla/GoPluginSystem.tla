-------------------------- MODULE GoPluginSystem ---------------------------
(***************************************************************************)
(* The Go host talking to a Go plugin over two bounded pipes.              *)
(***************************************************************************)
EXTENDS PluginHost, GoPlugin

goSystemVars == <<pipeVars, hostVars, goVars>>

GoSystemInit == PipesInit /\ HostInit /\ GoInit

PluginStep == LoopStep \/ \E w \in Workers : GoWorkerStep(w) \/ CreatePanics(w)

GoNext ==
    \/ HostStep /\ UNCHANGED goVars
    \/ PluginStep /\ UNCHANGED hostVars

(* Every goroutine that can run is scheduled; nothing obliges the program  *)
(* to exit, a caller to start or the code generator to panic.              *)
GoFairness ==
    /\ WF_goSystemVars(ReaderStep /\ UNCHANGED goVars)
    /\ WF_goSystemVars(LoopStep /\ UNCHANGED hostVars)
    /\ \A c \in Callers : WF_goSystemVars(pc[c] # "idle" /\ CallerStep(c) /\ UNCHANGED goVars)
    /\ \A w \in Workers : WF_goSystemVars(GoWorkerStep(w) /\ UNCHANGED hostVars)

GoSpec == GoSystemInit /\ [][GoNext]_goSystemVars
GoFairSpec == GoSpec /\ GoFairness

-----------------------------------------------------------------------------
(* Properties. *)

(* The responses in the plugin's stdout are whole frames: a header and its *)
(* payload are adjacent although four workers write (writeMu).             *)
ResponsesIntact ==
    LET first == IF readerPc = "payload" THEN 1 ELSE 0
    IN  host = "running" =>
          \A i \in 1..Len(stdout) :
            IF (i + first) % 2 = 1
            THEN stdout[i].unit = "header"
            ELSE /\ stdout[i].unit = "payload"
                 /\ i > 1 => stdout[i - 1] = Header(stdout[i].msg)
=============================================================================
