------------------------- MODULE PluginNodeSystem --------------------------
(***************************************************************************)
(* The Go host talking to a Node plugin over two bounded pipes.            *)
(***************************************************************************)
EXTENDS PluginHost, PluginNode

vars == <<pipeVars, hostVars, nodeVars>>

Init == PipesInit /\ HostInit /\ NodeInit

NodeStep == MainStep \/ \E w \in AllWorkers : WorkerStep(w) \/ WorkerThrows(w)

Next ==
    \/ HostStep /\ UNCHANGED nodeVars
    \/ NodeStep /\ UNCHANGED hostVars

(* Go schedules every goroutine that can run, Node every pending event;    *)
(* createServiceCode returns.  Nothing obliges the program to exit, a      *)
(* caller to start or a worker to throw.                                   *)
Fairness ==
    /\ WF_vars(ReaderStep /\ UNCHANGED nodeVars)
    /\ WF_vars(MainStep /\ UNCHANGED hostVars)
    /\ \A c \in Callers : WF_vars(pc[c] # "idle" /\ CallerStep(c) /\ UNCHANGED nodeVars)
    /\ \A w \in AllWorkers : WF_vars(WorkerStep(w) /\ UNCHANGED hostVars)

Spec == Init /\ [][Next]_vars
FairSpec == Spec /\ Fairness

-----------------------------------------------------------------------------
(* Properties. *)

FrameUnit(msgs) == [unit : {"header"}, lengthOf : Files] \cup [unit : {"payload"}, msg : msgs]
InitUnit == {InitFrame[1], InitFrame[2]}
Unit == InitUnit \cup FrameUnit(Message)

TypeOK ==
    /\ HostTypeOK
    /\ stdin \in Seq(Unit) /\ stdout \in Seq(Unit)
    /\ cpus \in CpuCounts
    /\ mainPc \in {"boot", "loop", "writing"}
    /\ mainOut \in Seq(Unit)
    /\ recvBuffer \in Seq(Unit)
    /\ busy \in [AllWorkers -> BOOLEAN]
    /\ task \in [AllWorkers -> SUBSET Message]
    /\ taskQueue \in Seq(Message)
    /\ outbox \in [AllWorkers -> Seq(Message)]
    /\ acks \in [AllWorkers -> Nat]

(* What the plugin has received and not parsed, and what is still on its   *)
(* way, is a sequence of whole frames, each header followed by the payload *)
(* it announces; only the last may lack the payload its writer is at.      *)
(* Two callers' writes never interleave (Plugin.mu around sendMessage).    *)
Wire == recvBuffer \o stdin

FramesIntact ==
    \A i \in 1..Len(Wire) :
        IF i % 2 = 1
        THEN Wire[i].unit = "header"
        ELSE Wire[i].unit = "payload" /\ Wire[i - 1] = Header(Wire[i].msg)

(* A worker handles one task at a time: the busy flag and the queue keep   *)
(* createServiceCode, which may await, from running twice in one worker.   *)
OneTaskPerWorker ==
    \A w \in AllWorkers :
        /\ Cardinality(task[w]) + acks[w] <= 1
        /\ task[w] # {} => busy[w]

-----------------------------------------------------------------------------
(* The inductive invariant behind AnswersOwnFile and FramesIntact: every   *)
(* message anywhere in the system is the request of one caller, and both   *)
(* pipes carry alternating headers and payloads.                           *)

PluginHoldsAsked ==
    /\ task \in [AllWorkers -> SUBSET Asked]
    /\ taskQueue \in Seq(Asked)
    /\ outbox \in [AllWorkers -> Seq(Asked)]

(* Requests: while the plugin lives, an announced payload is missing only  *)
(* when its caller is about to write it.                                   *)
WireFramed ==
    /\ Wire \in Seq(FrameUnit(Asked))
    /\ FramesIntact
    /\ PluginUp /\ Len(Wire) % 2 = 1 =>
          \E c \in Callers : pc[c] = "writePayload" /\ Wire[Len(Wire)] = Header(RequestOf(c))
    /\ PluginUp => \A c \in Callers : pc[c] = "writePayload" => Len(Wire) % 2 = 1

(* Responses: what the host has still to read starts with the rest of the  *)
(* initialization message, then frames; a header already read makes the    *)
(* stream start with a payload.                                            *)
OutStream == stdout \o mainOut
InitLeft == CASE readerPc = "initHeader" -> 2 [] readerPc = "initPayload" -> 1 [] OTHER -> 0
HeaderRead == IF readerPc \in {"initPayload", "payload"} THEN 1 ELSE 0

OutFramed ==
    /\ OutStream \in Seq(InitUnit \cup FrameUnit(Asked))
    /\ (Len(OutStream) + HeaderRead) % 2 = 0
    /\ \A i \in 1..Len(OutStream) :
          i > InitLeft => OutStream[i].unit = (IF (i + HeaderRead) % 2 = 1 THEN "header" ELSE "payload")
    /\ plugin = "starting" => OutStream = <<>> /\ readerPc = "initHeader" /\ host # "running"
    /\ plugin = "running" => Len(OutStream) >= InitLeft
    /\ plugin = "running" /\ mainPc # "writing" => mainOut = <<>>
    /\ plugin = "running" /\ mainPc = "writing" => mainOut # <<>>

ReaderOK ==
    /\ host = "starting" => readerPc \in {"initHeader", "initPayload"}
    /\ host = "running" => readerPc \notin {"initHeader", "initPayload"}
    /\ readerPc = "dispatch" => recvBuf \in Asked

IInv ==
    /\ TypeOK /\ IdsOwned /\ SendBufGuarded /\ PluginHoldsAsked
    /\ WireFramed /\ OutFramed /\ ReaderOK /\ AnswersOwnFile
=============================================================================
