---------------------------- MODULE PluginHost -----------------------------
(***************************************************************************)
(* internal/pluginhost/pluginhost.go: the host's end of the protocol.      *)
(*                                                                         *)
(* A caller is a goroutine of the program loader inside CreateServiceCode; *)
(* each asks for one file and waits for the answer (golar.go parseFile).   *)
(* The callers share the request counter, the table of pending requests,   *)
(* the send buffer and the plugin's stdin; one reader goroutine owns the   *)
(* plugin's stdout.                                                        *)
(***************************************************************************)
EXTENDS PluginPipes

CONSTANTS
    Callers,    \* goroutines that load files
    None        \* no caller, no file, an empty buffer

ASSUME NoneAssumption == None \notin Callers \cup Files \cup Message

VARIABLES
    pc,         \* the step each caller is at
    fileOf,     \* the file a caller asks for
    idOf,       \* the request id a caller drew, 0 before
    answer,     \* what a caller's channel holds or its caller received: the file the code was made from
    reqId,      \* Plugin.reqId
    pending,    \* Plugin.createServiceCodeRequests: request id -> the caller whose callback it runs
    mu,         \* holder of Plugin.mu, None when free
    sendBuf,    \* Plugin.sendBuf, shared by all callers
    readerPc,   \* the step the reader goroutine is at
    recvBuf     \* the reader's receive buffer

hostVars == <<pc, fileOf, idOf, answer, reqId, pending, mu, sendBuf, readerPc, recvBuf>>
callerVars == <<pc, fileOf, idOf, answer, reqId, pending, mu, sendBuf>>
readerVars == <<readerPc, recvBuf>>

CallerSteps == {"idle", "store", "lock", "fill", "writeHeader", "writePayload",
                "unlock", "wait", "done"}

HostInit ==
    /\ pc = [c \in Callers |-> "idle"]
    /\ fileOf \in [Callers -> Files]
    /\ idOf = [c \in Callers |-> 0]
    /\ answer = [c \in Callers |-> None]
    /\ reqId = 0
    /\ pending = [i \in {} |-> None]
    /\ mu = None
    /\ sendBuf = None
    /\ readerPc = "initHeader"
    /\ recvBuf = None

RequestOf(c) == [id |-> idOf[c], file |-> fileOf[c]]

Goto(c, step) == pc' = [pc EXCEPT ![c] = step]

-----------------------------------------------------------------------------
(* NewPlugin: start the process, wait for its initialization message, then *)
(* start the reader goroutine.  A plugin that cannot be started, or dies   *)
(* before its initialization message, makes NewPlugin return an error.     *)

StartFails ==           \* cmd.Start
    /\ host = "starting" /\ plugin = "starting"
    /\ host' = "failed"
    /\ plugin' = "exited"
    /\ UNCHANGED <<callerVars, readerVars, stdin, stdout>>

ReadInitHeader ==
    /\ host = "starting" /\ readerPc = "initHeader"
    /\ stdout # <<>>
    /\ stdout' = Tail(stdout)
    /\ readerPc' = "initPayload"
    /\ UNCHANGED <<callerVars, recvBuf, stdin, host, plugin>>

ReadInitPayload ==
    /\ host = "starting" /\ readerPc = "initPayload"
    /\ stdout # <<>>
    /\ stdout' = Tail(stdout)
    /\ readerPc' = "header"
    /\ host' = "running"
    /\ UNCHANGED <<callerVars, recvBuf, stdin, plugin>>

(* Mutant: the error of the first ReadFull is not looked at. *)
NewPluginFailsIgnored == FALSE /\ UNCHANGED <<pipeVars, hostVars>>

NewPluginFails ==
    /\ host = "starting"
    /\ stdout = <<>> /\ ~PluginUp
    /\ host' = "failed"
    /\ UNCHANGED <<callerVars, readerVars, stdin, stdout, plugin>>

-----------------------------------------------------------------------------
(* CreateServiceCode, by caller c. *)

DrawId(c) ==            \* reqId := p.reqId.Add(1)
    /\ host = "running" /\ pc[c] = "idle"
    /\ reqId' = reqId + 1
    /\ idOf' = [idOf EXCEPT ![c] = reqId + 1]
    /\ Goto(c, "store")
    /\ UNCHANGED <<fileOf, answer, pending, mu, sendBuf, readerVars, pipeVars>>

StoreCallback(c) ==     \* p.createServiceCodeRequests.Store(reqId, ...)
    /\ host = "running" /\ pc[c] = "store"
    /\ pending' = [i \in DOMAIN pending \cup {idOf[c]} |->
                      IF i = idOf[c] THEN c ELSE pending[i]]
    /\ Goto(c, "lock")
    /\ UNCHANGED <<fileOf, idOf, answer, reqId, mu, sendBuf, readerVars, pipeVars>>

(* Mutant: the mutex is not waited for. *)
LockNotWaited(c) ==
    /\ host = "running" /\ pc[c] = "lock"
    /\ mu' = c
    /\ Goto(c, "fill")
    /\ UNCHANGED <<fileOf, idOf, answer, reqId, pending, sendBuf, readerVars, pipeVars>>

Lock(c) ==              \* p.mu.Lock()
    /\ host = "running" /\ pc[c] = "lock"
    /\ mu = None
    /\ mu' = c
    /\ Goto(c, "fill")
    /\ UNCHANGED <<fileOf, idOf, answer, reqId, pending, sendBuf, readerVars, pipeVars>>

(* Mutant: the counter is read again instead of the id Add returned. *)
FillSendBufLatestId(c) ==
    /\ host = "running" /\ pc[c] = "fill"
    /\ sendBuf' = [id |-> reqId, file |-> fileOf[c]]
    /\ Goto(c, "writeHeader")
    /\ UNCHANGED <<fileOf, idOf, answer, reqId, pending, mu, readerVars, pipeVars>>

FillSendBuf(c) ==       \* ensureCap and the copies into p.sendBuf
    /\ host = "running" /\ pc[c] = "fill"
    /\ sendBuf' = RequestOf(c)
    /\ Goto(c, "writeHeader")
    /\ UNCHANGED <<fileOf, idOf, answer, reqId, pending, mu, readerVars, pipeVars>>

(* sendMessage: a write to a full pipe blocks; a write to a dead plugin    *)
(* fails and sendMessage returns, its error ignored by the caller.         *)
WriteHeader(c) ==
    /\ host = "running" /\ pc[c] = "writeHeader"
    /\ \/ /\ PluginUp /\ Fits(stdin, 1)
          /\ stdin' = Append(stdin, Header(sendBuf))
          /\ Goto(c, "writePayload")
       \/ /\ ~PluginUp
          /\ Goto(c, "unlock")
          /\ UNCHANGED stdin
    /\ UNCHANGED <<fileOf, idOf, answer, reqId, pending, mu, sendBuf, readerVars,
                   stdout, host, plugin>>

WritePayload(c) ==
    /\ host = "running" /\ pc[c] = "writePayload"
    /\ \/ /\ PluginUp /\ Fits(stdin, 1)
          /\ stdin' = Append(stdin, Payload(sendBuf))
       \/ /\ ~PluginUp
          /\ UNCHANGED stdin
    /\ Goto(c, "unlock")
    /\ UNCHANGED <<fileOf, idOf, answer, reqId, pending, mu, sendBuf, readerVars,
                   stdout, host, plugin>>

Unlock(c) ==            \* the deferred p.mu.Unlock()
    /\ host = "running" /\ pc[c] = "unlock"
    /\ mu' = None
    /\ Goto(c, "wait")
    /\ UNCHANGED <<fileOf, idOf, answer, reqId, pending, sendBuf, readerVars, pipeVars>>

Receive(c) ==           \* <-plugin.CreateServiceCode(...)
    /\ host = "running" /\ pc[c] = "wait"
    /\ answer[c] # None
    /\ Goto(c, "done")
    /\ UNCHANGED <<fileOf, idOf, answer, reqId, pending, mu, sendBuf, readerVars, pipeVars>>

-----------------------------------------------------------------------------
(* The reader goroutine. *)

ReadHeader ==
    /\ host = "running" /\ readerPc = "header"
    /\ stdout # <<>>
    /\ stdout' = Tail(stdout)
    /\ readerPc' = "payload"
    /\ UNCHANGED <<callerVars, recvBuf, stdin, host, plugin>>

ReadPayload ==
    /\ host = "running" /\ readerPc = "payload"
    /\ stdout # <<>>
    /\ stdout' = Tail(stdout)
    /\ recvBuf' = Head(stdout).msg
    /\ readerPc' = "dispatch"
    /\ UNCHANGED <<callerVars, stdin, host, plugin>>

(* LoadAndDelete, then the callback: it parses recvBuf and sends on the    *)
(* caller's channel of capacity one.  An id without a callback makes the   *)
(* type assertion on nil panic.                                            *)
Dispatch ==
    /\ host = "running" /\ readerPc = "dispatch"
    /\ \/ /\ recvBuf.id \in DOMAIN pending
          /\ pending' = [i \in DOMAIN pending \ {recvBuf.id} |-> pending[i]]
          /\ answer' = [answer EXCEPT ![pending[recvBuf.id]] = recvBuf.file]
          /\ readerPc' = "header"
          /\ UNCHANGED host
       \/ /\ recvBuf.id \notin DOMAIN pending
          /\ host' = "panic"
          /\ UNCHANGED <<pending, answer, readerPc>>
    /\ UNCHANGED <<pc, fileOf, idOf, reqId, mu, sendBuf, recvBuf, stdin, stdout, plugin>>

ReaderEOF ==            \* ReadFull fails: the plugin died mid-run, os.Exit(1)
    /\ host = "running" /\ readerPc \in {"header", "payload"}
    /\ stdout = <<>> /\ ~PluginUp
    /\ host' = "exit1"
    /\ UNCHANGED <<callerVars, readerVars, stdin, stdout, plugin>>

-----------------------------------------------------------------------------
(* The program ends when every file it loaded is done, its diagnostics     *)
(* reported; main returns and the plugin's stdin closes.                   *)
HostExit ==
    /\ host = "running"
    /\ \A c \in Callers : pc[c] \in {"idle", "done"}
    /\ host' = "exited"
    /\ UNCHANGED <<callerVars, readerVars, stdin, stdout, plugin>>

HostKilled ==           \* a signal, at any time
    /\ HostUp
    /\ host' = "killed"
    /\ UNCHANGED <<callerVars, readerVars, stdin, stdout, plugin>>

CallerStep(c) ==
    \/ DrawId(c) \/ StoreCallback(c) \/ Lock(c) \/ FillSendBuf(c)
    \/ WriteHeader(c) \/ WritePayload(c) \/ Unlock(c) \/ Receive(c)

ReaderStep ==
    \/ StartFails \/ ReadInitHeader \/ ReadInitPayload \/ NewPluginFails
    \/ ReadHeader \/ ReadPayload \/ Dispatch \/ ReaderEOF

HostStep == ReaderStep \/ HostExit \/ HostKilled \/ \E c \in Callers : CallerStep(c)

-----------------------------------------------------------------------------
(* Properties of the host's side, whatever kind of plugin it talks to.     *)

HostTypeOK ==
    /\ host \in {"starting", "running", "failed", "exited", "exit1", "panic", "killed"}
    /\ plugin \in {"starting", "running", "exited"}
    /\ pc \in [Callers -> CallerSteps]
    /\ fileOf \in [Callers -> Files]
    /\ idOf \in [Callers -> Nat]
    /\ answer \in [Callers -> Files \cup {None}]
    /\ reqId \in Nat
    /\ DOMAIN pending \subseteq Nat
    /\ \A i \in DOMAIN pending : pending[i] \in Callers
    /\ mu \in Callers \cup {None}
    /\ sendBuf \in Message \cup {None}
    /\ readerPc \in {"initHeader", "initPayload", "header", "payload", "dispatch"}
    /\ recvBuf \in Message \cup {None}

(* However the calls, the shared send buffer, the workers and the reader   *)
(* interleave, a caller is only ever answered with the code made from the  *)
(* file it asked for (CreateServiceCode, reader goroutine of NewPlugin).   *)
AnswersOwnFile == \A c \in Callers : answer[c] \in {None, fileOf[c]}

(* Every response finds the callback of its request: none arrives before   *)
(* its callback is stored, twice, or for an id nobody drew, which would    *)
(* make the reader goroutine panic on a nil callback (pluginhost.go:86).   *)
EveryResponseIsExpected == host # "panic"

(* NewPlugin returns, with a running plugin or with an error.              *)
NewPluginReturns == host = "starting" ~> host # "starting"

(* A plugin does not outlive its host ("The host closing our stdin means   *)
(* it exited: stop the workers too", packages/plugin/src/index.ts:105).    *)
NoOrphanPlugin == ~HostUp ~> ~PluginUp

(* The calls as the abstract service sees them. *)
ServiceOf == CASE host = "starting" -> "starting"
               [] host = "running"  -> "up"
               [] host = "exited"   -> "ended"
               [] OTHER             -> "stopped"

Rpc == INSTANCE PluginRpc WITH
    wanted <- fileOf,
    asked <- {c \in Callers : pc[c] # "idle"},
    got <- answer,
    service <- ServiceOf

(* The protocol implements the abstract service, with its fairness: each   *)
(* call made is answered once, with its own file's code, unless the host   *)
(* stops (no lost request, no deadlock between full pipes, the mutex, the  *)
(* reader and the workers), and regular exit leaves no call open.          *)
ImplementsRpc == Rpc!Spec

(* Its safety part: every call is answered at most once and with the code  *)
(* of its own file, while the service is up, and the service ends only     *)
(* between calls.                                                          *)
ImplementsRpcSafely == Rpc!SafeSpec

-----------------------------------------------------------------------------
(* What the proofs know of the host in every state: which requests were    *)
(* asked for, that ids are unique, and that the mutex guards the buffer.   *)

Asked == {RequestOf(c) : c \in {d \in Callers : idOf[d] # 0}}

(* An id has one owner, and a callback runs for the owner of its id. *)
IdsOwned ==
    /\ \A c \in Callers : idOf[c] <= reqId /\ (idOf[c] = 0 <=> pc[c] = "idle")
    /\ \A c, d \in Callers : idOf[c] = idOf[d] /\ idOf[c] # 0 => c = d
    /\ \A i \in DOMAIN pending : i # 0 /\ idOf[pending[i]] = i

Critical == {"fill", "writeHeader", "writePayload", "unlock"}

SendBufGuarded ==
    /\ \A c \in Callers : pc[c] \in Critical => mu = c
    /\ \A c \in Callers : pc[c] \in {"writeHeader", "writePayload"} => sendBuf = RequestOf(c)
=============================================================================
