---------------------------- MODULE PluginNode -----------------------------
(***************************************************************************)
(* packages/plugin/src/index.ts: a plugin written for Node.  The main      *)
(* thread splits stdin into frames and deals them to a pool of worker      *)
(* threads; a worker answers on its own stdout, which Node forwards to the *)
(* main thread's stdout, and acknowledges the task with a null message.    *)
(***************************************************************************)
EXTENDS PluginPipes, FiniteSets

CONSTANTS
    CpuCounts,  \* values of os.cpus().length considered
    EnvWorkers  \* GOLAR_PLUGIN_WORKERS, 0 when it is not set

MaxWorkers == 4
AllWorkers == 1..MaxWorkers

ASSUME CpuAssumption == CpuCounts \subseteq Nat \ {0} /\ EnvWorkers \in 0..MaxWorkers

VARIABLES
    cpus,       \* os.cpus().length
    mainPc,     \* "boot" | "loop" | "writing", the main thread's event loop
    mainOut,    \* units the main thread is writing to stdout, blocking
    recvBuffer, \* units received and not yet parsed
    busy,       \* each worker's busy flag
    task,       \* messages posted to a worker whose handler has not finished
    taskQueue,  \* frames waiting for a worker
    outbox,     \* responses a worker wrote that the main thread has not forwarded
    acks        \* null messages a worker posted that the main thread has not handled

nodeVars == <<cpus, mainPc, mainOut, recvBuffer, busy, task, taskQueue, outbox, acks>>

(* Number(env) || Math.max(Math.min(cpus / 2, 4), 1), counted in halves: *)
(* cpus / 2 is a fraction on a machine with an odd number of cores.      *)
WorkerHalves ==
    IF EnvWorkers # 0 THEN 2 * EnvWorkers
    ELSE LET half == IF cpus < 8 THEN cpus ELSE 8
         IN  IF half < 2 THEN 2 ELSE half

WorkerCountIsInteger == WorkerHalves % 2 = 0
Pool == 1..(WorkerHalves \div 2)

NodeInit ==
    /\ cpus \in CpuCounts
    /\ mainPc = "boot"
    /\ mainOut = <<>>
    /\ recvBuffer = <<>>
    /\ busy = [w \in AllWorkers |-> FALSE]
    /\ task = [w \in AllWorkers |-> {}]
    /\ taskQueue = <<>>
    /\ outbox = [w \in AllWorkers |-> <<>>]
    /\ acks = [w \in AllWorkers |-> 0]

NodeRuns == plugin = "running"

-----------------------------------------------------------------------------
(* Start: create the workers, then write the initialization message.       *)

Boot ==
    /\ plugin = "starting" /\ WorkerCountIsInteger
    /\ plugin' = "running"
    /\ mainPc' = "writing"
    /\ mainOut' = InitFrame
    /\ UNCHANGED <<cpus, recvBuffer, busy, task, taskQueue, outbox, acks, stdin, stdout, host>>

BootThrows ==           \* new Array(1.5) is a RangeError
    /\ plugin = "starting" /\ ~WorkerCountIsInteger
    /\ plugin' = "exited"
    /\ UNCHANGED <<nodeVars, stdin, stdout, host>>

-----------------------------------------------------------------------------
(* stdin.on('data'): append the chunk, then hand every complete frame to   *)
(* the first idle worker or to the queue, all in one event.                *)

Frames(buf) == [i \in 1..(Len(buf) \div 2) |-> buf[2 * i].msg]
Partial(buf) == SubSeq(buf, 2 * (Len(buf) \div 2) + 1, Len(buf))

Idle == {w \in Pool : ~busy[w]}
Rank(w) == Cardinality({v \in Idle : v <= w})   \* workers.find takes them in order
Dealt(w, ms) == w \in Idle /\ Rank(w) <= Len(ms)

StdinData(n) ==
    /\ NodeRuns /\ mainPc = "loop"
    /\ n \in 1..Len(stdin)
    /\ LET buf == recvBuffer \o SubSeq(stdin, 1, n)
           ms  == Frames(buf)
       IN  /\ busy' = [w \in AllWorkers |-> busy[w] \/ Dealt(w, ms)]
           /\ task' = [w \in AllWorkers |->
                          IF Dealt(w, ms) THEN task[w] \cup {ms[Rank(w)]} ELSE task[w]]
           /\ taskQueue' = taskQueue \o SubSeq(ms, Cardinality(Idle) + 1, Len(ms))
           /\ recvBuffer' = Partial(buf)
    /\ stdin' = SubSeq(stdin, n + 1, Len(stdin))
    /\ UNCHANGED <<cpus, mainPc, mainOut, outbox, acks, stdout, host, plugin>>

(* Mutant: the end of stdin is not listened to. *)
StdinEndIgnored == FALSE /\ UNCHANGED <<nodeVars, pipeVars>>

(* stdin.on('end'): the host closed the pipe and everything in it is read. *)
StdinEnd ==
    /\ NodeRuns /\ mainPc = "loop"
    /\ ~HostUp /\ stdin = <<>>
    /\ plugin' = "exited"
    /\ UNCHANGED <<nodeVars, stdin, stdout, host>>

-----------------------------------------------------------------------------
(* A worker's message handler. *)

(* The code is ready: write the response, then post the acknowledgement.   *)
WorkerDone(w, m) ==
    /\ NodeRuns
    /\ m \in task[w]
    /\ task' = [task EXCEPT ![w] = @ \ {m}]
    /\ outbox' = [outbox EXCEPT ![w] = Append(@, m)]
    /\ acks' = [acks EXCEPT ![w] = @ + 1]
    /\ UNCHANGED <<cpus, mainPc, mainOut, recvBuffer, busy, taskQueue, pipeVars>>

(* createServiceCode rejects: nothing handles it, the process dies.        *)
WorkerThrows(w) ==
    /\ NodeRuns
    /\ task[w] # {}
    /\ plugin' = "exited"
    /\ UNCHANGED <<nodeVars, stdin, stdout, host>>

(* Mutants of HandleAck: the queue is not looked at; its first task is     *)
(* read but not removed; the worker is freed although it got a task; the   *)
(* handler runs without a message.                                         *)
HandleAckIgnoresQueue(w) ==
    /\ NodeRuns /\ mainPc = "loop"
    /\ acks[w] > 0
    /\ acks' = [acks EXCEPT ![w] = @ - 1]
    /\ busy' = [busy EXCEPT ![w] = FALSE]
    /\ UNCHANGED <<cpus, mainPc, mainOut, recvBuffer, task, taskQueue, outbox, pipeVars>>

HandleAckPeeks(w) ==
    /\ NodeRuns /\ mainPc = "loop"
    /\ acks[w] > 0 /\ taskQueue # <<>>
    /\ acks' = [acks EXCEPT ![w] = @ - 1]
    /\ task' = [task EXCEPT ![w] = @ \cup {Head(taskQueue)}]
    /\ UNCHANGED <<cpus, mainPc, mainOut, recvBuffer, busy, taskQueue, outbox, pipeVars>>

HandleAckAlwaysFrees(w) ==
    /\ NodeRuns /\ mainPc = "loop"
    /\ acks[w] > 0 /\ taskQueue # <<>>
    /\ acks' = [acks EXCEPT ![w] = @ - 1]
    /\ busy' = [busy EXCEPT ![w] = FALSE]
    /\ task' = [task EXCEPT ![w] = @ \cup {Head(taskQueue)}]
    /\ taskQueue' = Tail(taskQueue)
    /\ UNCHANGED <<cpus, mainPc, mainOut, recvBuffer, outbox, pipeVars>>

(* worker.on('message') on the main thread. *)
HandleAck(w) ==
    /\ NodeRuns /\ mainPc = "loop"
    /\ acks[w] > 0
    /\ acks' = [acks EXCEPT ![w] = @ - 1]
    /\ \/ /\ taskQueue = <<>>
          /\ busy' = [busy EXCEPT ![w] = FALSE]
          /\ UNCHANGED <<task, taskQueue>>
       \/ /\ taskQueue # <<>>
          /\ task' = [task EXCEPT ![w] = @ \cup {Head(taskQueue)}]
          /\ taskQueue' = Tail(taskQueue)
          /\ UNCHANGED busy
    /\ UNCHANGED <<cpus, mainPc, mainOut, recvBuffer, outbox, pipeVars>>

-----------------------------------------------------------------------------
(* Node writes to a pipe synchronously: the event loop stands still until  *)
(* the whole frame is in it.                                               *)

Forward(w) ==
    /\ NodeRuns /\ mainPc = "loop"
    /\ outbox[w] # <<>>
    /\ mainPc' = "writing"
    /\ mainOut' = Frame(Head(outbox[w]))
    /\ outbox' = [outbox EXCEPT ![w] = Tail(@)]
    /\ UNCHANGED <<cpus, recvBuffer, busy, task, taskQueue, acks, pipeVars>>

MainWrite ==
    /\ NodeRuns /\ mainPc = "writing"
    /\ HostUp /\ Fits(stdout, 1)
    /\ stdout' = Append(stdout, Head(mainOut))
    /\ mainOut' = Tail(mainOut)
    /\ mainPc' = IF Len(mainOut) = 1 THEN "loop" ELSE "writing"
    /\ UNCHANGED <<cpus, recvBuffer, busy, task, taskQueue, outbox, acks, stdin, host, plugin>>

MainWriteFails ==       \* EPIPE: the error event has no listener
    /\ NodeRuns /\ mainPc = "writing"
    /\ ~HostUp
    /\ plugin' = "exited"
    /\ UNCHANGED <<nodeVars, stdin, stdout, host>>

MainStep ==
    \/ Boot \/ BootThrows \/ StdinEnd \/ MainWrite \/ MainWriteFails
    \/ \E n \in 1..Len(stdin) : StdinData(n)
    \/ \E w \in AllWorkers : HandleAck(w) \/ Forward(w)

WorkerStep(w) == \E m \in task[w] : WorkerDone(w, m)
=============================================================================
