----------------------------- MODULE GoPlugin ------------------------------
(***************************************************************************)
(* plugin/plugin.go, Run: a plugin written in Go.  One goroutine reads     *)
(* stdin and feeds a channel; worker goroutines answer under writeMu.      *)
(***************************************************************************)
EXTENDS PluginPipes, FiniteSets

CONSTANTS
    Workers,    \* the worker goroutines (4 in the code)
    TasksCap,   \* capacity of the tasks channel (1000 in the code)
    Free        \* writeMu is not held, a worker has no task

ASSUME FreeAssumption == Free \notin Workers \cup Message

VARIABLES
    loopPc,     \* "init" | "initJson" | "header" | "payload" | "enqueue", the reading goroutine
    readBuf,    \* its receive buffer
    tasks,      \* the tasks channel
    workerPc,   \* "take" | "create" | "lock" | "header" | "payload" | "unlock"
    current,    \* the task each worker took
    writeMu     \* holder of writeMu, or Free

goVars == <<loopPc, readBuf, tasks, workerPc, current, writeMu>>
loopVars == <<loopPc, readBuf, tasks>>
workerVars == <<workerPc, current, writeMu>>

GoInit ==
    /\ loopPc = "init"
    /\ readBuf = Free
    /\ tasks = <<>>
    /\ workerPc = [w \in Workers |-> "take"]
    /\ current = [w \in Workers |-> Free]
    /\ writeMu = Free

-----------------------------------------------------------------------------
(* Run: write the initialization message, then read requests. *)

WriteInitLength ==
    /\ plugin = "starting"
    /\ HostUp /\ Fits(stdout, 1)
    /\ stdout' = Append(stdout, InitFrame[1])
    /\ plugin' = "running"
    /\ loopPc' = "initJson"
    /\ UNCHANGED <<readBuf, tasks, workerVars, stdin, host>>

WriteInitJson ==
    /\ plugin = "running" /\ loopPc = "initJson"
    /\ HostUp /\ Fits(stdout, 1)
    /\ stdout' = Append(stdout, InitFrame[2])
    /\ loopPc' = "header"
    /\ UNCHANGED <<readBuf, tasks, workerVars, stdin, host, plugin>>

WriteInitPanics ==      \* the host is gone
    /\ PluginUp /\ loopPc \in {"init", "initJson"}
    /\ ~HostUp
    /\ plugin' = "exited"
    /\ UNCHANGED <<goVars, stdin, stdout, host>>

LoopHeader ==
    /\ plugin = "running" /\ loopPc = "header"
    /\ stdin # <<>>
    /\ stdin' = Tail(stdin)
    /\ loopPc' = "payload"
    /\ UNCHANGED <<readBuf, tasks, workerVars, stdout, host, plugin>>

LoopPayload ==
    /\ plugin = "running" /\ loopPc = "payload"
    /\ stdin # <<>>
    /\ readBuf' = Head(stdin).msg
    /\ stdin' = Tail(stdin)
    /\ loopPc' = "enqueue"
    /\ UNCHANGED <<tasks, workerVars, stdout, host, plugin>>

Enqueue ==              \* tasks <- slices.Clone(recvBuf): blocks when full
    /\ plugin = "running" /\ loopPc = "enqueue"
    /\ Len(tasks) < TasksCap
    /\ tasks' = Append(tasks, readBuf)
    /\ loopPc' = "header"
    /\ UNCHANGED <<readBuf, workerVars, pipeVars>>

(* EOF: Run returns at a header and panics inside a frame; either way the  *)
(* process ends, whatever the workers still hold.                          *)
LoopEOF ==
    /\ plugin = "running" /\ loopPc \in {"header", "payload"}
    /\ ~HostUp /\ stdin = <<>>
    /\ plugin' = "exited"
    /\ UNCHANGED <<goVars, stdin, stdout, host>>

-----------------------------------------------------------------------------
(* A worker goroutine. *)

At(w, from, to) ==
    /\ plugin = "running" /\ workerPc[w] = from
    /\ workerPc' = [workerPc EXCEPT ![w] = to]

TakeTask(w) ==
    /\ At(w, "take", "create")
    /\ tasks # <<>>
    /\ current' = [current EXCEPT ![w] = Head(tasks)]
    /\ tasks' = Tail(tasks)
    /\ UNCHANGED <<loopPc, readBuf, writeMu, pipeVars>>

CreateCode(w) ==        \* opts.CreateServiceCodeWithSourceMap, into the worker's own sendBuf
    /\ At(w, "create", "lock")
    /\ UNCHANGED <<loopVars, current, writeMu, pipeVars>>

CreatePanics(w) ==
    /\ plugin = "running" /\ workerPc[w] = "create"
    /\ plugin' = "exited"
    /\ UNCHANGED <<goVars, stdin, stdout, host>>

(* Mutant: writeMu is not waited for. *)
LockWriteMuNotWaited(w) ==
    /\ At(w, "lock", "header")
    /\ writeMu' = w
    /\ UNCHANGED <<loopVars, current, pipeVars>>

LockWriteMu(w) ==
    /\ At(w, "lock", "header")
    /\ writeMu = Free
    /\ writeMu' = w
    /\ UNCHANGED <<loopVars, current, pipeVars>>

(* One Output.Write of header and payload; a full pipe splits it. *)
WriteUnit(w, from, to, unit) ==
    /\ At(w, from, to)
    /\ HostUp /\ Fits(stdout, 1)
    /\ stdout' = Append(stdout, unit)
    /\ UNCHANGED <<loopVars, current, writeMu, stdin, host, plugin>>

WriteResponse(w) ==
    \/ WriteUnit(w, "header", "payload", Header(current[w]))
    \/ WriteUnit(w, "payload", "unlock", Payload(current[w]))

WriteResponsePanics(w) ==
    /\ plugin = "running" /\ workerPc[w] \in {"header", "payload"}
    /\ ~HostUp
    /\ plugin' = "exited"
    /\ UNCHANGED <<goVars, stdin, stdout, host>>

(* Mutant: writeMu stays locked. *)
UnlockWriteMuForgotten(w) ==
    /\ At(w, "unlock", "take")
    /\ UNCHANGED <<loopVars, current, writeMu, pipeVars>>

UnlockWriteMu(w) ==
    /\ At(w, "unlock", "take")
    /\ writeMu' = Free
    /\ UNCHANGED <<loopVars, current, pipeVars>>

LoopStep ==
    \/ WriteInitLength \/ WriteInitJson \/ WriteInitPanics
    \/ LoopHeader \/ LoopPayload \/ Enqueue \/ LoopEOF

GoWorkerStep(w) ==
    \/ TakeTask(w) \/ CreateCode(w) \/ LockWriteMu(w)
    \/ WriteResponse(w) \/ WriteResponsePanics(w) \/ UnlockWriteMu(w)
=============================================================================
