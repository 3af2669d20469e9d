------------------------------ MODULE Launcher ------------------------------
(***************************************************************************)
(* cli/bin/vue-go-tsc: runs of the command line on one machine.  Each run  *)
(* registers itself in a shared directory, one file per process id, counts *)
(* the other live runs, sizes its budget by the count, starts tsgo and     *)
(* stays until it exits.  Every file system call is a step of its own: the *)
(* runs share the directory without a lock.                                *)
(***************************************************************************)
EXTENDS Budget, FiniteSets

CONSTANTS
    Runs,           \* runs of the command
    PidOf,          \* the process id each will have: [Runs -> Nat]
    Machine,        \* [cpus, mem]
    IdleCpus,       \* what the sampling may find idle
    AvailableMem,   \* what may be available
    Codegen,        \* "volar" | "go"
    Faults,         \* of "register", "start", "death": what may go wrong
    StaleAge,       \* STALE_ENTRY_MS, in ticks
    MaxTime         \* bound: ticks of the clock

ASSUME LauncherAssumption ==
    /\ PidOf \in [Runs -> Nat \ {0}]
    /\ Machine \in [cpus : Nat \ {0}, mem : Nat \ {0}]
    /\ IdleCpus \subseteq Nat \cup {Unknown}
    /\ AvailableMem \subseteq Nat \cup {Unknown}
    /\ Codegen \in {"volar", "go"}
    /\ Faults \subseteq {"register", "start", "death"}
    /\ StaleAge \in Nat \ {0} /\ MaxTime \in Nat

Pids == {PidOf[r] : r \in Runs}

VARIABLES
    now,        \* the clock
    entry,      \* REGISTRY_DIR: what the file of each process id says
    phase,      \* where each run's launcher is
    since,      \* Date.now() of the run's registerInstance
    registered, \* unregister will remove the entry
    listing,    \* readdir's names
    todo,       \* those not visited yet
    visiting,   \* the entry being looked at, and what was read of it
    counted,    \* process ids counted as live
    env,        \* GOMAXPROCS, GOLAR_PLUGIN_WORKERS, GOMEMLIMIT
    tsgo,       \* the child: "none" | "running" | "failed" | "ok" | "errors" | "killed"
    code        \* exit code of the launcher: Unknown | 0 | 1 | 137

vars == <<now, entry, phase, since, registered, listing, todo, visiting, counted, env, tsgo, code>>
scan == <<registered, listing, todo, visiting, counted>>
child == <<env, tsgo, code>>

Absent == -1
Empty == -2     \* created, nothing written: Number('') is 0, the epoch

Nothing == [pid |-> 0, says |-> Absent]     \* between two entries

Gone == {"off", "exited", "dead"}
Living(r) == phase[r] \notin Gone
Alive(p) == \E r \in Runs : PidOf[r] = p /\ Living(r)
Self(r) == PidOf[r]

Init ==
    /\ now = 0
    /\ entry = [p \in Pids |-> Absent]
    /\ phase = [r \in Runs |-> "off"]
    /\ since = [r \in Runs |-> 0]
    /\ registered = [r \in Runs |-> FALSE]
    /\ listing = [r \in Runs |-> {}]
    /\ todo = [r \in Runs |-> {}]
    /\ visiting = [r \in Runs |-> Nothing]
    /\ counted = [r \in Runs |-> {}]
    /\ env = [r \in Runs |-> Unknown]
    /\ tsgo = [r \in Runs |-> "none"]
    /\ code = [r \in Runs |-> Unknown]

Goto(r, step) == phase' = [phase EXCEPT ![r] = step]

-----------------------------------------------------------------------------
(* registerInstance *)

(* main, up to opening the entry for writing: the old content is lost. *)
Create(r) ==
    /\ phase[r] = "off" /\ ~Alive(Self(r))
    /\ since' = [since EXCEPT ![r] = now]
    /\ entry' = [entry EXCEPT ![Self(r)] = Empty]
    /\ Goto(r, "write")
    /\ UNCHANGED <<now, scan, child>>

Others(r) == {p \in Pids \ {Self(r)} : entry[p] # Absent}

(* Into the file opened before: one that was unlinked meanwhile stays gone.*)
Write(r) ==
    /\ phase[r] = "write"
    /\ entry' = [entry EXCEPT ![Self(r)] = IF @ = Absent THEN Absent ELSE since[r]]
    /\ registered' = [registered EXCEPT ![r] = TRUE]
    /\ Goto(r, "list")
    /\ UNCHANGED <<now, since, listing, todo, visiting, counted, child>>

(* The directory or the file cannot be written: alone, never unregistered. *)
RegisterFails(r) ==
    /\ "register" \in Faults
    /\ \/ phase[r] = "off" /\ ~Alive(Self(r))
       \/ phase[r] = "write"
    /\ Goto(r, "visit")
    /\ UNCHANGED <<now, entry, since, scan, child>>

List(r) ==
    /\ phase[r] = "list"
    /\ listing' = [listing EXCEPT ![r] = Others(r)]
    /\ todo' = [todo EXCEPT ![r] = Others(r)]
    /\ Goto(r, "visit")
    /\ UNCHANGED <<now, entry, since, registered, visiting, counted, child>>

(* An entry that is gone meanwhile is passed over. *)
ReadEntry(r) ==
    /\ phase[r] = "visit"
    /\ \E p \in todo[r] :
        /\ todo' = [todo EXCEPT ![r] = @ \ {p}]
        /\ IF entry[p] = Absent THEN UNCHANGED <<phase, visiting>>
           ELSE /\ visiting' = [visiting EXCEPT ![r] = [pid |-> p, says |-> entry[p]]]
                /\ Goto(r, "judge")
    /\ UNCHANGED <<now, entry, since, registered, listing, counted, child>>

LiveEntry(r) ==
    LET v == visiting[r] IN Alive(v.pid) /\ v.says # Empty /\ since[r] - v.says < StaleAge

Judge(r) ==
    /\ phase[r] = "judge"
    /\ IF LiveEntry(r)
       THEN /\ counted' = [counted EXCEPT ![r] = @ \cup {visiting[r].pid}]
            /\ visiting' = [visiting EXCEPT ![r] = Nothing]
            /\ Goto(r, "visit")
       ELSE Goto(r, "prune") /\ UNCHANGED <<counted, visiting>>
    /\ UNCHANGED <<now, entry, since, registered, listing, todo, child>>

Prune(r) ==
    /\ phase[r] = "prune"
    /\ entry' = [entry EXCEPT ![visiting[r].pid] = Absent]
    /\ visiting' = [visiting EXCEPT ![r] = Nothing]
    /\ Goto(r, "visit")
    /\ UNCHANGED <<now, since, registered, listing, todo, counted, child>>

-----------------------------------------------------------------------------
(* main *)

(* The sampling, resolveEnv and spawn. *)
Spawn(r) ==
    /\ phase[r] = "visit" /\ todo[r] = {}
    /\ \E idle \in IdleCpus, available \in AvailableMem :
        env' = [env EXCEPT ![r] =
            ResolveEnv(Machine, 1 + Cardinality(counted[r]), idle, available, Codegen)]
    /\ tsgo' = [tsgo EXCEPT ![r] = "running"]
    /\ Goto(r, "spawned")
    /\ UNCHANGED <<now, entry, since, scan, code>>

(* The signal handlers and the child's are installed. *)
Listen(r) ==
    /\ phase[r] = "spawned"
    /\ Goto(r, "running")
    /\ UNCHANGED <<now, entry, since, scan, child>>

(* tsgo cannot be started: the child's error handler exits with 1. *)
StartFails(r) ==
    /\ "start" \in Faults
    /\ phase[r] = "running" /\ tsgo[r] = "running"
    /\ tsgo' = [tsgo EXCEPT ![r] = "failed"]
    /\ code' = [code EXCEPT ![r] = 1]
    /\ Goto(r, "exiting")
    /\ UNCHANGED <<now, entry, since, scan, env>>

TsgoEnds(r, how) ==
    /\ tsgo[r] = "running"
    /\ tsgo' = [tsgo EXCEPT ![r] = how]
    /\ UNCHANGED <<now, entry, phase, since, scan, env, code>>

(* Mutant: a signal has no exit code. *)
ExitCodeOfSignalled(how) == IF how = "errors" THEN 1 ELSE 0

ExitCode(how) == CASE how = "ok" -> 0 [] how = "errors" -> 1 [] how = "killed" -> 137

TsgoExited(r) ==
    /\ phase[r] = "running"
    /\ tsgo[r] \in {"ok", "errors", "killed"}
    /\ code' = [code EXCEPT ![r] = ExitCode(tsgo[r])]
    /\ Goto(r, "exiting")
    /\ UNCHANGED <<now, entry, since, scan, env, tsgo>>

(* Mutant: the entry is left to the next run. *)
ExitRegistered(r) ==
    /\ phase[r] = "exiting"
    /\ Goto(r, "exited")
    /\ UNCHANGED <<now, entry, since, scan, child>>

(* process.on('exit'): unregister, which does nothing after RegisterFails. *)
Exit(r) ==
    /\ phase[r] = "exiting"
    /\ entry' = IF registered[r] THEN [entry EXCEPT ![Self(r)] = Absent] ELSE entry
    /\ Goto(r, "exited")
    /\ UNCHANGED <<now, since, scan, child>>

-----------------------------------------------------------------------------
(* The world. *)

(* SIGKILL, or a signal before the handlers are installed: the launcher    *)
(* dies without its exit handler, and a tsgo it has started goes on.  A    *)
(* signal after that is forwarded and is one of the ways tsgo ends.        *)
Dies(r) ==
    /\ "death" \in Faults
    /\ Living(r)
    /\ Goto(r, "dead")
    /\ UNCHANGED <<now, entry, since, scan, child>>

Tick ==
    /\ now < MaxTime
    /\ now' = now + 1
    /\ UNCHANGED <<entry, phase, since, scan, child>>

LauncherStep(r) ==
    \/ Write(r) \/ List(r) \/ ReadEntry(r) \/ Judge(r) \/ Prune(r)
    \/ Spawn(r) \/ Listen(r) \/ TsgoExited(r) \/ Exit(r)

Next ==
    \/ Tick
    \/ \E r \in Runs :
        \/ Create(r) \/ RegisterFails(r) \/ LauncherStep(r) \/ StartFails(r)
        \/ \E how \in {"ok", "errors", "killed"} : TsgoEnds(r, how)
        \/ Dies(r)

Spec == Init /\ [][Next]_vars

-----------------------------------------------------------------------------
(* Properties. *)

(* The launcher outlives its tsgo, and its exit code tells how it ended: 0 *)
(* for a clean check and for nothing else ("Report a killed tsgo as a      *)
(* failure, not a success").                                               *)
ExitTellsTsgo ==
    \A r \in Runs : phase[r] = "exited" =>
        /\ tsgo[r] \in {"failed", "ok", "errors", "killed"}
        /\ code[r] = 0 <=> tsgo[r] = "ok"

HasCounted(r) == phase[r] \in {"spawned", "running", "exiting"}

(* Whether the process id was given to a second run. *)
GivenTwice(p) ==
    \E q, s \in Runs : q # s /\ Self(q) = p /\ Self(s) = p /\ phase[q] # "off" /\ phase[s] # "off"

(* The registry holds nothing of runs that are over.  A run that ended     *)
(* through process.exit leaves no entry behind; what a run listed and did  *)
(* not count is gone when it has counted ("are pruned on the way"); unless *)
(* the process id was given to another run since.                          *)
RegistryTidy ==
    /\ \A r \in Runs : phase[r] = "exited" /\ registered[r] =>
        entry[Self(r)] = Absent \/ GivenTwice(Self(r))
    /\ \A r \in Runs : HasCounted(r) =>
        \A p \in listing[r] \ counted[r] : entry[p] = Absent \/ GivenTwice(p)

Working == {r \in Runs : tsgo[r] = "running"}
Settled == \A p, q \in Working : p # q => Self(q) \in counted[p]
Memory(r) == env[r].limit + Reserved(env[r].workers)

(* Runs that all know of each other split three quarters of the memory,    *)
(* what their Volar processes take included, as long as no one is at the   *)
(* floor below which a limit is never set; and they take no more than the  *)
(* cores there are, one each at the least, and none more than half.        *)
MachineShared ==
    /\ Settled /\ (\A r \in Working : env[r].limit > MinMemLimit)
        => 4 * SumFunction([r \in Working |-> Memory(r)]) <= 3 * Machine.mem
    /\ Settled =>
        SumFunction([r \in Working |-> env[r].procs]) <= AtLeast(Machine.cpus, Cardinality(Working))
    /\ \A r \in Working : env[r].procs <= AtLeast(1, Machine.cpus \div 2)
=============================================================================
