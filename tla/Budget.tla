------------------------------- MODULE Budget -------------------------------
(***************************************************************************)
(* cli/bin/vue-go-tsc: how much of the machine one run may take.  Memory   *)
(* in MiB; the fractions of the code are exact quotients.                  *)
(***************************************************************************)
EXTENDS Integers, FiniteSetsExt

CONSTANT Unknown    \* a measurement that failed

MinMemLimit == 1024
VolarBaseMem == 200
VolarWorkerMem == 200
MaxCodegenWorkers == 4

AtLeast(a, b) == Max({a, b})
AtMost(a, b) == Min({a, b})

(* Half of the cores, or the fair share of them. *)
CpuCap(cpus, instances) == AtLeast(1, AtMost(cpus \div 2, cpus \div instances))

(* Never more than is idle, but not squeezed below an eighth. *)
GoMaxProcs(cpus, instances, idle) ==
    LET cap == CpuCap(cpus, instances)
    IN  IF idle = Unknown THEN cap
        ELSE AtLeast(AtMost(cap, AtLeast(1, cpus \div 8)), AtMost(cap, idle))

(* Half of the memory, the share of three quarters of it, and no more than *)
(* four fifths of what is available.                                       *)
MemShare(total, instances, available) ==
    LET share == AtMost(total \div 2, (total * 3) \div (4 * instances))
    IN  IF available = Unknown THEN share ELSE AtMost(share, (available * 4) \div 5)

MemFloor(total) == AtMost(MinMemLimit, total \div 2)

GoMemLimit(total, instances, available) ==
    AtLeast(MemFloor(total), MemShare(total, instances, available))

CodegenWorkers(procs, available) ==
    LET byCpu == AtMost(MaxCodegenWorkers, AtLeast(1, procs \div 2))
    IN  IF available = Unknown \/ available = 0 THEN byCpu
        ELSE AtMost(byCpu, AtLeast(1, available \div (8 * VolarWorkerMem)))

(* What Volar's node processes take, they take out of the Go heap. *)
Reserved(workers) == IF workers = 0 THEN 0 ELSE VolarBaseMem + workers * VolarWorkerMem

(* Mutant: the workers are not taken out of the limit. *)
HeapLimitUnreserved(limit, workers) == limit

HeapLimit(limit, workers) ==
    IF workers = 0 THEN limit
    ELSE AtLeast(AtMost(MinMemLimit, limit), limit - Reserved(workers))

(* resolveEnv, no variable set by the user. *)
ResolveEnv(machine, instances, idle, available, codegen) ==
    LET procs == GoMaxProcs(machine.cpus, instances, idle)
        workers == IF codegen = "volar" THEN CodegenWorkers(procs, available) ELSE 0
        limit == GoMemLimit(machine.mem, instances, available)
    IN  [procs |-> procs, workers |-> workers, limit |-> HeapLimit(limit, workers)]
=============================================================================
