SPECIFICATION Spec
CONSTANTS
    r1 = r1
    r2 = r2
    r3 = r3
    Unknown = Unknown
    Runs = {r1, r2, r3}
    PidOf <- Reused
    Machine <- Laptop
    IdleCpus = {6}
    AvailableMem = {16000}
    Codegen = "volar"
    Faults = {"register", "start", "death"}
    StaleAge = 1
    MaxTime = 1
INVARIANTS
    ExitTellsTsgo
    RegistryTidy
    MachineShared
CHECK_DEADLOCK FALSE
