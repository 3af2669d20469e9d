----------------------------- MODULE CliProofs -----------------------------
(***************************************************************************)
(* Proofs about the command line package, Launcher and Installer.          *)
(*                                                                         *)
(* Launcher: what the exit code tells, a tidy registry and a shared        *)
(* machine, for any number of runs, whichever of them die, fail to         *)
(* register or have the process id of an earlier one, and however long     *)
(* each step takes.                                                        *)
(*                                                                         *)
(* Installer: no truncated binary, no false success and no temporary file  *)
(* behind a success, for any number of installs, package directories and   *)
(* process ids, whichever of them are killed or cut off.                   *)
(***************************************************************************)
EXTENDS Launcher, Installer, FiniteSetTheorems, WellFoundedInduction, TLAPS

-----------------------------------------------------------------------------
(* The exit code. *)

BeforeTsgo == {"off", "write", "list", "visit", "judge", "prune"}
Ends == {"failed", "ok", "errors", "killed"}

(* What the phase of a run says of its tsgo. *)
ChildInv ==
    /\ DOMAIN phase = Runs /\ DOMAIN tsgo = Runs /\ DOMAIN code = Runs
    /\ \A r \in Runs : phase[r] \in BeforeTsgo => tsgo[r] = "none"
    /\ \A r \in Runs : phase[r] \in {"exiting", "exited"} =>
        tsgo[r] \in Ends /\ (code[r] = 0 <=> tsgo[r] = "ok")

LEMMA ChildInit == Init => ChildInv
BY DEF Init, ChildInv, BeforeTsgo

(* A launcher that has no tsgo yet, or whose tsgo runs, has no exit code   *)
(* to keep; the others have one of the ways tsgo ends behind them.         *)
LEMMA ChildStep == ChildInv /\ [Next]_vars => ChildInv'
<1>. SUFFICES ASSUME ChildInv, [Next]_vars PROVE ChildInv'
  OBVIOUS
<1>. USE DEF ChildInv, BeforeTsgo, Ends, Goto
<1>1. CASE Tick
  BY <1>1 DEF Tick, child
<1>2. ASSUME NEW r \in Runs, Create(r) \/ RegisterFails(r) PROVE ChildInv'
  BY <1>2 DEF Create, RegisterFails, child
<1>3. ASSUME NEW r \in Runs, Write(r) \/ List(r) \/ ReadEntry(r) \/ Judge(r) \/ Prune(r) PROVE ChildInv'
  BY <1>3 DEF Write, List, ReadEntry, Judge, Prune, child
<1>4. ASSUME NEW r \in Runs, Spawn(r) PROVE ChildInv'
  BY <1>4 DEF Spawn
<1>5. ASSUME NEW r \in Runs, Listen(r) \/ Exit(r) \/ Dies(r) PROVE ChildInv'
  BY <1>5 DEF Listen, Exit, Dies, child
<1>6. ASSUME NEW r \in Runs, StartFails(r) PROVE ChildInv'
  BY <1>6 DEF StartFails
<1>7. ASSUME NEW r \in Runs, TsgoExited(r) PROVE ChildInv'
  BY <1>7 DEF TsgoExited, ExitCode
<1>8. ASSUME NEW r \in Runs, NEW how \in {"ok", "errors", "killed"}, TsgoEnds(r, how) PROVE ChildInv'
  BY <1>8 DEF TsgoEnds
<1>9. CASE UNCHANGED vars
  BY <1>9 DEF vars
<1>. QED
  BY <1>1, <1>2, <1>3, <1>4, <1>5, <1>6, <1>7, <1>8, <1>9 DEF Next, LauncherStep

(* A launcher exits only after its tsgo, with 0 for a clean check and for  *)
(* nothing else (the child's exit and error handlers of main).             *)
THEOREM ExitCodesTellTsgo == Spec => []ExitTellsTsgo
<1>1. ChildInv => ExitTellsTsgo
  BY DEF ChildInv, ExitTellsTsgo, Ends
<1>. QED
  BY <1>1, ChildInit, ChildStep, PTL DEF Spec

-----------------------------------------------------------------------------
(* The registry. *)

StartedAs(p) == \E q \in Runs : Self(q) = p /\ phase[q] # "off"

Visiting(r) == phase[r] \in {"judge", "prune"}
Scanned(r) == Visiting(r) \/ phase[r] = "visit" \/ HasCounted(r)

(* An entry was made by a run; so was every entry that a run has listed.   *)
EntriesMade ==
    /\ DOMAIN entry = Pids /\ DOMAIN phase = Runs
    /\ \A p \in Pids : entry[p] # Absent => StartedAs(p)

ScanSound(r) ==
    /\ \A p \in listing[r] : p \in Pids /\ StartedAs(p)
    /\ phase[r] \in {"off", "write", "list"} => listing[r] = {}
    /\ todo[r] \subseteq Pids
    /\ Visiting(r) => visiting[r].pid \in Pids
    /\ HasCounted(r) => todo[r] = {}

(* What was listed is counted, gone or still to be looked at.              *)
Accounted(r) ==
    Scanned(r) => \A p \in listing[r] \ counted[r] :
        \/ p \in todo[r]
        \/ Visiting(r) /\ visiting[r].pid = p
        \/ entry[p] = Absent
        \/ GivenTwice(p)

Unregistered(r) ==
    phase[r] = "exited" /\ registered[r] => entry[Self(r)] = Absent \/ GivenTwice(Self(r))

ScanTyped ==
    /\ DOMAIN registered = Runs /\ DOMAIN listing = Runs /\ DOMAIN todo = Runs
    /\ DOMAIN visiting = Runs /\ DOMAIN counted = Runs

Knows(r) == ScanSound(r) /\ Accounted(r) /\ Unregistered(r)

RegistryInv ==
    /\ EntriesMade /\ ScanTyped
    /\ \A r \in Runs : Knows(r)

SameScan(r) ==
    /\ phase'[r] = phase[r] /\ registered'[r] = registered[r] /\ listing'[r] = listing[r]
    /\ todo'[r] = todo[r] /\ visiting'[r] = visiting[r] /\ counted'[r] = counted[r]

LEMMA RegistryInit == Init => RegistryInv
BY DEF Init, RegistryInv, Knows, EntriesMade, ScanTyped, ScanSound, Accounted, Unregistered,
       StartedAs, Visiting, Scanned, HasCounted

LEMMA OwnPid == ASSUME NEW r \in Runs PROVE Self(r) \in Pids
BY DEF Self, Pids

(* A step of run r moves the phase of r alone, and of no run back to off.  *)
LEMMA PhaseMoves ==
    ASSUME EntriesMade, [Next]_vars
    PROVE  DOMAIN phase' = Runs /\ \A q \in Runs : phase[q] # "off" => phase'[q] # "off"
<1>. USE DEF EntriesMade, Goto
<1>1. CASE Tick \/ UNCHANGED vars
  BY <1>1 DEF Tick, vars
<1>2. ASSUME NEW r \in Runs, Create(r) \/ RegisterFails(r) \/ StartFails(r) \/ Dies(r)
      PROVE  DOMAIN phase' = Runs /\ \A q \in Runs : phase[q] # "off" => phase'[q] # "off"
  BY <1>2 DEF Create, RegisterFails, StartFails, Dies
<1>3. ASSUME NEW r \in Runs, LauncherStep(r)
      PROVE  DOMAIN phase' = Runs /\ \A q \in Runs : phase[q] # "off" => phase'[q] # "off"
  BY <1>3 DEF LauncherStep, Write, List, ReadEntry, Judge, Prune, Spawn, Listen, TsgoExited, Exit
<1>4. ASSUME NEW r \in Runs, NEW how \in {"ok", "errors", "killed"}, TsgoEnds(r, how)
      PROVE  DOMAIN phase' = Runs /\ \A q \in Runs : phase[q] # "off" => phase'[q] # "off"
  BY <1>4 DEF TsgoEnds
<1>. QED
  BY <1>1, <1>2, <1>3, <1>4 DEF Next

LEMMA StartsLast ==
    ASSUME EntriesMade, [Next]_vars
    PROVE  /\ \A p : StartedAs(p) => StartedAs(p)'
           /\ \A p : GivenTwice(p) => GivenTwice(p)'
BY PhaseMoves DEF StartedAs, GivenTwice, Self

(* An entry comes to be only with the start of a run of that process id,   *)
(* a second one when there was a first.                                    *)
LEMMA EntryComes ==
    ASSUME RegistryInv, [Next]_vars, NEW p \in Pids, entry[p] = Absent, entry'[p] # Absent
    PROVE  StartedAs(p)' /\ (StartedAs(p) => GivenTwice(p)')
<1>. USE DEF RegistryInv, EntriesMade
<1>1. PICK r \in Runs : Create(r) /\ Self(r) = p
  <2>1. ASSUME NEW r \in Runs, Write(r) PROVE FALSE
    BY <2>1, OwnPid DEF Write
  <2>2. ASSUME NEW r \in Runs, Prune(r) \/ Exit(r) PROVE FALSE
    BY <2>2, OwnPid DEF Prune, Exit
  <2>3. ASSUME NEW r \in Runs, Create(r) PROVE Self(r) = p
    BY <2>3, OwnPid DEF Create
  <2>. QED
    BY <2>1, <2>2, <2>3 DEF Next, LauncherStep, Tick, RegisterFails, List, ReadEntry, Judge, Spawn,
       Listen, TsgoExited, StartFails, TsgoEnds, Dies, vars
<1>2. phase[r] = "off" /\ phase'[r] = "write"
  BY <1>1 DEF Create, Goto
<1>3. ASSUME NEW q \in Runs, Self(q) = p, phase[q] # "off" PROVE q # r /\ phase'[q] # "off"
  BY <1>2, <1>3, PhaseMoves
<1>. QED
  BY <1>1, <1>2, <1>3 DEF StartedAs, GivenTwice, Self

LEMMA EntriesStep ==
    ASSUME RegistryInv, [Next]_vars
    PROVE  EntriesMade'
<1>1. DOMAIN entry' = Pids
  BY DEF Next, LauncherStep, Tick, Create, Write, RegisterFails, List, ReadEntry, Judge, Prune, Spawn,
     Listen, TsgoExited, StartFails, TsgoEnds, Exit, Dies, vars, RegistryInv, EntriesMade
<1>2. ASSUME NEW p \in Pids, entry'[p] # Absent PROVE StartedAs(p)'
  BY <1>2, EntryComes, StartsLast DEF RegistryInv, EntriesMade
<1>. QED
  BY <1>1, <1>2, PhaseMoves DEF RegistryInv, EntriesMade, StartedAs, Self

(* What a run knows of the registry survives a step that is not its own.   *)
LEMMA KnowledgeLasts ==
    ASSUME RegistryInv, [Next]_vars, NEW s \in Runs, SameScan(s)
    PROVE  Knows(s)'
<1>. USE DEF SameScan, Knows
<1>1. ScanSound(s)'
  BY StartsLast DEF RegistryInv, ScanSound, Visiting, HasCounted
<1>2. Accounted(s)'
  <2>. SUFFICES ASSUME Scanned(s)', NEW p \in listing[s] \ counted[s]
                PROVE  \/ p \in todo[s]
                       \/ Visiting(s) /\ visiting[s].pid = p
                       \/ entry'[p] = Absent
                       \/ GivenTwice(p)'
    BY DEF Accounted, Visiting
  <2>1. Scanned(s)
    BY DEF Scanned, Visiting, HasCounted
  <2>2. p \in Pids /\ StartedAs(p)
    BY DEF RegistryInv, ScanSound
  <2>3. entry[p] = Absent /\ entry'[p] # Absent => GivenTwice(p)'
    BY <2>2, EntryComes
  <2>. QED
    BY <2>1, <2>3, StartsLast DEF RegistryInv, Accounted
<1>3. Unregistered(s)'
  <2>1. PICK p \in Pids : p = PidOf[s]
    BY DEF Pids
  <2>. SUFFICES ASSUME phase[s] = "exited", registered[s]
                PROVE  entry'[p] = Absent \/ GivenTwice(p)'
    BY <2>1 DEF Unregistered, Self
  <2>2. StartedAs(p) /\ (entry[p] = Absent \/ GivenTwice(p))
    BY <2>1 DEF RegistryInv, Unregistered, StartedAs, Self
  <2>3. entry[p] = Absent /\ entry'[p] # Absent => GivenTwice(p)'
    BY <2>2, EntryComes
  <2>. QED
    BY <2>2, <2>3, StartsLast DEF RegistryInv
<1>. QED
  BY <1>1, <1>2, <1>3 DEF Knows

(* Registering and listing.                                                *)
LEMMA RegisterStep ==
    ASSUME RegistryInv, [Next]_vars, NEW r \in Runs,
           Create(r) \/ Write(r) \/ RegisterFails(r) \/ List(r)
    PROVE  Knows(r)'
<1>. USE DEF Knows, ScanSound, Accounted, Unregistered, Scanned, Visiting, HasCounted, Goto
<1>1. CASE Create(r)
  BY <1>1 DEF Create, RegistryInv, EntriesMade, ScanTyped, scan
<1>2. CASE Write(r)
  BY <1>2 DEF Write, RegistryInv, EntriesMade, ScanTyped
<1>3. CASE RegisterFails(r)
  BY <1>3 DEF RegisterFails, RegistryInv, EntriesMade, ScanTyped, scan
<1>4. CASE List(r)
  BY <1>4, StartsLast DEF List, RegistryInv, EntriesMade, ScanTyped, Others
<1>. QED
  BY <1>1, <1>2, <1>3, <1>4

(* Looking at the entries, one after the other.                            *)
LEMMA VisitStep ==
    ASSUME RegistryInv, [Next]_vars, NEW r \in Runs,
           ReadEntry(r) \/ Judge(r) \/ Prune(r)
    PROVE  Knows(r)'
<1>. USE DEF Knows, ScanSound, Accounted, Unregistered, Scanned, Visiting, HasCounted, Goto
<1>1. CASE ReadEntry(r)
  BY <1>1, StartsLast DEF ReadEntry, RegistryInv, EntriesMade, ScanTyped
<1>2. CASE Judge(r)
  BY <1>2, StartsLast DEF Judge, RegistryInv, EntriesMade, ScanTyped
<1>3. CASE Prune(r)
  BY <1>3, StartsLast DEF Prune, RegistryInv, EntriesMade, ScanTyped
<1>. QED
  BY <1>1, <1>2, <1>3

(* From the count to the end.                                              *)
LEMMA RunStep ==
    ASSUME RegistryInv, [Next]_vars, NEW r \in Runs,
           Spawn(r) \/ Listen(r) \/ StartFails(r) \/ TsgoExited(r) \/ Exit(r) \/ Dies(r)
    PROVE  Knows(r)'
<1>. USE DEF Knows, ScanSound, Accounted, Unregistered, Scanned, Visiting, HasCounted, Goto
<1>1. CASE Spawn(r)
  BY <1>1, StartsLast DEF Spawn, RegistryInv, EntriesMade, ScanTyped, scan
<1>2. CASE Listen(r) \/ StartFails(r) \/ TsgoExited(r)
  BY <1>2, StartsLast DEF Listen, StartFails, TsgoExited, RegistryInv, EntriesMade, ScanTyped, scan
<1>3. CASE Exit(r)
  BY <1>3, StartsLast, OwnPid DEF Exit, RegistryInv, EntriesMade, ScanTyped, scan, Self
<1>4. CASE Dies(r)
  BY <1>4, StartsLast DEF Dies, Living, Gone, RegistryInv, EntriesMade, ScanTyped, scan
<1>. QED
  BY <1>1, <1>2, <1>3, <1>4

StepOf(r) == Create(r) \/ RegisterFails(r) \/ LauncherStep(r) \/ StartFails(r) \/ Dies(r)

LEMMA RegistryStep == RegistryInv /\ [Next]_vars => RegistryInv'
<1>. SUFFICES ASSUME RegistryInv, [Next]_vars PROVE RegistryInv'
  OBVIOUS
<1>1. EntriesMade'
  BY EntriesStep
<1>2. ASSUME NEW r \in Runs, StepOf(r)
      PROVE  ScanTyped' /\ \A s \in Runs : Knows(s)'
  <2>1. ScanTyped' /\ \A s \in Runs \ {r} : SameScan(s)
    BY <1>2 DEF StepOf, LauncherStep, Create, Write, RegisterFails, List, ReadEntry, Judge, Prune, Spawn,
       Listen, TsgoExited, StartFails, Exit, Dies, scan, Goto, SameScan, ScanTyped, RegistryInv, EntriesMade
  <2>2. Knows(r)'
    BY <1>2, RegisterStep, VisitStep, RunStep DEF StepOf, LauncherStep
  <2>. QED
    BY <2>1, <2>2, KnowledgeLasts
<1>3. ASSUME \/ Tick \/ UNCHANGED vars
             \/ \E r \in Runs, how \in {"ok", "errors", "killed"} : TsgoEnds(r, how)
      PROVE  ScanTyped' /\ \A s \in Runs : Knows(s)'
  <2>1. ScanTyped' /\ \A s \in Runs : SameScan(s)
    BY <1>3 DEF Tick, TsgoEnds, vars, scan, SameScan, ScanTyped, RegistryInv
  <2>. QED
    BY <2>1, KnowledgeLasts
<1>. QED
  BY <1>1, <1>2, <1>3 DEF Next, StepOf, RegistryInv

(* A run that ended through its exit handler (unregister) leaves no entry, *)
(* and what a run listed and did not count (countLiveInstances) is gone,   *)
(* unless the process id was given to another run.                         *)
THEOREM RegistryStaysTidy == Spec => []RegistryTidy
<1>1. RegistryInv => RegistryTidy
  BY DEF RegistryInv, Knows, ScanSound, Accounted, Unregistered, Scanned, Visiting, HasCounted, RegistryTidy
<1>. QED
  BY <1>1, RegistryInit, RegistryStep, PTL DEF Spec

-----------------------------------------------------------------------------
(* Sums over finite sets.  There is no induction rule to cite, but there   *)
(* is a least counterexample.                                              *)

(* A set of naturals that is not empty has a least element.                *)
LEMMA LeastNat ==
    ASSUME NEW S \in SUBSET Nat, S # {}
    PROVE  \E m \in S : \A k \in S : m <= k
<1>. DEFINE R == StrictSubsetOrdering(Nat)
            T == {1..k : k \in S}
<1>1. T \subseteq FiniteSubsetsOf(Nat) /\ T # {}
  <2>1. ASSUME NEW k \in S PROVE 1..k \in FiniteSubsetsOf(Nat)
    <3>1. IsFiniteSet(1..k)
      BY FS_Interval
    <3>2. 1..k \in SUBSET Nat
      OBVIOUS
    <3>. QED
      BY <3>1, <3>2 DEF FiniteSubsetsOf
  <2>. QED
    BY <2>1
<1>2. IsWellFoundedOn(R, FiniteSubsetsOf(Nat))
  BY FS_StrictSubsetOrderingWellFounded
<1>3. PICK x \in T : \A y \in T : <<y, x>> \notin R
  <2>. HIDE DEF R, T
  <2>. QED
    BY <1>1, <1>2, WFMin
<1>4. PICK m \in S : x = 1..m
  OBVIOUS
<1>5. ASSUME NEW k \in S, k < m PROVE FALSE
  <2>1. 1..k \subseteq 1..m /\ 1..k # 1..m
    BY <1>5
  <2>2. <<1..k, 1..m>> \in R
    BY <2>1 DEF StrictSubsetOrdering
  <2>. QED
    BY <1>3, <1>4, <2>2
<1>. QED
  BY <1>5

Pick(s) == CHOOSE x \in s : TRUE
Summand(f, g, s) == IF s = {} THEN 0 ELSE f[Pick(s)] + g[s \ {Pick(s)}]
UpTo(S, n) == {s \in SUBSET S : Cardinality(s) <= n}

(* The recursion of a sum over a finite set has a solution.                *)
LEMMA SumExists ==
    ASSUME NEW S, IsFiniteSet(S), NEW f
    PROVE  \E g : g = [s \in SUBSET S |-> Summand(f, g, s)]
<1>. DEFINE Solves(g, n) == g = [s \in UpTo(S, n) |-> Summand(f, g, s)]
            Unsolved == {n \in Nat : ~\E g : Solves(g, n)}
<1>1. ASSUME NEW s \in SUBSET S, s # {}
      PROVE  /\ s \ {Pick(s)} \in SUBSET S
             /\ Cardinality(s \ {Pick(s)}) = Cardinality(s) - 1
             /\ Cardinality(s) \in Nat
  <2>1. IsFiniteSet(s) /\ Pick(s) \in s
    BY <1>1, FS_Subset DEF Pick
  <2>. QED
    BY <2>1, FS_RemoveElement, FS_CardinalityType
<1>2. ASSUME NEW n \in Nat PROVE \E g : Solves(g, n)
  <2>1. SUFFICES ASSUME Unsolved # {} PROVE FALSE
    OBVIOUS
  <2>2. PICK m \in Unsolved : \A k \in Unsolved : m <= k
    <3>. HIDE DEF Solves
    <3>. QED
      BY <2>1, LeastNat
  <2>3. CASE m = 0
    <3>. DEFINE h == [s \in UpTo(S, 0) |-> 0]
    <3>1. ASSUME NEW s \in UpTo(S, 0) PROVE s = {}
      <4>1. IsFiniteSet(s) /\ Cardinality(s) \in Nat /\ Cardinality(s) <= 0
        BY FS_Subset, FS_CardinalityType DEF UpTo
      <4>. QED
        BY <4>1, FS_EmptySet
    <3>2. Solves(h, 0)
      BY <3>1 DEF Summand
    <3>. QED
      BY <2>2, <2>3, <3>2
  <2>4. CASE m # 0
    <3>1. PICK g : Solves(g, m - 1)
      <4>1. m - 1 \in Nat /\ m - 1 \notin Unsolved
        BY <2>2, <2>4
      <4>. QED
        BY <4>1
    <3>. DEFINE h == [s \in UpTo(S, m) |-> Summand(f, g, s)]
    <3>2. ASSUME NEW s \in UpTo(S, m) PROVE Summand(f, g, s) = Summand(f, h, s)
      <4>1. CASE s = {}
        BY <4>1 DEF Summand
      <4>2. CASE s # {}
        <5>. DEFINE t == s \ {Pick(s)}
        <5>1. t \in UpTo(S, m - 1) /\ t \in UpTo(S, m)
          BY <1>1, <4>2 DEF UpTo
        <5>2. g[t] = h[t]
          BY <3>1, <5>1
        <5>. QED
          BY <4>2, <5>2 DEF Summand
      <4>. QED
        BY <4>1, <4>2
    <3>3. Solves(h, m)
      BY <3>2
    <3>. QED
      BY <2>2, <3>3
  <2>. QED
    BY <2>3, <2>4
<1>3. UpTo(S, Cardinality(S)) = SUBSET S /\ Cardinality(S) \in Nat
  BY FS_Subset, FS_CardinalityType DEF UpTo
<1>. QED
  BY <1>2, <1>3

(* What SumFunctionOnSet computes: no more, of so many summands, than the  *)
(* bound of each times their number.                                       *)
LEMMA SumBound ==
    ASSUME NEW S, IsFiniteSet(S), NEW f, NEW c \in Nat,
           \A x \in S : f[x] \in Nat /\ f[x] <= c
    PROVE  /\ SumFunctionOnSet(f, S) \in Nat
           /\ SumFunctionOnSet(f, S) <= c * Cardinality(S)
<1>. DEFINE iter == CHOOSE g : g = [s \in SUBSET S |-> Summand(f, g, s)]
            Bounded(s) == iter[s] \in Nat /\ iter[s] <= c * Cardinality(s)
            Excess == {n \in Nat : \E s \in SUBSET S : Cardinality(s) = n /\ ~Bounded(s)}
<1>1. SumFunctionOnSet(f, S) = iter[S]
  BY DEF SumFunctionOnSet, FoldFunctionOnSet, MapThenFoldSet, Summand, Pick
<1>2. iter = [s \in SUBSET S |-> Summand(f, iter, s)]
  BY SumExists
<1>. HIDE DEF iter
<1>3. ASSUME NEW s \in SUBSET S PROVE IsFiniteSet(s) /\ Cardinality(s) \in Nat
  BY FS_Subset, FS_CardinalityType
<1>4. ASSUME Excess # {} PROVE FALSE
  <2>1. PICK m \in Excess : \A k \in Excess : m <= k
    <3>. HIDE DEF Bounded
    <3>. QED
      BY <1>4, LeastNat
  <2>2. PICK s \in SUBSET S : Cardinality(s) = m /\ ~Bounded(s)
    OBVIOUS
  <2>3. s # {}
    <3>1. Cardinality({}) = 0
      BY FS_EmptySet
    <3>2. iter[{}] = 0
      BY <1>2 DEF Summand
    <3>3. c * Cardinality({}) = 0
      BY <3>1
    <3>4. Bounded({})
      BY <3>2, <3>3
    <3>. QED
      BY <2>2, <3>4
  <2>. DEFINE x == Pick(s)
              t == s \ {x}
  <2>4. x \in s /\ x \in S
    BY <2>3 DEF Pick
  <2>5. t \in SUBSET S /\ Cardinality(t) = m - 1 /\ Cardinality(t) \in Nat
    BY <1>3, <2>2, <2>4, FS_RemoveElement
  <2>6. Bounded(t)
    <3>. HIDE DEF Bounded, t
    <3>. QED
      BY <2>1, <2>5
  <2>7. iter[s] = f[x] + iter[t]
    BY <1>2, <2>3 DEF Summand
  <2>8. iter[s] \in Nat /\ iter[s] <= c + c * (m - 1)
    <3>. HIDE DEF t, x
    <3>1. c * (m - 1) \in Nat
      BY <2>5
    <3>. QED
      BY <2>4, <2>5, <2>6, <2>7, <3>1
  <2>9. c + c * (m - 1) = c * m
    BY <2>5
  <2>. QED
    BY <2>2, <2>8, <2>9
<1>5. Bounded(S)
  BY <1>3, <1>4
<1>. QED
  BY <1>1, <1>5
-----------------------------------------------------------------------------
(* The budget of one run. *)

LEMMA MoreOf ==
    ASSUME NEW a \in Int, NEW b \in Int
    PROVE  AtLeast(a, b) = (IF a >= b THEN a ELSE b)
<1>. DEFINE m == IF a >= b THEN a ELSE b
<1>1. m \in {a, b} /\ \A y \in {a, b} : m >= y
  OBVIOUS
<1>2. \A x \in {a, b} : (\A y \in {a, b} : x >= y) => x = m
  OBVIOUS
<1>. QED
  BY <1>1, <1>2 DEF AtLeast, Max

LEMMA LessOf ==
    ASSUME NEW a \in Int, NEW b \in Int
    PROVE  AtMost(a, b) = (IF a <= b THEN a ELSE b)
<1>. DEFINE m == IF a <= b THEN a ELSE b
<1>1. m \in {a, b} /\ \A y \in {a, b} : m <= y
  OBVIOUS
<1>2. \A x \in {a, b} : (\A y \in {a, b} : x <= y) => x = m
  OBVIOUS
<1>. QED
  BY <1>1, <1>2 DEF AtMost, Min

(* A share, times those who share, is no more than the whole.              *)
LEMMA Shares ==
    ASSUME NEW a \in Nat, NEW b \in Nat \ {0}
    PROVE  a \div b \in Nat /\ b * (a \div b) <= a
OBVIOUS

LEMMA SharesOfMore ==
    ASSUME NEW a \in Nat, NEW b \in Nat \ {0}, NEW c \in Nat, b <= c
    PROVE  b * (a \div c) <= a
<1>. DEFINE q == a \div c
<1>1. q \in Nat /\ c * q <= a
  BY Shares
<1>2. b * q <= c * q
  <2>. HIDE DEF q
  <2>1. (c - b) \in Nat /\ (c - b) * q \in Nat
    BY <1>1
  <2>2. c * q = b * q + (c - b) * q /\ b * q \in Nat
    BY <1>1
  <2>. QED
    BY <2>1, <2>2
<1>3. b * q \in Nat /\ c * q \in Nat
  BY <1>1
<1>. QED
  BY <1>1, <1>2, <1>3

(* The cores of one run of several: its share, or one; and half at most.   *)
LEMMA ProcsBound ==
    ASSUME NEW cpus \in Nat \ {0}, NEW n \in Nat \ {0}, NEW idle \in Nat \cup {Unknown}
    PROVE  LET procs == GoMaxProcs(cpus, n, idle)
           IN  /\ procs \in Nat
               /\ procs <= AtLeast(1, cpus \div n)
               /\ procs <= AtLeast(1, cpus \div 2)
<1>. DEFINE cap == CpuCap(cpus, n)
<1>1. cpus \div n \in Nat /\ cpus \div 2 \in Nat /\ cpus \div 8 \in Nat
  BY Shares
<1>2. cap \in Nat /\ cap <= AtLeast(1, cpus \div n) /\ cap <= AtLeast(1, cpus \div 2)
  BY <1>1, MoreOf, LessOf DEF CpuCap
<1>3. GoMaxProcs(cpus, n, idle) \in Nat /\ GoMaxProcs(cpus, n, idle) <= cap
  <2>. HIDE DEF cap
  <2>1. CASE idle = Unknown
    BY <1>2, <2>1 DEF GoMaxProcs, cap
  <2>2. CASE idle # Unknown
    <3>1. /\ AtLeast(1, cpus \div 8) \in Nat
          /\ AtMost(cap, AtLeast(1, cpus \div 8)) \in Nat /\ AtMost(cap, AtLeast(1, cpus \div 8)) <= cap
          /\ AtMost(cap, idle) \in Nat /\ AtMost(cap, idle) <= cap
      BY <1>1, <1>2, <2>2, MoreOf, LessOf
    <3>. QED
      BY <1>2, <2>2, <3>1, MoreOf DEF GoMaxProcs, cap
  <2>. QED
    BY <2>1, <2>2
<1>4. AtLeast(1, cpus \div n) \in Nat /\ AtLeast(1, cpus \div 2) \in Nat
  BY <1>1, MoreOf
<1>. QED
  BY <1>2, <1>3, <1>4

(* The memory of one run of several that is not at the floor: its share.   *)
LEMMA MemoryBound ==
    ASSUME NEW mem \in Nat \ {0}, NEW n \in Nat \ {0}, NEW available \in Nat \cup {Unknown},
           NEW workers \in Nat,
           HeapLimit(GoMemLimit(mem, n, available), workers) > MinMemLimit
    PROVE  LET all == HeapLimit(GoMemLimit(mem, n, available), workers) + Reserved(workers)
           IN  all \in Nat /\ all <= (3 * mem) \div (4 * n)
<1>. DEFINE share == (mem * 3) \div (4 * n)
            limit == GoMemLimit(mem, n, available)
<1>1. share \in Nat /\ mem \div 2 \in Nat /\ MemFloor(mem) \in Nat /\ MemFloor(mem) <= MinMemLimit
  <2>1. mem * 3 \in Nat /\ 4 * n \in Nat \ {0}
    OBVIOUS
  <2>2. share \in Nat /\ mem \div 2 \in Nat
    BY <2>1, Shares
  <2>. QED
    BY <2>2, LessOf DEF MemFloor, MinMemLimit
<1>2. MemShare(mem, n, available) \in Nat /\ MemShare(mem, n, available) <= share
  <2>. HIDE DEF share
  <2>1. AtMost(mem \div 2, share) \in Nat /\ AtMost(mem \div 2, share) <= share
    BY <1>1, LessOf
  <2>2. CASE available = Unknown
    BY <2>1, <2>2 DEF MemShare, share
  <2>3. CASE available # Unknown
    <3>1. (available * 4) \div 5 \in Nat
      BY <2>3, Shares
    <3>. QED
      BY <2>1, <2>3, <3>1, LessOf DEF MemShare, share
  <2>. QED
    BY <2>2, <2>3
<1>. HIDE DEF share
<1>3. limit \in Nat /\ (limit > MinMemLimit => limit <= share)
  BY <1>1, <1>2, MoreOf DEF GoMemLimit, MinMemLimit
<1>. HIDE DEF limit
<1>4. Reserved(workers) \in Nat /\ (workers = 0 => Reserved(workers) = 0)
  BY DEF Reserved, VolarBaseMem, VolarWorkerMem
<1>5. HeapLimit(limit, workers) + Reserved(workers) = limit /\ limit > MinMemLimit
  <2>. USE DEF limit
  <2>1. HeapLimit(limit, workers) > MinMemLimit
    OBVIOUS
  <2>. HIDE DEF limit
  <2>2. AtMost(MinMemLimit, limit) \in Nat /\ AtMost(MinMemLimit, limit) <= MinMemLimit
    BY <1>3, LessOf DEF MinMemLimit
  <2>. QED
    BY <1>3, <1>4, <2>1, <2>2, MoreOf DEF HeapLimit, MinMemLimit
<1>. QED
  BY <1>3, <1>5 DEF share, limit

-----------------------------------------------------------------------------
(* The machine of all runs. *)

BudgetOf(r) ==
    tsgo[r] # "none" => \E idle \in IdleCpus, available \in AvailableMem :
        env[r] = ResolveEnv(Machine, 1 + Cardinality(counted[r]), idle, available, Codegen)

(* A run never counts itself a second time. *)
CountsOthers(r) ==
    /\ IsFiniteSet(counted[r])
    /\ Self(r) \notin counted[r] \cup todo[r]
    /\ Visiting(r) => visiting[r].pid # Self(r)

ShareInv ==
    /\ ChildInv /\ ScanTyped /\ DOMAIN env = Runs
    /\ \A r \in Runs : BudgetOf(r) /\ CountsOthers(r)

LEMMA ShareInit == Init => ShareInv
<1>. SUFFICES ASSUME Init PROVE ShareInv
  OBVIOUS
<1>1. IsFiniteSet({})
  BY FS_EmptySet
<1>2. ScanTyped /\ DOMAIN env = Runs /\ \A r \in Runs : BudgetOf(r) /\ CountsOthers(r)
  BY <1>1 DEF Init, ScanTyped, BudgetOf, CountsOthers, Visiting
<1>. QED
  BY <1>2, ChildInit DEF ShareInv

(* The count of a run is final when its budget is made of it.              *)
LEMMA ShareOwnStep ==
    ASSUME ShareInv, NEW r \in Runs, StepOf(r)
    PROVE  DOMAIN env' = Runs /\ \A s \in Runs : BudgetOf(s)' /\ CountsOthers(s)'
<1>. USE DEF ShareInv, ChildInv, ScanTyped, BeforeTsgo, Goto, Visiting
<1>1. CASE Create(r) \/ RegisterFails(r) \/ Write(r) \/ Dies(r)
  BY <1>1 DEF Create, RegisterFails, Write, Dies, BudgetOf, CountsOthers, scan, child, Living, Gone, Self
<1>2. CASE List(r)
  BY <1>2 DEF List, Others, BudgetOf, CountsOthers, child, Self
<1>3. CASE ReadEntry(r) \/ Prune(r)
  BY <1>3 DEF ReadEntry, Prune, BudgetOf, CountsOthers, child, Self
<1>4. CASE Judge(r)
  <2>1. IsFiniteSet(counted[r] \cup {visiting[r].pid})
    BY FS_AddElement DEF CountsOthers
  <2>2. visiting[r].pid # Self(r) /\ tsgo[r] = "none"
    BY <1>4 DEF Judge, CountsOthers
  <2>3. \A s \in Runs \ {r} : counted'[s] = counted[s] /\ visiting'[s] = visiting[s] /\ phase'[s] = phase[s]
    BY <1>4 DEF Judge
  <2>4. counted'[r] \in {counted[r], counted[r] \cup {visiting[r].pid}}
    BY <1>4 DEF Judge
  <2>5. Visiting(r)' => visiting'[r] = visiting[r]
    BY <1>4 DEF Judge
  <2>6. BudgetOf(r)' /\ CountsOthers(r)'
    BY <1>4, <2>1, <2>2, <2>4, <2>5 DEF Judge, BudgetOf, CountsOthers, child, Self
  <2>7. \A s \in Runs \ {r} : BudgetOf(s)' /\ CountsOthers(s)'
    BY <1>4, <2>3 DEF Judge, BudgetOf, CountsOthers, child, Self
  <2>. QED
    BY <1>4, <2>6, <2>7 DEF Judge, child
<1>5. CASE Spawn(r)
  BY <1>5 DEF Spawn, BudgetOf, CountsOthers, scan, Self
<1>6. CASE Listen(r) \/ StartFails(r) \/ TsgoExited(r) \/ Exit(r)
  BY <1>6 DEF Listen, StartFails, TsgoExited, Exit, BudgetOf, CountsOthers, scan, child, Self
<1>. QED
  BY <1>1, <1>2, <1>3, <1>4, <1>5, <1>6 DEF StepOf, LauncherStep

LEMMA ShareStep == ShareInv /\ [Next]_vars => ShareInv'
<1>. SUFFICES ASSUME ShareInv, [Next]_vars PROVE ShareInv'
  OBVIOUS
<1>1. ChildInv'
  BY ChildStep DEF ShareInv
<1>2. ScanTyped'
  BY DEF ShareInv, ScanTyped, Next, LauncherStep, Tick, Create, Write, RegisterFails, List, ReadEntry, Judge,
     Prune, Spawn, Listen, TsgoExited, StartFails, TsgoEnds, Exit, Dies, vars, scan
<1>3. ASSUME Tick \/ UNCHANGED vars
      PROVE  DOMAIN env' = Runs /\ \A s \in Runs : BudgetOf(s)' /\ CountsOthers(s)'
  BY <1>3 DEF Tick, vars, scan, child, ShareInv, BudgetOf, CountsOthers, Visiting, Self
<1>4. ASSUME NEW r \in Runs, NEW how \in {"ok", "errors", "killed"}, TsgoEnds(r, how)
      PROVE  DOMAIN env' = Runs /\ \A s \in Runs : BudgetOf(s)' /\ CountsOthers(s)'
  BY <1>4 DEF TsgoEnds, scan, ShareInv, ChildInv, BudgetOf, CountsOthers, Visiting, Self
<1>. QED
  BY <1>1, <1>2, <1>3, <1>4, ShareOwnStep DEF Next, StepOf, ShareInv

(* Those who all know of each other have each counted them all.            *)
LEMMA AllCounted ==
    ASSUME ShareInv, Settled
    PROVE  /\ IsFiniteSet(Working)
           /\ \A r \in Working : Cardinality(Working) <= 1 + Cardinality(counted[r])
<1>1. ASSUME NEW r \in Working
      PROVE  IsFiniteSet(Working) /\ Cardinality(Working) <= 1 + Cardinality(counted[r])
  <2>. DEFINE others == Working \ {r}
              f == [q \in others |-> Self(q)]
  <2>1. ASSUME NEW p \in others, NEW q \in others, f[p] = f[q] PROVE p = q
    <3>1. SUFFICES ASSUME p # q PROVE FALSE
      OBVIOUS
    <3>2. Self(q) \in counted[p] /\ Self(q) = Self(p)
      BY <2>1, <3>1 DEF Settled
    <3>. QED
      BY <3>2 DEF ShareInv, CountsOthers, Working
  <2>2. f \in [others -> counted[r]]
    BY DEF Settled
  <2>3. f \in Injection(others, counted[r])
    <3>. HIDE DEF f
    <3>. QED
      BY <2>1, <2>2 DEF Injection, IsInjective
  <2>4. IsFiniteSet(counted[r])
    BY DEF ShareInv, CountsOthers, Working
  <2>5. IsFiniteSet(others) /\ Cardinality(others) <= Cardinality(counted[r])
    <3>. HIDE DEF others, f
    <3>. QED
      BY <2>3, <2>4, FS_Injection
  <2>6. Working = others \cup {r} /\ r \notin others
    OBVIOUS
  <2>7. IsFiniteSet(Working) /\ Cardinality(Working) = Cardinality(others) + 1
    <3>. HIDE DEF others
    <3>. QED
      BY <2>5, <2>6, FS_AddElement
  <2>8. Cardinality(others) \in Nat /\ Cardinality(counted[r]) \in Nat
    BY <2>4, <2>5, FS_CardinalityType
  <2>. QED
    BY <2>5, <2>7, <2>8
<1>2. CASE Working = {}
  BY <1>2, FS_EmptySet
<1>. QED
  BY <1>1, <1>2

(* What the environment of a working run says.                             *)
LEMMA EnvBound ==
    ASSUME ShareInv, NEW r \in Working
    PROVE  LET n == 1 + Cardinality(counted[r])
           IN  /\ n \in Nat \ {0}
               /\ env[r].procs \in Nat
               /\ env[r].procs <= AtLeast(1, Machine.cpus \div n)
               /\ env[r].procs <= AtLeast(1, Machine.cpus \div 2)
               /\ env[r].limit > MinMemLimit =>
                    Memory(r) \in Nat /\ Memory(r) <= (3 * Machine.mem) \div (4 * n)
<1>. DEFINE n == 1 + Cardinality(counted[r])
<1>1. r \in Runs /\ tsgo[r] = "running"
  BY DEF Working
<1>2. n \in Nat \ {0}
  BY <1>1, FS_CardinalityType DEF ShareInv, CountsOthers
<1>. HIDE DEF n
<1>3. PICK idle \in IdleCpus, available \in AvailableMem :
         env[r] = ResolveEnv(Machine, n, idle, available, Codegen)
  BY <1>1 DEF ShareInv, BudgetOf, n
<1>4. /\ Machine.cpus \in Nat \ {0} /\ Machine.mem \in Nat \ {0}
      /\ idle \in Nat \cup {Unknown} /\ available \in Nat \cup {Unknown}
  BY LauncherAssumption
<1>. DEFINE procs == GoMaxProcs(Machine.cpus, n, idle)
            workers == IF Codegen = "volar" THEN CodegenWorkers(procs, available) ELSE 0
<1>5. /\ env[r].procs = procs /\ env[r].workers = workers
      /\ env[r].limit = HeapLimit(GoMemLimit(Machine.mem, n, available), workers)
  BY <1>3 DEF ResolveEnv
<1>6. /\ procs \in Nat /\ procs <= AtLeast(1, Machine.cpus \div n)
      /\ procs <= AtLeast(1, Machine.cpus \div 2)
  BY <1>2, <1>4, ProcsBound
<1>. HIDE DEF procs
<1>7. workers \in Nat
  <2>1. procs \div 2 \in Nat
    BY <1>6, Shares
  <2>2. AtMost(MaxCodegenWorkers, AtLeast(1, procs \div 2)) \in Nat
    BY <2>1, MoreOf, LessOf DEF MaxCodegenWorkers
  <2>3. CASE available = Unknown \/ available = 0
    BY <2>2, <2>3 DEF CodegenWorkers
  <2>4. CASE ~(available = Unknown \/ available = 0)
    <3>1. available \div (8 * VolarWorkerMem) \in Nat
      BY <1>4, <2>4, Shares DEF VolarWorkerMem
    <3>2. AtLeast(1, available \div (8 * VolarWorkerMem)) \in Nat
      BY <3>1, MoreOf
    <3>. QED
      BY <2>2, <2>4, <3>2, LessOf DEF CodegenWorkers
  <2>. QED
    BY <2>3, <2>4
<1>. HIDE DEF workers
<1>8. env[r].limit > MinMemLimit =>
        Memory(r) \in Nat /\ Memory(r) <= (3 * Machine.mem) \div (4 * n)
  BY <1>2, <1>4, <1>5, <1>7, MemoryBound DEF Memory
<1>. QED
  BY <1>2, <1>5, <1>6, <1>8 DEF n

(* Less is left of a whole for each of more.                               *)
LEMMA LessForMore ==
    ASSUME NEW a \in Nat, NEW b \in Nat \ {0}, NEW c \in Nat, b <= c
    PROVE  a \div c <= a \div b
<1>. DEFINE q == a \div c
<1>1. q \in Nat /\ b * q <= a
  BY Shares, SharesOfMore
<1>2. a < b * (a \div b) + b /\ a \div b \in Nat
  OBVIOUS
<1>3. SUFFICES ASSUME q > a \div b PROVE FALSE
  BY <1>1, <1>2
<1>. HIDE DEF q
<1>4. b * q >= b * (a \div b) + b
  BY <1>1, <1>2, <1>3
<1>. QED
  BY <1>1, <1>2, <1>4

LEMMA InvMeansShared == ShareInv => MachineShared
<1>. SUFFICES ASSUME ShareInv PROVE MachineShared
  OBVIOUS
<1>. DEFINE n == Cardinality(Working)
<1>1. Machine.cpus \in Nat \ {0} /\ Machine.mem \in Nat \ {0}
  BY LauncherAssumption
<1>2. ASSUME Settled, Working = {}
      PROVE  /\ n = 0
             /\ SumFunction([r \in Working |-> Memory(r)]) <= 0
             /\ SumFunction([r \in Working |-> Memory(r)]) \in Nat
             /\ SumFunction([r \in Working |-> env[r].procs]) <= 0
             /\ SumFunction([r \in Working |-> env[r].procs]) \in Nat
  <2>1. IsFiniteSet(Working) /\ n = 0
    BY <1>2, FS_EmptySet
  <2>. DEFINE f == [r \in Working |-> Memory(r)]
              g == [r \in Working |-> env[r].procs]
  <2>2. SumFunctionOnSet(f, Working) \in Nat /\ SumFunctionOnSet(f, Working) <= 0
    <3>. HIDE DEF f, g
    <3>1. SumFunctionOnSet(f, Working) \in Nat /\ SumFunctionOnSet(f, Working) <= 0 * Cardinality(Working)
      BY <1>2, <2>1, SumBound
    <3>. QED
      BY <2>1, <3>1
  <2>3. SumFunctionOnSet(g, Working) \in Nat /\ SumFunctionOnSet(g, Working) <= 0
    <3>. HIDE DEF f, g
    <3>1. SumFunctionOnSet(g, Working) \in Nat /\ SumFunctionOnSet(g, Working) <= 0 * Cardinality(Working)
      BY <1>2, <2>1, SumBound
    <3>. QED
      BY <2>1, <3>1
  <2>. QED
    BY <2>1, <2>2, <2>3 DEF SumFunction
<1>3. ASSUME Settled, Working # {}, \A r \in Working : env[r].limit > MinMemLimit
      PROVE  4 * SumFunction([r \in Working |-> Memory(r)]) <= 3 * Machine.mem
  <2>1. IsFiniteSet(Working) /\ n \in Nat \ {0}
    BY <1>3, AllCounted, FS_EmptySet, FS_CardinalityType
  <2>. DEFINE share == (3 * Machine.mem) \div (4 * n)
              f == [r \in Working |-> Memory(r)]
              sum == SumFunctionOnSet(f, Working)
  <2>. HIDE DEF n
  <2>2. 3 * Machine.mem \in Nat /\ 4 * n \in Nat \ {0} /\ share \in Nat /\ (4 * n) * share <= 3 * Machine.mem
    <3>1. 3 * Machine.mem \in Nat /\ 4 * n \in Nat \ {0}
      BY <1>1, <2>1
    <3>. QED
      BY <3>1, Shares
  <2>3. ASSUME NEW r \in Working PROVE f[r] \in Nat /\ f[r] <= share
    <3>. DEFINE i == 1 + Cardinality(counted[r])
    <3>1. i \in Nat \ {0} /\ Memory(r) \in Nat /\ Memory(r) <= (3 * Machine.mem) \div (4 * i)
      BY <1>3, EnvBound
    <3>2. n <= i
      BY <1>3, AllCounted DEF n
    <3>. HIDE DEF i
    <3>3. (3 * Machine.mem) \div (4 * i) <= share /\ (3 * Machine.mem) \div (4 * i) \in Nat
      <4>1. 4 * i \in Nat \ {0} /\ 4 * n <= 4 * i
        BY <2>1, <3>1, <3>2
      <4>. QED
        BY <2>2, <4>1, LessForMore, Shares
    <3>. QED
      BY <2>2, <3>1, <3>3
  <2>4. sum \in Nat /\ sum <= share * n
    <3>. HIDE DEF f, share
    <3>. QED
      BY <2>1, <2>2, <2>3, SumBound DEF n
  <2>5. 4 * sum <= 3 * Machine.mem
    <3>. HIDE DEF sum, share
    <3>1. 4 * (share * n) = (4 * n) * share /\ share * n \in Nat
      BY <2>1, <2>2
    <3>. QED
      BY <2>2, <2>4, <3>1
  <2>. QED
    BY <2>5 DEF SumFunction
<1>4. ASSUME Settled, Working # {}
      PROVE  SumFunction([r \in Working |-> env[r].procs]) <= AtLeast(Machine.cpus, n)
  <2>1. IsFiniteSet(Working) /\ n \in Nat \ {0}
    BY <1>4, AllCounted, FS_EmptySet, FS_CardinalityType
  <2>. DEFINE c == AtLeast(1, Machine.cpus \div n)
              f == [r \in Working |-> env[r].procs]
              sum == SumFunctionOnSet(f, Working)
  <2>. HIDE DEF n
  <2>2. Machine.cpus \div n \in Nat /\ n * (Machine.cpus \div n) <= Machine.cpus /\ c \in Nat
    BY <1>1, <2>1, Shares, MoreOf
  <2>3. ASSUME NEW r \in Working PROVE f[r] \in Nat /\ f[r] <= c
    <3>. DEFINE i == 1 + Cardinality(counted[r])
    <3>1. i \in Nat \ {0} /\ env[r].procs \in Nat /\ env[r].procs <= AtLeast(1, Machine.cpus \div i)
      BY EnvBound
    <3>2. n <= i
      BY <1>4, AllCounted DEF n
    <3>. HIDE DEF i
    <3>3. Machine.cpus \div i <= Machine.cpus \div n /\ Machine.cpus \div i \in Nat
      BY <1>1, <2>1, <3>1, <3>2, LessForMore, Shares
    <3>4. AtLeast(1, Machine.cpus \div i) <= c
      BY <2>2, <3>3, MoreOf
    <3>. QED
      BY <2>2, <3>1, <3>3, <3>4, MoreOf
  <2>4. sum \in Nat /\ sum <= c * n
    <3>. HIDE DEF f, c
    <3>. QED
      BY <2>1, <2>2, <2>3, SumBound DEF n
  <2>5. c * n <= AtLeast(Machine.cpus, n)
    <3>1. c = 1 \/ c = Machine.cpus \div n
      BY <2>2, MoreOf
    <3>2. AtLeast(Machine.cpus, n) >= n /\ AtLeast(Machine.cpus, n) >= Machine.cpus
      BY <1>1, <2>1, MoreOf
    <3>3. AtLeast(Machine.cpus, n) \in Nat
      BY <1>1, <2>1, MoreOf
    <3>4. CASE c = 1
      <4>. HIDE DEF c
      <4>. QED
        BY <2>1, <3>2, <3>4
    <3>5. CASE c = Machine.cpus \div n
      <4>. HIDE DEF c
      <4>1. c * n = n * (Machine.cpus \div n)
        BY <2>1, <2>2, <3>5
      <4>. QED
        BY <1>1, <2>1, <2>2, <3>2, <3>3, <4>1
    <3>. QED
      BY <3>1, <3>4, <3>5
  <2>6. AtLeast(Machine.cpus, n) \in Nat /\ c * n \in Nat
    BY <1>1, <2>1, <2>2, MoreOf
  <2>. QED
    <3>. HIDE DEF c, sum
    <3>1. sum <= AtLeast(Machine.cpus, n)
      BY <2>4, <2>5, <2>6
    <3>. QED
      BY <3>1 DEF SumFunction, sum
<1>5. \A r \in Runs : tsgo[r] = "running" => env[r].procs <= AtLeast(1, Machine.cpus \div 2)
  BY EnvBound DEF Working
<1>6. AtLeast(Machine.cpus, 0) >= 0
  BY <1>1, MoreOf
<1>. QED
  BY <1>1, <1>2, <1>3, <1>4, <1>5, <1>6 DEF MachineShared, Working

(* Runs that all know of each other take no more than three quarters of    *)
(* the memory and the cores there are, however many they are and whatever  *)
(* each of them measured (resolveEnv with countLiveInstances).             *)
THEOREM MachineIsShared == Spec => []MachineShared
<1>. QED
  BY InvMeansShared, ShareInit, ShareStep, PTL DEF Spec
-----------------------------------------------------------------------------
(* Installer: what holds in every state.                                    *)

Typed ==
    /\ file \in [Places -> File]
    /\ tmp \in [Places \X Processes -> File]
    /\ DOMAIN stage = Installs

(* Installs at work share neither a directory nor a process id. *)
Alone ==
    \A i, j \in Installs : i # j /\ AtWork(i) /\ AtWork(j) =>
        DirOf[i] # DirOf[j] /\ ProcessOf[i] # ProcessOf[j]

(* What an install at work knows of its files. *)
TempWhole(i) ==
    /\ stage[i] = "rename" => tmp[BinTmp(i)].data \in {"good", "bad"}
    /\ stage[i] = "received" => tmp[BinTmp(i)].data = "good"
    /\ stage[i] = "shared" => tmp[CacheTmp(i)].data = "good"

BinKnown(i) ==
    /\ stage[i] = "chmod restored" => Exists(file[Bin(i)])
    /\ stage[i] = "chmod" => file[Bin(i)].data = "good"
    /\ stage[i] \in {"share", "sharing", "shared"} => Usable(file[Bin(i)])

NoStrangerLeft(i) ==
    AtWork(i) /\ stage[i] # "check" =>
        \A p \in Processes \ {ProcessOf[i]} : tmp[<<Bin(i), p>>] = NoFile

NoTempOfOwn(i) ==
    stage[i] \in {"restore", "copy", "download", "chmod restored", "verify", "chmod",
                  "share", "sharing", "shared"} =>
        tmp[BinTmp(i)] = NoFile

KnowsItsFiles(i) == TempWhole(i) /\ BinKnown(i) /\ NoStrangerLeft(i) /\ NoTempOfOwn(i)

Succeeded(i) ==
    stage[i] = "ok" /\ (\A j \in Installs \ {i} : DirOf[j] = DirOf[i] => stage[j] = "off")
        => Usable(file[Bin(i)])

InstallInv ==
    /\ Typed /\ Alone /\ NeverTruncated
    /\ \A i \in Installs : KnowsItsFiles(i) /\ Succeeded(i)

-----------------------------------------------------------------------------
(* The files of an install. *)

LEMMA Paths ==
    ASSUME NEW i \in Installs
    PROVE  /\ Bin(i) \in Places /\ Cache \in Places /\ Bin(i) # Cache
           /\ BinTmp(i) \in Places \X Processes /\ CacheTmp(i) \in Places \X Processes
           /\ ProcessOf[i] \in Processes /\ BinTmp(i) # CacheTmp(i)
           /\ \A j \in Installs : BinTmp(i) # CacheTmp(j)
BY InstallerAssumption DEF Bin, BinTmp, CacheTmp, Places, Dirs, Processes

LEMMA FileTypes ==
    /\ NoFile \in File
    /\ [data |-> "partial", exec |-> FALSE] \in File
    /\ [data |-> "good", exec |-> FALSE] \in File
    /\ \A f \in File : Exists(f) => [f EXCEPT !.exec = TRUE] \in File
    /\ \A f \in File : f.data \in {"none", "partial", "good", "bad"}
    /\ NoFile.data = "none"
<1>. DEFINE Whole == [data : Data, exec : BOOLEAN]
<1>1. NoFile.data = "none" /\ NoFile \in File
  BY DEF File, NoFile
<1>2. Whole \subseteq File /\ "partial" \in Data /\ "good" \in Data
  BY DEF File, Data
<1>3. [data |-> "partial", exec |-> FALSE] \in Whole /\ [data |-> "good", exec |-> FALSE] \in Whole
  BY <1>2
<1>4. ASSUME NEW f \in File PROVE f.data \in {"none", "partial", "good", "bad"}
  <2>1. CASE f = NoFile
    BY <1>1, <2>1
  <2>2. CASE f \in Whole
    BY <2>2 DEF Data
  <2>. QED
    BY <2>1, <2>2 DEF File
<1>5. ASSUME NEW f \in File, Exists(f) PROVE [f EXCEPT !.exec = TRUE] \in Whole
  <2>1. f \in Whole
    BY <1>1, <1>5 DEF File, Exists
  <2>. QED
    BY <2>1
<1>. QED
  BY <1>1, <1>2, <1>3, <1>4, <1>5

(* A step of k changes its own binary, its own temporary files and the     *)
(* cache's entry, nothing else.                                            *)
OwnFilesOnly(k) ==
    /\ \A p \in Places \ {Bin(k), Cache} : file'[p] = file[p]
    /\ \A t \in Places \X Processes : t[1] # Bin(k) /\ t # CacheTmp(k) => tmp'[t] = tmp[t]
    /\ \A j \in Installs \ {k} : stage'[j] = stage[j]

(* So another install still knows what it knew. *)
LEMMA OthersKnow ==
    ASSUME InstallInv, NEW k \in Installs, AtWork(k), OwnFilesOnly(k), stage'[k] # "off",
           NEW j \in Installs, j # k
    PROVE  KnowsItsFiles(j)' /\ Succeeded(j)'
<1>. KnowsItsFiles(j) /\ Succeeded(j) /\ stage'[j] = stage[j]
  BY DEF InstallInv, OwnFilesOnly
<1>1. CASE DirOf[j] # DirOf[k]
  <2>1. file'[Bin(j)] = file[Bin(j)]
    BY <1>1, Paths DEF OwnFilesOnly, Bin
  <2>2. \A p \in Processes : tmp'[<<Bin(j), p>>] = tmp[<<Bin(j), p>>]
    BY <1>1, Paths, InstallerAssumption DEF OwnFilesOnly, Bin, CacheTmp
  <2>3. tmp'[BinTmp(j)] = tmp[BinTmp(j)]
    BY <2>2, Paths DEF BinTmp, Bin
  <2>4. ASSUME stage[j] = "shared" PROVE tmp'[CacheTmp(j)] = tmp[CacheTmp(j)]
    <3>1. AtWork(j)
      BY <2>4 DEF AtWork, Ended
    <3>2. ProcessOf[j] # ProcessOf[k]
      BY <3>1 DEF InstallInv, Alone
    <3>. QED
      BY <3>2, Paths DEF OwnFilesOnly, CacheTmp
  <2>5. TempWhole(j)'
    BY <2>3, <2>4 DEF KnowsItsFiles, TempWhole, BinTmp, CacheTmp
  <2>6. BinKnown(j)'
    BY <2>1 DEF KnowsItsFiles, BinKnown
  <2>7. NoStrangerLeft(j)' /\ NoTempOfOwn(j)'
    BY <2>2, <2>3 DEF KnowsItsFiles, NoStrangerLeft, NoTempOfOwn, AtWork
  <2>8. Succeeded(j)'
    <3>1. \A i \in Installs \ {j} : DirOf[i] = DirOf[j] => i # k /\ stage'[i] = stage[i]
      BY <1>1 DEF OwnFilesOnly
    <3>. QED
      BY <2>1, <3>1 DEF Succeeded
  <2>. QED
    BY <2>5, <2>6, <2>7, <2>8 DEF KnowsItsFiles
<1>2. CASE DirOf[j] = DirOf[k]
  <2>1. ~AtWork(j)
    BY <1>2 DEF InstallInv, Alone
  <2>2. stage'[j] \in Ended
    BY <2>1 DEF AtWork
  <2>3. KnowsItsFiles(j)'
    BY <2>2 DEF Ended, KnowsItsFiles, TempWhole, BinKnown, NoStrangerLeft, NoTempOfOwn, AtWork
  <2>4. Succeeded(j)'
    BY <1>2 DEF Succeeded
  <2>. QED
    BY <2>3, <2>4
<1>. QED
  BY <1>1, <1>2

(* What a step of k has to establish. *)
StepKeeps(k) ==
    /\ Typed' /\ NeverTruncated' /\ KnowsItsFiles(k)'
    /\ OwnFilesOnly(k)
    /\ stage'[k] # "off"
    /\ stage'[k] = "ok" => Usable(file[Bin(k)])'

LEMMA StepKeepsInv ==
    ASSUME InstallInv, NEW k \in Installs, AtWork(k), StepKeeps(k)
    PROVE  InstallInv'
<1>1. \A i \in Installs : AtWork(i)' => AtWork(i)
  BY DEF StepKeeps, OwnFilesOnly, AtWork
<1>2. Alone'
  BY <1>1 DEF InstallInv, Alone
<1>3. KnowsItsFiles(k)' /\ Succeeded(k)'
  BY DEF StepKeeps, Succeeded
<1>4. \A j \in Installs \ {k} : KnowsItsFiles(j)' /\ Succeeded(j)'
  BY OthersKnow DEF StepKeeps
<1>. QED
  BY <1>2, <1>3, <1>4 DEF InstallInv, StepKeeps

LEMMA Facts ==
    ASSUME InstallInv, NEW k \in Installs
    PROVE  /\ Typed /\ NeverTruncated /\ KnowsItsFiles(k)
           /\ file[Bin(k)] \in File /\ file[Cache] \in File
           /\ tmp[BinTmp(k)] \in File /\ tmp[CacheTmp(k)] \in File
BY Paths DEF InstallInv, Typed

(* A step that changes no file, where what is known does not depend on the *)
(* stage.                                                                  *)
LEMMA QuietStep ==
    ASSUME InstallInv, NEW k \in Installs,
           KeepWorking(k) \/ CacheMiss(k) \/ CacheHit(k) \/ Verify(k) \/ DownloadRefused(k) \/ Killed(k)
    PROVE  AtWork(k) /\ StepKeeps(k)
<1>1. /\ file' = file /\ tmp' = tmp
      /\ \A j \in Installs \ {k} : stage'[j] = stage[j]
      /\ DOMAIN stage' = Installs
  BY Facts DEF Typed, Step, KeepWorking, CacheMiss, CacheHit, Verify, DownloadRefused, Killed
<1>2. Typed' /\ NeverTruncated' /\ OwnFilesOnly(k)
  BY <1>1, Facts DEF Typed, NeverTruncated, OwnFilesOnly
<1>3. CASE KeepWorking(k) \/ Verify(k)
  <2>1. stage[k] \in {"check", "verify"} /\ stage'[k] = "ok" /\ Usable(file[Bin(k)])
    BY <1>3, Facts DEF Typed, Step, KeepWorking, Verify
  <2>2. KnowsItsFiles(k)' /\ AtWork(k)
    BY <2>1 DEF KnowsItsFiles, TempWhole, BinKnown, NoStrangerLeft, NoTempOfOwn, AtWork, Ended
  <2>. QED
    BY <1>1, <1>2, <2>1, <2>2 DEF StepKeeps
<1>4. CASE CacheMiss(k) \/ CacheHit(k)
  <2>1. stage[k] = "restore" /\ stage'[k] \in {"download", "copy"}
    BY <1>4, Facts DEF Typed, Step, CacheMiss, CacheHit
  <2>2. KnowsItsFiles(k)' /\ AtWork(k)
    BY <1>1, <2>1, Facts DEF KnowsItsFiles, TempWhole, BinKnown, NoStrangerLeft, NoTempOfOwn, AtWork, Ended
  <2>. QED
    BY <1>2, <2>1, <2>2 DEF StepKeeps
<1>5. CASE DownloadRefused(k) \/ Killed(k)
  <2>1. AtWork(k) /\ stage'[k] \in {"failed", "killed"}
    BY <1>5, Facts DEF Typed, Step, DownloadRefused, Killed, AtWork, Ended
  <2>2. KnowsItsFiles(k)'
    BY <2>1 DEF KnowsItsFiles, TempWhole, BinKnown, NoStrangerLeft, NoTempOfOwn, AtWork, Ended
  <2>. QED
    BY <1>2, <2>1, <2>2 DEF StepKeeps
<1>. QED
  BY <1>3, <1>4, <1>5

(* A step that writes one temporary file of its own. *)
LEMMA TempStep ==
    ASSUME InstallInv, NEW k \in Installs, NEW t \in {BinTmp(k), CacheTmp(k)}, NEW f \in File,
           tmp' = [tmp EXCEPT ![t] = f], file' = file,
           \A j \in Installs \ {k} : stage'[j] = stage[j], DOMAIN stage' = Installs
    PROVE  /\ Typed' /\ NeverTruncated' /\ OwnFilesOnly(k)
           /\ tmp'[t] = f
           /\ \A u \in Places \X Processes : u # t => tmp'[u] = tmp[u]
           /\ \A p \in Processes \ {ProcessOf[k]} : tmp'[<<Bin(k), p>>] = tmp[<<Bin(k), p>>]
<1>1. t \in Places \X Processes /\ tmp \in [Places \X Processes -> File]
  BY Paths, Facts DEF Typed
<1>2. Typed' /\ NeverTruncated'
  BY <1>1, Facts DEF Typed, NeverTruncated
<1>3. tmp'[t] = f /\ \A u \in Places \X Processes : u # t => tmp'[u] = tmp[u]
  BY <1>1
<1>4. ASSUME NEW u \in Places \X Processes, u[1] # Bin(k), u # CacheTmp(k) PROVE u # t
  BY <1>4 DEF BinTmp, Bin
<1>5. ASSUME NEW p \in Processes \ {ProcessOf[k]} PROVE <<Bin(k), p>> # t /\ <<Bin(k), p>> \in Places \X Processes
  <2>1. Bin(k) \in Places /\ Bin(k) # Cache
    BY Paths
  <2>2. <<Bin(k), p>> # BinTmp(k)
    BY DEF BinTmp
  <2>3. <<Bin(k), p>> # CacheTmp(k)
    BY <2>1 DEF CacheTmp
  <2>. QED
    BY <2>1, <2>2, <2>3
<1>6. OwnFilesOnly(k)
  BY <1>3, <1>4 DEF OwnFilesOnly
<1>. QED
  BY <1>2, <1>3, <1>5, <1>6

LEMMA BinTempStep ==
    ASSUME InstallInv, NEW k \in Installs,
           \/ CopyBegins(k) \/ CopyEnds(k) \/ CopyFails(k)
           \/ DownloadBegins(k) \/ DownloadComplete(k) \/ DownloadFails(k) \/ Interrupted(k)
    PROVE  AtWork(k) /\ StepKeeps(k)
<1>1. PICK f \in File : tmp' = [tmp EXCEPT ![BinTmp(k)] = f]
  BY Facts, FileTypes DEF SetTmp, CopyBegins, CopyEnds, CopyFails, DownloadBegins, DownloadComplete,
                          DownloadFails, Interrupted
<1>2. /\ file' = file /\ DOMAIN stage' = Installs
      /\ \A j \in Installs \ {k} : stage'[j] = stage[j]
  BY Facts DEF Typed, Step, CopyBegins, CopyEnds, CopyFails, DownloadBegins, DownloadComplete,
               DownloadFails, Interrupted
<1>3. /\ Typed' /\ NeverTruncated' /\ OwnFilesOnly(k)
      /\ tmp'[BinTmp(k)] = f
      /\ \A p \in Processes \ {ProcessOf[k]} : tmp'[<<Bin(k), p>>] = tmp[<<Bin(k), p>>]
  BY <1>1, <1>2, TempStep, ZenonT(40)
<1>4. KnowsItsFiles(k)
  BY Facts
<1>5. CASE CopyBegins(k) \/ DownloadBegins(k)
  <2>1. stage[k] \in {"copy", "download"} /\ stage'[k] \in {"copying", "receiving"}
    BY <1>5, Facts DEF Typed, Step, CopyBegins, DownloadBegins
  <2>. QED
    BY <1>3, <1>4, <2>1
       DEF StepKeeps, KnowsItsFiles, TempWhole, BinKnown, NoStrangerLeft, NoTempOfOwn, AtWork, Ended
<1>6. CASE CopyEnds(k)
  <2>1. stage[k] = "copying" /\ stage'[k] = "rename" /\ tmp'[BinTmp(k)] = file[Cache] /\ Exists(file[Cache])
    BY <1>6, Facts, Paths DEF Typed, Step, CopyEnds, SetTmp
  <2>2. file[Cache].data \in {"good", "bad"}
    BY <2>1, Facts, FileTypes, Paths DEF NeverTruncated, Exists
  <2>. QED
    BY <1>3, <1>4, <2>1, <2>2
       DEF StepKeeps, KnowsItsFiles, TempWhole, BinKnown, NoStrangerLeft, NoTempOfOwn, AtWork, Ended
<1>7. CASE CopyFails(k)
  <2>1. stage[k] = "copying" /\ stage'[k] = "download" /\ tmp'[BinTmp(k)] = NoFile
    BY <1>7, Facts, Paths DEF Typed, Step, CopyFails, SetTmp
  <2>. QED
    BY <1>3, <1>4, <2>1
       DEF StepKeeps, KnowsItsFiles, TempWhole, BinKnown, NoStrangerLeft, NoTempOfOwn, AtWork, Ended
<1>8. CASE DownloadComplete(k)
  <2>1. stage[k] = "receiving" /\ stage'[k] = "received" /\ tmp'[BinTmp(k)].data = "good"
    BY <1>8, Facts, Paths DEF Typed, Step, DownloadComplete, SetTmp
  <2>. QED
    BY <1>3, <1>4, <2>1
       DEF StepKeeps, KnowsItsFiles, TempWhole, BinKnown, NoStrangerLeft, NoTempOfOwn, AtWork, Ended
<1>9. CASE DownloadFails(k) \/ Interrupted(k)
  <2>1. stage[k] \in {"download", "receiving", "received"} /\ stage'[k] \in {"failed", "killed"}
    BY <1>9, Facts DEF Typed, Step, DownloadFails, Interrupted
  <2>. QED
    BY <1>3, <2>1
       DEF StepKeeps, KnowsItsFiles, TempWhole, BinKnown, NoStrangerLeft, NoTempOfOwn, AtWork, Ended
<1>. QED
  BY <1>5, <1>6, <1>7, <1>8, <1>9

LEMMA CacheTempStep ==
    ASSUME InstallInv, NEW k \in Installs, ShareBegins(k) \/ ShareCopied(k) \/ ShareFails(k)
    PROVE  AtWork(k) /\ StepKeeps(k)
<1>1. /\ file' = file /\ DOMAIN stage' = Installs
      /\ \A j \in Installs \ {k} : stage'[j] = stage[j]
  BY Facts DEF Typed, Step, ShareBegins, ShareCopied, ShareFails
<1>2. /\ stage[k] \in {"share", "sharing", "shared"} /\ AtWork(k)
      /\ stage'[k] \in {"sharing", "shared", "ok"}
  BY Facts DEF Typed, Step, ShareBegins, ShareCopied, ShareFails, AtWork, Ended
<1>3. KnowsItsFiles(k) /\ Usable(file[Bin(k)]) /\ tmp[BinTmp(k)] = NoFile
  BY <1>2, Facts DEF KnowsItsFiles, BinKnown, NoTempOfOwn
<1>4. CASE tmp' = tmp
  <2>1. stage'[k] = "ok" \/ (stage'[k] = "shared" => tmp[CacheTmp(k)].data = "good")
    BY <1>3, <1>4, Facts, Paths DEF Typed, SetTmp, Step, ShareBegins, ShareCopied, ShareFails, Usable
  <2>2. Typed' /\ NeverTruncated' /\ OwnFilesOnly(k)
    BY <1>1, <1>4, Facts DEF Typed, NeverTruncated, OwnFilesOnly
  <2>. QED
    BY <1>1, <1>2, <1>3, <1>4, <2>1, <2>2
       DEF StepKeeps, KnowsItsFiles, TempWhole, BinKnown, NoStrangerLeft, NoTempOfOwn, AtWork, Ended
<1>5. CASE tmp' # tmp
  <2>1. PICK f \in File : tmp' = [tmp EXCEPT ![CacheTmp(k)] = f]
    <3>1. CASE ShareBegins(k)
      BY <3>1, Facts, FileTypes DEF ShareBegins, SetTmp
    <3>2. CASE ShareCopied(k)
      BY <3>2, Facts DEF ShareCopied, SetTmp
    <3>3. CASE ShareFails(k)
      BY <3>3, <1>5, FileTypes DEF ShareFails, SetTmp
    <3>. QED
      BY <3>1, <3>2, <3>3
  <2>2. /\ Typed' /\ NeverTruncated' /\ OwnFilesOnly(k) /\ tmp'[CacheTmp(k)] = f
        /\ \A u \in Places \X Processes : u # CacheTmp(k) => tmp'[u] = tmp[u]
        /\ \A p \in Processes \ {ProcessOf[k]} : tmp'[<<Bin(k), p>>] = tmp[<<Bin(k), p>>]
    BY <1>1, <2>1, TempStep, ZenonT(40)
  <2>3. tmp'[BinTmp(k)] = NoFile
    <3>1. BinTmp(k) \in Places \X Processes /\ BinTmp(k) # CacheTmp(k)
      BY Paths
    <3>. QED
      BY <1>3, <2>2, <3>1
  <2>4. stage'[k] = "shared" => tmp'[CacheTmp(k)].data = "good"
    <3>1. stage'[k] = "shared" => ShareCopied(k)
      BY Facts DEF Typed, Step, ShareBegins, ShareFails
    <3>2. ShareCopied(k) => tmp' = [tmp EXCEPT ![CacheTmp(k)] = file[Bin(k)]]
      BY DEF ShareCopied, SetTmp
    <3>3. ShareCopied(k) => tmp'[CacheTmp(k)] = file[Bin(k)]
      BY <3>2, Paths, Facts DEF Typed
    <3>. QED
      BY <1>3, <3>1, <3>3 DEF Usable
  <2>5. TempWhole(k)' /\ BinKnown(k)' /\ NoTempOfOwn(k)'
    <3>1. TempWhole(k)'
      BY <1>2, <2>4 DEF TempWhole, CacheTmp
    <3>2. BinKnown(k)'
      BY <1>1, <1>2, <1>3 DEF BinKnown, Bin
    <3>3. NoTempOfOwn(k)'
      BY <2>3 DEF NoTempOfOwn, BinTmp
    <3>. QED
      BY <3>1, <3>2, <3>3
  <2>6. NoStrangerLeft(k)'
    BY <1>2, <1>3, <2>2 DEF KnowsItsFiles, NoStrangerLeft, AtWork, Ended
  <2>. QED
    BY <1>1, <1>2, <1>3, <2>2, <2>5, <2>6 DEF StepKeeps, KnowsItsFiles
<1>. QED
  BY <1>4, <1>5

(* What is whole takes the place of a binary. *)
LEMMA RenameStep ==
    ASSUME InstallInv, NEW k \in Installs, Restore(k) \/ Place(k)
    PROVE  AtWork(k) /\ StepKeeps(k)
<1>1. /\ file' = [file EXCEPT ![Bin(k)] = tmp[BinTmp(k)]]
      /\ tmp' = [tmp EXCEPT ![BinTmp(k)] = NoFile]
      /\ DOMAIN stage' = Installs /\ \A j \in Installs \ {k} : stage'[j] = stage[j]
      /\ \/ stage[k] = "rename" /\ stage'[k] = "chmod restored"
         \/ stage[k] = "received" /\ stage'[k] = "chmod"
  BY Facts DEF Typed, Renamed, SetFile, SetTmp, Step, Restore, Place
<1>2. /\ KnowsItsFiles(k) /\ tmp[BinTmp(k)].data \in {"good", "bad"}
      /\ stage[k] = "received" => tmp[BinTmp(k)].data = "good"
  BY <1>1, Facts DEF KnowsItsFiles, TempWhole
<1>3. Bin(k) \in Places /\ BinTmp(k) \in Places \X Processes
  BY Paths
<1>4. file'[Bin(k)] = tmp[BinTmp(k)] /\ tmp'[BinTmp(k)] = NoFile
  BY <1>1, <1>3, Facts DEF Typed
<1>5. Typed'
  BY <1>1, Facts, FileTypes DEF Typed
<1>6. NeverTruncated'
  BY <1>1, <1>2, Facts DEF NeverTruncated, Typed
<1>7. OwnFilesOnly(k)
  <2>1. ASSUME NEW t \in Places \X Processes, t[1] # Bin(k) PROVE t # BinTmp(k)
    BY <2>1 DEF BinTmp, Bin
  <2>2. ASSUME NEW t \in Places \X Processes, t # BinTmp(k) PROVE tmp'[t] = tmp[t]
    BY <1>1, <2>2, Facts DEF Typed
  <2>3. \A p \in Places \ {Bin(k), Cache} : file'[p] = file[p]
    BY <1>1, Facts DEF Typed
  <2>. QED
    BY <1>1, <2>1, <2>2, <2>3 DEF OwnFilesOnly
<1>8. \A p \in Processes \ {ProcessOf[k]} : tmp'[<<Bin(k), p>>] = tmp[<<Bin(k), p>>]
  BY <1>1, <1>3, Facts DEF Typed, BinTmp, Places, Bin
<1>. QED
  BY <1>1, <1>2, <1>4, <1>5, <1>6, <1>7, <1>8
     DEF StepKeeps, KnowsItsFiles, TempWhole, BinKnown, NoStrangerLeft, NoTempOfOwn, AtWork, Ended, Exists

LEMMA ChmodStep ==
    ASSUME InstallInv, NEW k \in Installs, ChmodRestored(k) \/ Chmod(k)
    PROVE  AtWork(k) /\ StepKeeps(k)
<1>1. /\ file' = [file EXCEPT ![Bin(k)] = [file[Bin(k)] EXCEPT !.exec = TRUE]]
      /\ tmp' = tmp
      /\ DOMAIN stage' = Installs /\ \A j \in Installs \ {k} : stage'[j] = stage[j]
      /\ \/ stage[k] = "chmod restored" /\ stage'[k] = "verify"
         \/ stage[k] = "chmod" /\ stage'[k] = "share"
  BY Facts DEF Typed, SetFile, Step, ChmodRestored, Chmod
<1>2. /\ KnowsItsFiles(k) /\ Exists(file[Bin(k)])
      /\ stage[k] = "chmod" => file[Bin(k)].data = "good"
  BY <1>1, Facts DEF KnowsItsFiles, BinKnown, Exists
<1>3. /\ [file[Bin(k)] EXCEPT !.exec = TRUE] \in File
      /\ [file[Bin(k)] EXCEPT !.exec = TRUE].data = file[Bin(k)].data
      /\ [file[Bin(k)] EXCEPT !.exec = TRUE].exec
  <2>1. file[Bin(k)] \in [data : Data, exec : BOOLEAN]
    BY <1>2, Facts DEF File, Exists, NoFile
  <2>. QED
    BY <1>2, <2>1, Facts, FileTypes
<1>4. Bin(k) \in Places
  BY Paths
<1>5. /\ file'[Bin(k)].data = file[Bin(k)].data /\ file'[Bin(k)].exec
      /\ \A p \in Places \ {Bin(k)} : file'[p] = file[p]
  BY <1>1, <1>3, <1>4, Facts DEF Typed
<1>6. Typed'
  BY <1>1, <1>3, Facts DEF Typed
<1>7. NeverTruncated' /\ OwnFilesOnly(k)
  BY <1>1, <1>5, Facts DEF NeverTruncated, OwnFilesOnly
<1>. QED
  BY <1>1, <1>2, <1>5, <1>6, <1>7
     DEF StepKeeps, KnowsItsFiles, TempWhole, BinKnown, NoStrangerLeft, NoTempOfOwn, AtWork, Ended, Usable

(* The cache gets what was verified to be whole. *)
LEMMA ShareSteps ==
    ASSUME InstallInv, NEW k \in Installs, Share(k)
    PROVE  AtWork(k) /\ StepKeeps(k)
<1>1. /\ file' = [file EXCEPT ![Cache] = tmp[CacheTmp(k)]]
      /\ tmp' = [tmp EXCEPT ![CacheTmp(k)] = NoFile]
      /\ DOMAIN stage' = Installs /\ \A j \in Installs \ {k} : stage'[j] = stage[j]
      /\ stage[k] = "shared" /\ stage'[k] = "ok"
  BY Facts DEF Typed, Renamed, SetFile, SetTmp, Step, Share
<1>2. tmp[CacheTmp(k)].data = "good" /\ Usable(file[Bin(k)])
  BY <1>1, Facts DEF KnowsItsFiles, TempWhole, BinKnown
<1>3. file'[Bin(k)] = file[Bin(k)]
  BY <1>1, Paths, Facts DEF Typed
<1>4. Typed'
  BY <1>1, Facts, FileTypes DEF Typed
<1>5. NeverTruncated'
  BY <1>1, <1>2, Facts DEF NeverTruncated, Typed
<1>6. OwnFilesOnly(k)
  BY <1>1, Facts DEF OwnFilesOnly, Typed
<1>. QED
  BY <1>1, <1>2, <1>3, <1>4, <1>5, <1>6
     DEF StepKeeps, KnowsItsFiles, TempWhole, BinKnown, NoStrangerLeft, NoTempOfOwn, AtWork, Ended

LEMMA DiscardStep ==
    ASSUME InstallInv, NEW k \in Installs, Discard(k)
    PROVE  AtWork(k) /\ StepKeeps(k)
<1>1. /\ file' = [file EXCEPT ![Bin(k)] = NoFile, ![Cache] = NoFile] /\ tmp' = tmp
      /\ DOMAIN stage' = Installs /\ \A j \in Installs \ {k} : stage'[j] = stage[j]
      /\ stage[k] = "verify" /\ stage'[k] = "download"
  BY Facts DEF Typed, Step, Discard
<1>2. Typed' /\ NeverTruncated'
  BY <1>1, Facts, FileTypes DEF Typed, NeverTruncated
<1>3. OwnFilesOnly(k)
  BY <1>1, Facts DEF OwnFilesOnly, Typed
<1>. QED
  BY <1>1, <1>2, <1>3, Facts
     DEF StepKeeps, KnowsItsFiles, TempWhole, BinKnown, NoStrangerLeft, NoTempOfOwn, AtWork, Ended

(* Whatever was left in the directory is removed. *)
LEMMA RemoveStep ==
    ASSUME InstallInv, NEW k \in Installs, RemoveBroken(k)
    PROVE  AtWork(k) /\ StepKeeps(k)
<1>1. /\ file' = [file EXCEPT ![Bin(k)] = NoFile]
      /\ tmp' = [t \in Places \X Processes |-> IF t[1] = Bin(k) THEN NoFile ELSE tmp[t]]
      /\ DOMAIN stage' = Installs /\ \A j \in Installs \ {k} : stage'[j] = stage[j]
      /\ stage[k] = "check" /\ stage'[k] = "restore"
  BY Facts DEF Typed, SetFile, Step, RemoveBroken
<1>2. Typed' /\ NeverTruncated'
  BY <1>1, Facts, FileTypes DEF Typed, NeverTruncated
<1>3. OwnFilesOnly(k)
  BY <1>1, Facts DEF OwnFilesOnly, Typed
<1>4. \A p \in Processes : tmp'[<<Bin(k), p>>] = NoFile
  BY <1>1, Paths
<1>5. tmp'[BinTmp(k)] = NoFile
  BY <1>4, Paths DEF BinTmp, Bin
<1>. QED
  BY <1>1, <1>2, <1>3, <1>4, <1>5
     DEF StepKeeps, KnowsItsFiles, TempWhole, BinKnown, NoStrangerLeft, NoTempOfOwn, AtWork, Ended

-----------------------------------------------------------------------------
(* Theorems. *)

LEMMA StartInv ==
    ASSUME InstallInv, NEW k \in Installs, Start(k)
    PROVE  InstallInv'
<1>1. /\ file' = file /\ tmp' = tmp
      /\ DOMAIN stage' = Installs /\ \A j \in Installs \ {k} : stage'[j] = stage[j]
      /\ stage[k] = "off" /\ stage'[k] = "check"
      /\ \A j \in Installs : DirOf[j] = DirOf[k] \/ ProcessOf[j] = ProcessOf[k] => ~AtWork(j)
  BY Facts DEF Typed, Step, Start
<1>2. Typed' /\ NeverTruncated'
  BY <1>1, Facts DEF Typed, NeverTruncated
<1>3. Alone'
  BY <1>1 DEF InstallInv, Alone, AtWork
<1>4. KnowsItsFiles(k)' /\ Succeeded(k)'
  BY <1>1 DEF KnowsItsFiles, TempWhole, BinKnown, NoStrangerLeft, NoTempOfOwn, Succeeded
<1>5. ASSUME NEW j \in Installs \ {k} PROVE KnowsItsFiles(j)' /\ Succeeded(j)'
  <2>1. KnowsItsFiles(j) /\ Succeeded(j) /\ stage'[j] = stage[j]
    BY <1>1 DEF InstallInv
  <2>2. KnowsItsFiles(j)'
    BY <1>1, <2>1 DEF KnowsItsFiles, TempWhole, BinKnown, NoStrangerLeft, NoTempOfOwn, AtWork
  <2>3. Succeeded(j)'
    BY <1>1, <2>1 DEF Succeeded
  <2>. QED
    BY <2>2, <2>3
<1>. QED
  BY <1>2, <1>3, <1>4, <1>5 DEF InstallInv

LEMMA InstallInvariant == InstallerSpec => []InstallInv
<1>1. InstallerInit => InstallInv
  <2>. SUFFICES ASSUME InstallerInit PROVE InstallInv
    OBVIOUS
  <2>1. \A i \in Installs : stage[i] = "off"
    BY DEF InstallerInit
  <2>2. Typed
    <3>1. [data |-> "good", exec |-> TRUE] \in File /\ [data |-> "bad", exec |-> TRUE] \in File
      <4>1. "good" \in Data /\ "bad" \in Data /\ TRUE \in BOOLEAN
        BY DEF Data
      <4>. QED
        BY <4>1 DEF File
    <3>2. file \in [Places -> File]
      BY <3>1, FileTypes DEF InstallerInit
    <3>3. tmp \in [Places \X Processes -> File]
      BY FileTypes DEF InstallerInit
    <3>. QED
      BY <3>2, <3>3 DEF InstallerInit, Typed
  <2>3. NeverTruncated
    BY FileTypes DEF InstallerInit, NeverTruncated
  <2>4. Alone
    BY <2>1 DEF Alone, AtWork, Ended
  <2>5. \A i \in Installs : KnowsItsFiles(i) /\ Succeeded(i)
    BY <2>1 DEF KnowsItsFiles, TempWhole, BinKnown, NoStrangerLeft, NoTempOfOwn, AtWork, Ended, Succeeded
  <2>. QED
    BY <2>2, <2>3, <2>4, <2>5 DEF InstallInv
<1>2. InstallInv /\ [InstallerNext]_installerVars => InstallInv'
  <2>. SUFFICES ASSUME InstallInv, [InstallerNext]_installerVars PROVE InstallInv'
    OBVIOUS
  <2>1. ASSUME NEW k \in Installs, Start(k) PROVE InstallInv'
    BY <2>1, StartInv
  <2>2. ASSUME NEW k \in Installs, InstallStep(k) \/ Interrupted(k) \/ Killed(k) PROVE InstallInv'
    <3>1. AtWork(k) /\ StepKeeps(k)
      BY <2>2, QuietStep, BinTempStep, CacheTempStep, RenameStep, ChmodStep, ShareSteps, DiscardStep,
         RemoveStep DEF InstallStep
    <3>. QED
      BY <3>1, StepKeepsInv
  <2>3. CASE UNCHANGED installerVars
    BY <2>3 DEF installerVars, InstallInv, Typed, Alone, NeverTruncated, KnowsItsFiles, TempWhole, BinKnown,
                NoStrangerLeft, NoTempOfOwn, AtWork, Succeeded
  <2>. QED
    BY <2>1, <2>2, <2>3 DEF InstallerNext
<1>. QED
  BY <1>1, <1>2, PTL DEF InstallerSpec

(* "an interrupted install must never leave a truncated binary behind",    *)
(* wherever installs are killed (downloadTo, copyAtomic).                  *)
THEOREM NoTruncatedBinary == InstallerSpec => []NeverTruncated
<1>1. InstallInv => NeverTruncated
  BY DEF InstallInv
<1>. QED
  BY <1>1, InstallInvariant, PTL

(* An install that reports success has left a binary that runs (install).  *)
THEOREM SuccessIsUsable == InstallerSpec => []OkMeansUsable
<1>1. InstallInv => OkMeansUsable
  BY DEF InstallInv, Succeeded, OkMeansUsable
<1>. QED
  BY <1>1, InstallInvariant, PTL

(* An install that did something and succeeds leaves no temporary file in  *)
(* its directory, the ones of killed installs included.                    *)
THEOREM SuccessLeavesNoTemp == InstallerSpec => NoTempLeft
<1>. DEFINE Clean == \A i \in Installs :
        stage[i] # "check" /\ stage[i] # "ok" /\ stage'[i] = "ok"
            => \A p \in Processes : tmp'[<<Bin(i), p>>] = NoFile
<1>1. InstallInv /\ [InstallerNext]_installerVars => [Clean]_installerVars
  <2>. SUFFICES ASSUME InstallInv, InstallerNext, NEW i \in Installs,
                       stage[i] # "check", stage[i] # "ok", stage'[i] = "ok", NEW p \in Processes
                PROVE  tmp'[<<Bin(i), p>>] = NoFile
    BY DEF installerVars
  <2>1. Verify(i) \/ Share(i) \/ ShareFails(i)
    <3>1. PICK k \in Installs : Start(k) \/ InstallStep(k) \/ Interrupted(k) \/ Killed(k)
      BY DEF InstallerNext
    <3>2. k = i
      BY <3>1, Facts
         DEF Typed, InstallStep, Step, Start, KeepWorking, RemoveBroken, CacheMiss, CacheHit, CopyBegins,
             CopyEnds, CopyFails, Restore, ChmodRestored, Verify, Discard, DownloadBegins,
             DownloadRefused, DownloadComplete, DownloadFails, Place, Chmod, ShareBegins, ShareCopied,
             Share, ShareFails, Interrupted, Killed
    <3>. QED
      BY <3>1, <3>2, Facts
         DEF Typed, InstallStep, Step, Start, KeepWorking, RemoveBroken, CacheMiss, CacheHit, CopyBegins,
             CopyEnds, CopyFails, Restore, ChmodRestored, Discard, DownloadBegins, DownloadRefused,
             DownloadComplete, DownloadFails, Place, Chmod, ShareBegins, ShareCopied, Interrupted, Killed
  <2>2. stage[i] \in {"verify", "share", "sharing", "shared"}
    BY <2>1, Facts DEF Typed, Step, Verify, Share, ShareFails
  <2>3. \A q \in Processes : tmp[<<Bin(i), q>>] = NoFile
    <3>1. KnowsItsFiles(i) /\ AtWork(i) /\ stage[i] # "check"
      BY <2>2, Facts DEF AtWork, Ended
    <3>2. tmp[BinTmp(i)] = NoFile /\ \A q \in Processes \ {ProcessOf[i]} : tmp[<<Bin(i), q>>] = NoFile
      BY <2>2, <3>1 DEF KnowsItsFiles, NoStrangerLeft, NoTempOfOwn
    <3>. QED
      BY <3>2 DEF BinTmp, Bin
  <2>4. tmp' = tmp \/ tmp' = [tmp EXCEPT ![CacheTmp(i)] = NoFile]
    BY <2>1 DEF Verify, Share, ShareFails, Renamed, SetTmp
  <2>5. <<Bin(i), p>> # CacheTmp(i)
    BY Paths DEF CacheTmp
  <2>6. <<Bin(i), p>> \in Places \X Processes /\ tmp \in [Places \X Processes -> File]
    BY Paths, Facts DEF Typed
  <2>7. tmp'[<<Bin(i), p>>] = tmp[<<Bin(i), p>>]
    BY <2>4, <2>5, <2>6
  <2>. QED
    BY <2>3, <2>7
<1>. QED
  BY <1>1, InstallInvariant, PTL DEF InstallerSpec, NoTempLeft
=============================================================================
