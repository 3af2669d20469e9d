----------------------------- MODULE MCLauncher -----------------------------
(* Three runs, the third with the process id of the first.                 *)
EXTENDS Launcher

CONSTANTS r1, r2, r3

Reused == [r \in Runs |-> IF r = r2 THEN 2 ELSE 1]
Laptop == [cpus |-> 8, mem |-> 16384]
=============================================================================
