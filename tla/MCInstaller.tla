----------------------------- MODULE MCInstaller ----------------------------
(* Two package directories; the first is installed into twice.             *)
EXTENDS Installer

CONSTANTS i1, i2, i3, d1, d2

TwoDirs == [i \in Installs |-> IF i = i3 THEN d2 ELSE d1]
OwnPids == [i \in Installs |-> IF i = i1 THEN 1 ELSE IF i = i2 THEN 2 ELSE 3]
=============================================================================
