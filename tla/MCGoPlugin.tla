---------------------------- MODULE MCGoPlugin -----------------------------
(* Small instances of GoPluginSystem. *)
EXTENDS GoPluginSystem
=============================================================================
