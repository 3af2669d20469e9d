--------------------------- MODULE MCEditorClient ---------------------------
(* A setting that is changed and changed back, three restarts.             *)
EXTENDS EditorClient, TLC

MCPaths == <<1, 2, 1>>

Symmetry == Permutations(Restarts)
=============================================================================
