--------------------------- MODULE MCPluginNode ----------------------------
(* Small instances of PluginNodeSystem. *)
EXTENDS PluginNodeSystem
=============================================================================
