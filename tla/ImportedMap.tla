---------------------------- MODULE ImportedMap -----------------------------
(***************************************************************************)
(* The source map of a file from a plugin (parseFile in golar.go): of the  *)
(* mappings in the plugin's answer, or of the segments of the source map   *)
(* in it; then asked by the goroutines of the language server.             *)
(***************************************************************************)
EXTENDS SourceMap, SegmentImport

allVars == <<vars, importVars>>

MapInit ==
    /\ NothingAsked
    /\ \/ mappings \in MappingLists /\ ImportStart("given")
       \/ mappings = <<>> /\ ImportStart("open")

(* sourceMapToMapping returns, and its variables are gone.                 *)
NewSourceMap ==
    /\ importing = "returned"
    /\ mappings' = imported
    /\ segments' = <<>> /\ current' = None /\ imported' = <<>>
    /\ importing' = "over"
    /\ UNCHANGED <<memo, pc, query, phase, seeking, seen, low, high, starts, ranges>>

MapNext ==
    \/ ImportStep /\ UNCHANGED vars
    \/ NewSourceMap
    \/ importing \in {"given", "over"} /\ Next /\ UNCHANGED importVars

MapSpec == MapInit /\ [][MapNext]_allVars

-----------------------------------------------------------------------------
(* Properties. *)

Text(side) == IF side = "source" THEN SourceText ELSE ServiceText

(* In an imported map every byte that is looked up leads to equal bytes:   *)
(* what the editor points at is what the checker is asked about.  The end  *)
(* of a mapping stands for no byte of it.                                  *)
LookupSameText ==
    importing = "over" =>
        \A t \in Threads : pc[t] = "done" =>
            LET q == query[t]
            IN  \A h \in starts[t] :
                   q.pos < End(mappings[h.by], q.side) =>
                       Text(q.side)[q.pos + 1] = Text(Other(q.side))[h.offset + 1]
=============================================================================
