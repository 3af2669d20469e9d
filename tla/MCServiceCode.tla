--------------------------- MODULE MCServiceCode ---------------------------
(* Small instances of ServiceCode.                                         *)
EXTENDS ServiceCode

(* Two releases; two sets of options of which JSON tells no difference,    *)
(* and a third; a run without the cache.                                   *)
Env(release, options, cached) == [release |-> release, options |-> options, cached |-> cached]
Uncached == Env("new", "a", FALSE)
Environments ==
    {Env("old", "a", TRUE), Env("new", "a", TRUE), Env("new", "plugin", TRUE), Env("new", "b", TRUE), Uncached}

MCIdentity(options) == IF options = "b" THEN "b" ELSE "a"

(* A character of each length in both texts.                               *)
SourceText == <<1, 4, 0, 2>>
ServiceText == <<1, 2, 4, 0, 1, 3>>

P(source, service, len) == [source |-> source, service |-> service, len |-> len]
V(pairs, lens, mask) == [pairs |-> pairs, genLens |-> lens, mask |-> mask]

(* Pairs of equal texts and others, nested, touching, overlapping, empty,  *)
(* inside a character of two units.                                        *)
Pairs == <<P(0, 0, 1), P(0, 4, 1), P(1, 2, 2), P(3, 1, 1), P(0, 2, 3), P(2, 3, 1), P(0, 6, 0), P(0, 0, 4)>>

MappingLists ==
    {<<V(<<Pairs[i], Pairs[j]>>, <<>>, {})>> : i \in 1..8, j \in 1..4}
      \cup {<<V(<<P(1, 2, 2)>>, <<n>>, {6133}), V(<<Pairs[j]>>, <<>>, {})>> : n \in {0, 2}, j \in 1..8}

File(ms) == [source |-> SourceText, service |-> ServiceText, mappings |-> ms]

(* One machine where everything about the cache may differ, and one for    *)
(* each list of mappings.                                                  *)
MCMachines ==
    {[environments |-> Environments, fileNames |-> {"f1", "f2"},
      sources |-> {[source |-> <<n>>, service |-> <<>>, mappings |-> <<>>] : n \in {1, 2}}]}
      \cup {[environments |-> {Uncached}, fileNames |-> {"f1"}, sources |-> {File(ms)}] :
               ms \in MappingLists}
=============================================================================
