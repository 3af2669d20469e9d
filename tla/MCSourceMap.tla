---------------------------- MODULE MCSourceMap -----------------------------
(* Small instances of ImportedMap.                                         *)
EXTENDS ImportedMap, TLC

M(source, service, sourceLen, serviceLen) ==
    [source |-> source, service |-> service, sourceLen |-> sourceLen, serviceLen |-> serviceLen]

(* Nested, touching, overlapping, equal, empty, crossing and distant ones, *)
(* with and without a service length of their own.                         *)
Shapes ==
    {<<>>,
     <<M(1, 0, 2, 1)>>, <<M(0, 1, 0, 2)>>,
     <<M(0, 0, 3, 0), M(1, 1, 1, 0)>>,
     <<M(0, 1, 1, 0), M(1, 2, 1, 0)>>,
     <<M(0, 0, 2, 0), M(1, 0, 2, 1)>>,
     <<M(1, 0, 1, 0), M(1, 2, 1, 2)>>,
     <<M(2, 0, 1, 0), M(0, 2, 1, 0)>>,
     <<M(0, 3, 0, 0), M(2, 1, 1, 0)>>,
     <<M(0, 2, 1, 2), M(3, 0, 0, 1)>>,
     <<M(0, 0, 3, 0), M(0, 2, 1, 1), M(1, 3, 2, 0)>>}

(* The generated text repeats what is before and behind the middle.        *)
MCSourceText == <<1, 2, 1>>
MCServiceText == <<3, 1, 2, 1>>

Symmetry == Permutations(Threads)
=============================================================================
