--------------------------- MODULE MCDiagnostics ----------------------------
(* Three compiled files, small enough to try every diagnostic on.          *)
EXTENDS Diagnostics

Map(so, se, len, slen) == [source |-> so, service |-> se, sourceLen |-> len, serviceLen |-> slen]
At(a, b) == [pos |-> a, end |-> b]
Expect(a, b, at) == [pos |-> a, end |-> b, at |-> at]

(* Two blocks that the generated code has in the other order, one ignored  *)
(* range, one expect-error directive.                                      *)
Swapped == [mappings |-> <<Map(4, 0, 2, 0), Map(0, 4, 3, 2)>>, ignored |-> {At(1, 2)},
            expected |-> {Expect(5, 6, At(0, 1))}, props |-> {}, masked |-> <<>>]

(* One expression generated twice, a prop name, a directive.               *)
Twice == [mappings |-> <<Map(2, 0, 2, 2), Map(2, 3, 2, 2), Map(5, 3, 1, 1)>>, ignored |-> {},
          expected |-> {Expect(3, 4, At(4, 5))}, props |-> {At(0, 1)}, masked |-> <<>>]

(* From a plugin: masks. *)
Masked == [mappings |-> <<Map(3, 1, 2, 2), Map(0, 4, 2, 0)>>, ignored |-> {At(6, 6)},
           expected |-> {}, props |-> {}, masked |-> <<{"unknownProp"}, {}>>]

MCFiles == {Swapped, Twice, Masked}

Kind(origins, codes, ranges) == [origin : origins, code : codes, range : ranges]
SomeRanges == {At(0, 1), At(1, 2), At(3, 4), At(5, 6), At(1, 5)}

BatchKinds ==
    Kind({"bind", "check", "include"}, {"plain", "unknownProp", "filtered"}, SomeRanges)
        \cup Kind({"parse"}, {"plain"}, SomeRanges) \cup Kind({"golar"}, {"golar"}, {At(0, 1), At(4, 5)})

(* Fewer, for each edit of the file draws them anew. *)
LspKinds ==
    Kind({"bind", "check", "suggestion", "parse"}, {"plain"}, {At(0, 1), At(3, 4)})
        \cup {[origin |-> "check", code |-> "unknownProp", range |-> At(5, 6)],
              [origin |-> "golar", code |-> "golar", range |-> At(4, 5)]}

MCKinds(m) == IF m = "lsp" THEN LspKinds ELSE BatchKinds
=============================================================================
