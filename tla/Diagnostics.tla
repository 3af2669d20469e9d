---------------------------- MODULE Diagnostics -----------------------------
(***************************************************************************)
(* The way of one .vue file's diagnostics from the type checker to the     *)
(* report (internal/golar/golar.go, docs/architecture.md).  TypeScript's   *)
(* phases hand out the diagnostics they cache, as pointers; the file's     *)
(* Wrap callbacks drop some and move the others in place from the          *)
(* generated code to the .vue file.  Which phase calls which callback, and *)
(* how often, is decided by the patched compiler: plain tsc, incremental   *)
(* (composite) builds and the language server each have their own order.   *)
(***************************************************************************)
EXTENDS Mappings, FiniteSets

CONSTANTS
    Modes,      \* of "tsc", "incremental", "lsp": who asks for the diagnostics
    Files,      \* what a .vue file may be compiled to: source map and directives
    Diags,      \* diagnostics of the file
    Kinds(_),   \* what each diagnostic may be in a mode: origin, code and range
    MaxPulls    \* bound: pulls of the editor between two edits of the file

ASSUME DiagnosticsAssumption ==
    /\ Modes \subseteq {"tsc", "incremental", "lsp"}
    /\ MaxPulls \in Nat \ {0}

VARIABLES
    mode,       \* who asks
    file,       \* languageData: mappings, ignored, expected, props, masked
    kind,       \* each diagnostic as its phase created it
    loc,        \* Diagnostic.loc, moved in place
    unusedCollected,    \* the flag captured by WrapSemanticDiagnostics
    step,       \* the phase that runs next
    out,        \* diagnostics collected for the report
    unused,     \* expect-error directives collected as unused
    reported,   \* what the last report showed: diagnostic and range
    pulls       \* pulls begun since the file was parsed

vars == <<mode, file, kind, loc, unusedCollected, step, out, unused, reported, pulls>>

FreshLocs(k) == [d \in Diags |-> k[d].range]
From(origins) == {d \in Diags : kind[d].origin \in origins}

Init ==
    /\ mode \in Modes
    /\ file \in Files
    /\ kind \in [Diags -> Kinds(mode)]
    /\ loc = FreshLocs(kind)
    /\ unusedCollected = FALSE
    /\ step = IF mode = "lsp" THEN "idle" ELSE "syntactic"
    /\ out = {} /\ unused = {} /\ reported = {}
    /\ pulls = 0

-----------------------------------------------------------------------------
(* wrapDiagnostics *)

(* IsReportedThroughMappings, where the plugin gave masks: masked[i] are   *)
(* the codes mapping i suppresses.  It takes the service length as it is.  *)
Allowed(offset, code) ==
    \E i \in DOMAIN file.masked :
        /\ code \notin file.masked[i]
        /\ file.mappings[i].service <= offset
        /\ offset <= file.mappings[i].service + file.mappings[i].serviceLen

(* The directives, IsUnknownPropDiagnostic and the masks, in the generated *)
(* code's coordinates.  "unknownProp" stands for TS2353 and TS2561,        *)
(* "filtered" for the other codes a mask may name, "golar" for golar's own.*)
Silenced(range, code) ==
    \/ \E r \in file.ignored \cup file.expected : ContainedBy(range, r)
    \/ code = "unknownProp" /\ \E r \in file.props : ContainedBy(range, r)
    \/ /\ code \in {"unknownProp", "filtered"} /\ file.masked # <<>>
       /\ ~(Allowed(range.pos, code) /\ Allowed(range.end, code))

(* Codes from 1,000,000 on are golar's own and in the .vue file already.   *)
Own(d) == kind[d].code = "golar"

(* Mutant: only a mapping that covers both ends is taken. *)
TargetsDirect(d) ==
    DirectRanges(file.mappings, "service", Locations(file.mappings, "service", loc[d].pos), loc[d].end)

(* adjustDiagnostic: the first range found, in the order of a Go map;      *)
(* without a range the diagnostic is dropped and stays where it is.        *)
Targets(d) == Ranges(file.mappings, "service", loc[d])

(* Mutant: the directives are looked up where the diagnostic is moved to. *)
KeptAfterMove(ds) ==
    {d \in ds : IF Own(d) THEN ~Silenced(loc[d], kind[d].code)
                ELSE \E r \in Targets(d) : ~Silenced(r, kind[d].code)}

Kept(ds) == {d \in ds : ~Silenced(loc[d], kind[d].code) /\ (Own(d) \/ Targets(d) # {})}

Moved(d, ds) == IF d \in Kept(ds) /\ ~Own(d) THEN Targets(d) ELSE {loc[d]}

Wrap(ds) ==
    loc' \in {l \in [Diags -> UNION {Moved(d, ds) : d \in Diags}] : \A d \in Diags : l[d] \in Moved(d, ds)}

CollectUnused(ds) == {e \in file.expected : \A d \in ds : ~ContainedBy(loc[d], e)}

-----------------------------------------------------------------------------
(* The phases. *)

(* GetSyntacticDiagnostics: parse errors of the generated code and what    *)
(* golar's own parser and code generator found.  tsc stops at them.        *)
Syntactic ==
    /\ step = "syntactic"
    /\ LET ds == From({"parse", "golar"})
       IN  /\ Wrap(ds)
           /\ out' = Kept(ds)
           /\ step' = IF mode = "lsp" THEN "semantic"
                      ELSE IF Kept(ds) # {} THEN "report" ELSE "bind"
    /\ UNCHANGED <<mode, file, kind, unusedCollected, unused, reported, pulls>>

(* tsc.EmitFilesAndReportErrors calls GetBindDiagnostics for its timing;   *)
(* what it returns is not looked at, but it is wrapped.                    *)
Bind ==
    /\ step = "bind"
    /\ Wrap(From({"bind"}))
    /\ step' = "semantic"
    /\ UNCHANGED <<mode, file, kind, unusedCollected, out, unused, reported, pulls>>

(* getBindAndCheckDiagnosticsForFile through WrapSemanticDiagnostics, and  *)
(* GetIncludeProcessorDiagnostics through WrapDiagnostics.                 *)
Semantic ==
    /\ step = "semantic"
    /\ LET ds == From({"bind", "check"})
           all == IF mode = "incremental" THEN ds ELSE ds \cup From({"include"})
       IN  /\ Wrap(all)
           /\ out' = out \cup Kept(all)
           /\ unused' = IF unusedCollected THEN {} ELSE CollectUnused(ds)
    /\ unusedCollected' = TRUE
    /\ step' = CASE mode = "tsc" -> "report" [] mode = "incremental" -> "cached" [] mode = "lsp" -> "suggestion"
    /\ UNCHANGED <<mode, file, kind, reported, pulls>>

(* incremental.getSemanticDiagnosticsOfFile wraps what the cache holds,    *)
(* the unused directives (golar's own code, at their place in the .vue     *)
(* file) with it.                                                          *)
Cached ==
    /\ step = "cached"
    /\ LET ds == out \cup From({"include"})
       IN  Wrap(ds) /\ out' = Kept(ds)
    /\ unused' = {e \in unused : ~Silenced(e.at, "golar")}
    /\ step' = "report"
    /\ UNCHANGED <<mode, file, kind, unusedCollected, reported, pulls>>

(* Mutant: the checker's errors are handed out with its suggestions. *)
SuggestionWithErrors ==
    /\ step = "suggestion"
    /\ LET ds == From({"check", "suggestion"})
       IN  /\ Wrap(ds)
           /\ out' = out \cup Kept(ds)
           /\ unused' = IF unusedCollected THEN unused ELSE unused \cup CollectUnused(ds)
    /\ unusedCollected' = TRUE
    /\ step' = "report"
    /\ UNCHANGED <<mode, file, kind, reported, pulls>>

(* GetSuggestionDiagnostics, the language server only. *)
Suggestion ==
    /\ step = "suggestion"
    /\ LET ds == From({"suggestion"})
       IN  /\ Wrap(ds)
           /\ out' = out \cup Kept(ds)
           /\ unused' = IF unusedCollected THEN unused ELSE unused \cup CollectUnused(ds)
    /\ unusedCollected' = TRUE
    /\ step' = "report"
    /\ UNCHANGED <<mode, file, kind, reported, pulls>>

(* Positions are read from the collected pointers when the report is made. *)
Report ==
    /\ step = "report"
    /\ reported' = {[diag |-> d, range |-> loc[d]] : d \in out}
    /\ step' = IF mode = "lsp" THEN "answered" ELSE "end"
    /\ UNCHANGED <<mode, file, kind, loc, unusedCollected, out, unused, pulls>>

-----------------------------------------------------------------------------
(* The editor (language server). *)

Pull ==
    /\ mode = "lsp" /\ step \in {"idle", "answered"}
    /\ pulls < MaxPulls
    /\ pulls' = pulls + 1
    /\ step' = "syntactic"
    /\ out' = {} /\ unused' = {} /\ reported' = {}
    /\ UNCHANGED <<mode, file, kind, loc, unusedCollected>>

(* Another file changed: a new program with new checkers; the parse cache  *)
(* keeps this file, with its parse and bind diagnostics and its callbacks. *)
EditOtherFile ==
    /\ mode = "lsp" /\ step = "answered"
    /\ pulls < MaxPulls
    /\ loc' = [d \in Diags |-> IF kind[d].origin \in {"check", "suggestion", "include"}
                               THEN kind[d].range ELSE loc[d]]
    /\ step' = "idle"
    /\ out' = {} /\ unused' = {} /\ reported' = {}
    /\ UNCHANGED <<mode, file, kind, unusedCollected, pulls>>

(* Mutant: the callbacks are shared by the versions of a file. *)
EditThisFileSameCallbacks ==
    /\ mode = "lsp" /\ step \in {"idle", "answered"}
    /\ file' \in Files
    /\ kind' \in [Diags -> Kinds(mode)]
    /\ loc' = FreshLocs(kind')
    /\ pulls' = 0
    /\ step' = "idle"
    /\ out' = {} /\ unused' = {} /\ reported' = {}
    /\ UNCHANGED <<mode, unusedCollected>>

(* The file itself changed: it is parsed anew. *)
EditThisFile ==
    /\ mode = "lsp" /\ step \in {"idle", "answered"}
    /\ file' \in Files
    /\ kind' \in [Diags -> Kinds(mode)]
    /\ loc' = FreshLocs(kind')
    /\ unusedCollected' = FALSE
    /\ pulls' = 0
    /\ step' = "idle"
    /\ out' = {} /\ unused' = {} /\ reported' = {}
    /\ UNCHANGED mode

Next ==
    \/ Syntactic \/ Bind \/ Semantic \/ Cached \/ Suggestion \/ Report
    \/ Pull \/ EditOtherFile \/ EditThisFile

Spec == Init /\ [][Next]_vars

-----------------------------------------------------------------------------
(* Properties. *)

Answered == step \in {"answered", "end"}
TypeScripts == {d \in Diags : ~Own(d)}

(* Reported at the place the source map gives for the place it was created *)
(* at; golar's own stay where they were created.                           *)
InPlace(r) ==
    r.range \in IF Own(r.diag) THEN {kind[r.diag].range}
                ELSE Ranges(file.mappings, "service", kind[r.diag].range)

(* Every reported diagnostic shows the place in the .vue file that its     *)
(* place in the generated code maps to (adjustDiagnostic, called on the    *)
(* pointers the compiler caches).                                          *)
RightPlace == Answered => \A r \in reported : InPlace(r)

(* What a directive or a fallthrough prop silences where it was created is *)
(* never shown, in whatever order and however often the callbacks run.     *)
SilencedStaysSilent ==
    Answered => \A d \in TypeScripts \cap {r.diag : r \in reported} :
        /\ \A r \in file.ignored \cup file.expected : ~ContainedBy(kind[d].range, r)
        /\ kind[d].code = "unknownProp" => \A r \in file.props : ~ContainedBy(kind[d].range, r)

(* Handed out by one phase between its creation and the report: binder     *)
(* errors are not in a tsc run, nor semantic errors in an incremental one, *)
(* nor anything from the second pull of a parsed file on.                  *)
WrappedOnce(d) ==
    CASE mode = "tsc" -> kind[d].origin # "bind"
      [] mode = "incremental" -> kind[d].origin \notin {"bind", "check"}
      [] mode = "lsp" -> pulls = 1

(* RightPlace where no other phase has moved the diagnostic before: the    *)
(* place is right whatever other diagnostics, directives and phases there  *)
(* are, and whatever has been edited.                                      *)
RightPlaceWrappedOnce ==
    Answered => \A r \in reported : WrappedOnce(r.diag) => InPlace(r)

(* Such a semantic error is also reported, once the semantic pass has run, *)
(* unless something silences it or the source map does not know it.        *)
NothingLost ==
    Answered /\ unusedCollected =>
        \A d \in {e \in TypeScripts \cap From({"bind", "check", "include"}) : WrappedOnce(e)} :
            \/ Silenced(kind[d].range, kind[d].code)
            \/ Ranges(file.mappings, "service", kind[d].range) = {}
            \/ \E r \in reported : r.diag = d

(* An expect-error directive is reported as unused exactly when it covers  *)
(* no binder or checker error: never together with an error it silenced,   *)
(* never forgotten (wrapDiagnostics, CollectUnused).                       *)
UnusedExact ==
    Answered /\ unusedCollected =>
        unused = {e \in file.expected : \A d \in From({"bind", "check"}) : ~ContainedBy(kind[d].range, e)}

(* The same while every error a directive may cover is where it was        *)
(* created: in a tsc run without binder errors, and in the editor's first  *)
(* pull after the file was parsed.                                         *)
UnusedExactWrappedOnce ==
    (mode = "tsc" /\ From({"bind"}) = {}) \/ (mode = "lsp" /\ pulls = 1) => UnusedExact
=============================================================================
