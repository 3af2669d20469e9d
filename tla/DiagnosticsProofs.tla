-------------------------- MODULE DiagnosticsProofs --------------------------
(***************************************************************************)
(* What is shown of a .vue file's diagnostics, for every source map, every *)
(* set of directives and every set of diagnostics: what is silenced where  *)
(* it was created stays silent however often the callbacks run, and in the *)
(* first pass over a parsed file nothing is lost or misplaced.             *)
(***************************************************************************)
EXTENDS Diagnostics, TLAPS

(* The phases each mode goes through.                                      *)
Shape ==
    /\ DOMAIN loc = Diags
    /\ out \subseteq Diags
    /\ pulls \in Nat
    /\ CASE mode = "tsc" -> step \in {"syntactic", "bind", "semantic", "report", "end"}
         [] mode = "incremental" -> step \in {"syntactic", "bind", "semantic", "cached", "report", "end"}
         [] mode = "lsp" -> step \in {"idle", "syntactic", "semantic", "suggestion", "report", "answered"}
         [] OTHER -> FALSE

(* golar's own diagnostics stay where they are; another one is where it was *)
(* created, or was moved because nothing silenced it there; so were those   *)
(* collected.                                                              *)
OwnStay == \A d \in Diags : Own(d) => loc[d] = kind[d].range
MovedWereKept ==
    \A d \in TypeScripts : loc[d] = kind[d].range \/ ~Silenced(kind[d].range, kind[d].code)
OutWasKept == \A d \in out \cap TypeScripts : ~Silenced(kind[d].range, kind[d].code)
ReportShowsOut == Answered => reported = {[diag |-> d, range |-> loc[d]] : d \in out}

SilenceInv == Shape /\ OwnStay /\ MovedWereKept /\ OutWasKept /\ ReportShowsOut

-----------------------------------------------------------------------------
(* No phase has run twice since the file was parsed.                       *)
FirstPass == mode = "lsp" => pulls = 1 /\ step # "idle"
Running == {"syntactic", "bind", "semantic", "cached", "suggestion"}

(* The origins whose phase has run, WrappedOnce diagnostics only.          *)
Past == CASE step = "syntactic" -> {}
          [] step \in {"bind", "semantic"} -> {"parse", "golar"}
          [] step = "cached" -> {"parse", "golar", "bind", "check"}
          [] OTHER -> {"parse", "golar", "bind", "check", "include"}

(* What each phase finds: whether the unused directives were collected, and *)
(* whose diagnostics are in the report.                                    *)
PassOrder ==
    /\ mode = "lsp" /\ step # "idle" => pulls >= 1
    /\ mode = "lsp" /\ pulls = 0 => ~unusedCollected /\ loc = FreshLocs(kind)
    /\ FirstPass /\ step \in {"syntactic", "bind", "semantic"} => ~unusedCollected
    /\ step \in {"cached", "suggestion"} => unusedCollected
    /\ step = "syntactic" \/ (mode # "lsp" /\ step \in {"bind", "semantic"}) => out = {}
    /\ step = "cached" => out \subseteq From({"bind", "check"})
    /\ step \in {"semantic", "suggestion"} => out \subseteq From(Past)

(* A diagnostic whose phase is still to come is where it was created.      *)
Untouched ==
    FirstPass /\ step \in Running =>
        \A d \in Diags : WrappedOnce(d) /\ kind[d].origin \notin Past => loc[d] = kind[d].range

(* A collected one is where the source map puts it.                        *)
Placed == FirstPass => \A d \in out : WrappedOnce(d) => InPlace([diag |-> d, range |-> loc[d]])

(* After the semantic pass nothing is missing that should be shown.        *)
Collected ==
    FirstPass /\ unusedCollected =>
        \A d \in {e \in TypeScripts \cap From({"bind", "check", "include"}) : WrappedOnce(e)} :
            \/ Silenced(kind[d].range, kind[d].code)
            \/ Ranges(file.mappings, "service", kind[d].range) = {}
            \/ d \in out
            \/ step = "cached" /\ kind[d].origin = "include"

(* The directives collected as unused cover no error.                      *)
UnusedRight ==
    (mode = "tsc" /\ From({"bind"}) = {}) \/ (mode = "lsp" /\ FirstPass) =>
        (unusedCollected =>
            unused = {e \in file.expected : \A d \in From({"bind", "check"}) : ~ContainedBy(kind[d].range, e)})

OnceInv == PassOrder /\ Untouched /\ Placed /\ Collected /\ UnusedRight

-----------------------------------------------------------------------------
(* Wrapping: a diagnostic moves to one of its targets if it is kept and not *)
(* golar's own; every other one stays.                                     *)
LEMMA WrapMoves ==
    ASSUME NEW ds, Wrap(ds)
    PROVE  /\ DOMAIN loc' = Diags
           /\ \A d \in Diags : IF d \in Kept(ds) /\ ~Own(d) THEN loc'[d] \in Targets(d) ELSE loc'[d] = loc[d]
<1>1. PICK l \in [Diags -> UNION {Moved(d, ds) : d \in Diags}] :
          loc' = l /\ \A d \in Diags : l[d] \in Moved(d, ds)
  BY DEF Wrap
<1>. QED
  BY <1>1 DEF Moved

(* What is silenced depends on the file and the diagnostics only.          *)
LEMMA SameFile ==
    ASSUME file' = file, kind' = kind
    PROVE  /\ \A r, c : Silenced(r, c)' <=> Silenced(r, c)
           /\ \A d : (Own(d)' <=> Own(d)) /\ TypeScripts' = TypeScripts
           /\ \A os : From(os)' = From(os)
BY DEF Silenced, Allowed, Own, TypeScripts, From

(* A phase that wraps ds and collects what it kept.                        *)
LEMMA WrapSilences ==
    ASSUME SilenceInv, file' = file, kind' = kind, NEW ds \in SUBSET Diags, Wrap(ds),
           out' \subseteq out \cup Kept(ds)
    PROVE  OwnStay' /\ MovedWereKept' /\ OutWasKept'
<1>1. /\ \A r, c : Silenced(r, c)' <=> Silenced(r, c)
      /\ \A d : Own(d)' <=> Own(d)
      /\ TypeScripts' = TypeScripts
  BY SameFile
<1>2. \A d \in Kept(ds) : d \in Diags /\ ~Silenced(loc[d], kind[d].code)
  BY DEF Kept
<1>3. \A d \in Kept(ds) \cap TypeScripts : ~Silenced(kind[d].range, kind[d].code)
  BY <1>2 DEF SilenceInv, MovedWereKept
<1>4. \A d \in Diags : IF d \in Kept(ds) /\ ~Own(d) THEN TRUE ELSE loc'[d] = loc[d]
  BY WrapMoves
<1>5. OwnStay'
  BY <1>1, <1>4 DEF SilenceInv, OwnStay
<1>6. MovedWereKept'
  BY <1>1, <1>3, <1>4 DEF SilenceInv, MovedWereKept, TypeScripts
<1>7. OutWasKept'
  BY <1>1, <1>3 DEF SilenceInv, OutWasKept
<1>. QED
  BY <1>5, <1>6, <1>7

(* Every phase, pull and edit keeps what is silenced silent. *)
LEMMA SilenceStep == SilenceInv /\ [Next]_vars => SilenceInv'
<1>. SUFFICES ASSUME SilenceInv, [Next]_vars PROVE SilenceInv'
  OBVIOUS
<1>. USE DEF Shape
<1>1. CASE Syntactic
  <2>1. PICK ds \in SUBSET Diags : Wrap(ds) /\ out' = Kept(ds)
    BY <1>1 DEF Syntactic, From
  <2>2. OwnStay' /\ MovedWereKept' /\ OutWasKept'
    BY <1>1, <2>1, WrapSilences DEF Syntactic
  <2>3. Shape' /\ ReportShowsOut'
    BY <1>1, <2>1, WrapMoves DEF Syntactic, SilenceInv, ReportShowsOut, Answered, Kept
  <2>. QED
    BY <2>2, <2>3 DEF SilenceInv
<1>2. CASE Bind
  <2>1. PICK ds \in SUBSET Diags : Wrap(ds) /\ out' = out
    BY <1>2 DEF Bind, From
  <2>2. OwnStay' /\ MovedWereKept' /\ OutWasKept'
    BY <1>2, <2>1, WrapSilences DEF Bind
  <2>3. Shape' /\ ReportShowsOut'
    BY <1>2, <2>1, WrapMoves DEF Bind, SilenceInv, ReportShowsOut, Answered
  <2>. QED
    BY <2>2, <2>3 DEF SilenceInv
<1>3. CASE Semantic
  <2>1. PICK ds \in SUBSET Diags : Wrap(ds) /\ out' = out \cup Kept(ds)
    BY <1>3 DEF Semantic, From
  <2>2. OwnStay' /\ MovedWereKept' /\ OutWasKept'
    BY <1>3, <2>1, WrapSilences DEF Semantic
  <2>3. Shape' /\ ReportShowsOut'
    BY <1>3, <2>1, WrapMoves DEF Semantic, SilenceInv, ReportShowsOut, Answered, Kept
  <2>. QED
    BY <2>2, <2>3 DEF SilenceInv
<1>4. CASE Cached
  <2>1. PICK ds \in SUBSET Diags : Wrap(ds) /\ out' = Kept(ds)
    BY <1>4 DEF Cached, From, SilenceInv
  <2>2. OwnStay' /\ MovedWereKept' /\ OutWasKept'
    BY <1>4, <2>1, WrapSilences DEF Cached
  <2>3. Shape' /\ ReportShowsOut'
    BY <1>4, <2>1, WrapMoves DEF Cached, SilenceInv, ReportShowsOut, Answered, Kept
  <2>. QED
    BY <2>2, <2>3 DEF SilenceInv
<1>5. CASE Suggestion
  <2>1. PICK ds \in SUBSET Diags : Wrap(ds) /\ out' = out \cup Kept(ds)
    BY <1>5 DEF Suggestion, From
  <2>2. OwnStay' /\ MovedWereKept' /\ OutWasKept'
    BY <1>5, <2>1, WrapSilences DEF Suggestion
  <2>3. Shape' /\ ReportShowsOut'
    BY <1>5, <2>1, WrapMoves DEF Suggestion, SilenceInv, ReportShowsOut, Answered, Kept
  <2>. QED
    BY <2>2, <2>3 DEF SilenceInv
<1>6. CASE Report \/ Pull \/ UNCHANGED vars
  <2>1. /\ \A r, c : Silenced(r, c)' <=> Silenced(r, c)
        /\ \A d : Own(d)' <=> Own(d)
        /\ TypeScripts' = TypeScripts
        /\ UNCHANGED <<kind, loc>> /\ out' \subseteq out
    BY <1>6, SameFile DEF Report, Pull, vars
  <2>2. OwnStay' /\ MovedWereKept' /\ OutWasKept'
    BY <2>1 DEF SilenceInv, OwnStay, MovedWereKept, OutWasKept
  <2>3. Shape' /\ ReportShowsOut'
    BY <1>6 DEF Report, Pull, vars, SilenceInv, ReportShowsOut, Answered
  <2>. QED
    BY <2>2, <2>3 DEF SilenceInv
<1>7. CASE EditOtherFile
  <2>1. /\ \A r, c : Silenced(r, c)' <=> Silenced(r, c)
        /\ \A d : Own(d)' <=> Own(d)
        /\ TypeScripts' = TypeScripts
        /\ kind' = kind /\ out' = {} /\ \A d \in Diags : loc'[d] \in {kind[d].range, loc[d]}
    BY <1>7, SameFile DEF EditOtherFile
  <2>2. OwnStay' /\ MovedWereKept' /\ OutWasKept'
    BY <2>1 DEF SilenceInv, OwnStay, MovedWereKept, OutWasKept, TypeScripts
  <2>3. Shape' /\ ReportShowsOut'
    BY <1>7 DEF EditOtherFile, SilenceInv, ReportShowsOut, Answered
  <2>. QED
    BY <2>2, <2>3 DEF SilenceInv
<1>8. CASE EditThisFile
  BY <1>8 DEF EditThisFile, FreshLocs, SilenceInv, OwnStay, MovedWereKept, OutWasKept, ReportShowsOut,
     Answered, TypeScripts
<1>. QED
  BY <1>1, <1>2, <1>3, <1>4, <1>5, <1>6, <1>7, <1>8 DEF Next

(* It holds of a file just parsed. *)
LEMMA InitSilence == Init => SilenceInv
<1>. SUFFICES ASSUME Init PROVE SilenceInv
  OBVIOUS
<1>1. mode \in {"tsc", "incremental", "lsp"}
  BY DiagnosticsAssumption DEF Init
<1>. QED
  BY <1>1 DEF Init, FreshLocs, SilenceInv, Shape, OwnStay, MovedWereKept, OutWasKept, ReportShowsOut,
     Answered, TypeScripts

(* No directive or prop is ever ignored: the invariant holds at every answer. *)
THEOREM SilencedIsSilent == Spec => []SilencedStaysSilent
<1>1. SilenceInv => SilencedStaysSilent
  BY DEF SilenceInv, OutWasKept, ReportShowsOut, SilencedStaysSilent, Silenced
<1>. QED
  BY <1>1, InitSilence, SilenceStep, PTL DEF Spec

-----------------------------------------------------------------------------
(* The first pass. *)

(* A kept diagnostic that was where it was created is put in its place.    *)
LEMMA WrapPlaces ==
    ASSUME SilenceInv, file' = file, kind' = kind, NEW ds \in SUBSET Diags, Wrap(ds),
           NEW d \in Kept(ds), loc[d] = kind[d].range
    PROVE  InPlace([diag |-> d, range |-> loc[d]])'
<1>1. d \in Diags /\ IF ~Own(d) THEN loc'[d] \in Targets(d) ELSE loc'[d] = loc[d]
  BY WrapMoves DEF Kept
<1>. QED
  BY <1>1 DEF InPlace, Own, Targets

(* One that is not wrapped stays in its place.                             *)
LEMMA UnwrappedStays ==
    ASSUME file' = file, kind' = kind, NEW ds, Wrap(ds), NEW d \in Diags, d \notin Kept(ds)
    PROVE  /\ loc'[d] = loc[d]
           /\ InPlace([diag |-> d, range |-> loc[d]]) => InPlace([diag |-> d, range |-> loc[d]])'
<1>1. loc'[d] = loc[d]
  BY WrapMoves
<1>. QED
  BY <1>1 DEF InPlace, Own

(* Where it was created, a TypeScript diagnostic is kept unless something  *)
(* silences it or the source map does not know the place.                  *)
LEMMA KeptOrSilenced ==
    ASSUME NEW ds, NEW d \in ds, loc[d] = kind[d].range
    PROVE  \/ d \in Kept(ds)
           \/ Silenced(kind[d].range, kind[d].code)
           \/ Ranges(file.mappings, "service", kind[d].range) = {}
BY DEF Kept, Targets

(* The first pass: the syntactic phase. *)
LEMMA SyntacticOnce == SilenceInv /\ SilenceInv' /\ OnceInv /\ Syntactic => OnceInv'
<1>. SUFFICES ASSUME SilenceInv, SilenceInv', OnceInv, Syntactic PROVE OnceInv'
  OBVIOUS
<1>. DEFINE ds == From({"parse", "golar"})
<1>1. /\ step = "syntactic" /\ Wrap(ds) /\ out' = Kept(ds) /\ out = {} /\ step' \in {"semantic", "bind", "report"}
      /\ step' = "report" => mode # "lsp"
      /\ step' = "semantic" <=> mode = "lsp"
      /\ step' = "bind" => out' = {}
      /\ UNCHANGED <<mode, file, kind, unusedCollected, unused, pulls>>
  BY DEF Syntactic, OnceInv, PassOrder
<1>2. /\ ds \subseteq Diags /\ out' \subseteq ds
      /\ step' = "semantic" => out' \subseteq From(Past)'
  BY <1>1 DEF From, Kept, Past
<1>3. \A d \in Diags : kind[d].origin \notin {"parse", "golar"} => d \notin Kept(ds)
  BY DEF Kept, From
<1>4. (\A d \in Diags : WrappedOnce(d)' <=> WrappedOnce(d)) /\ (FirstPass' <=> FirstPass)
  BY <1>1 DEF WrappedOnce, FirstPass
<1>. HIDE DEF ds
<1>5. PassOrder'
  BY <1>1, <1>2 DEF OnceInv, PassOrder, FirstPass
<1>6. Untouched'
  BY <1>1, <1>3, <1>4, UnwrappedStays DEF OnceInv, Untouched, Past, Running
<1>7. Placed'
  BY <1>1, <1>2, <1>4, WrapPlaces DEF OnceInv, Untouched, Placed, Past, Running
<1>8. FirstPass' => ~unusedCollected'
  BY <1>1, <1>4 DEF OnceInv, PassOrder
<1>. QED
  BY <1>5, <1>6, <1>7, <1>8 DEF OnceInv, Collected, UnusedRight, FirstPass

(* The bind phase. *)
LEMMA BindOnce == SilenceInv /\ SilenceInv' /\ OnceInv /\ Bind => OnceInv'
<1>. SUFFICES ASSUME SilenceInv, SilenceInv', OnceInv, Bind PROVE OnceInv'
  OBVIOUS
<1>. DEFINE ds == From({"bind"})
<1>1. /\ step = "bind" /\ step' = "semantic" /\ mode # "lsp" /\ Wrap(ds) /\ out = {} /\ out' = {}
      /\ UNCHANGED <<mode, file, kind, unusedCollected, unused, pulls>>
  BY DEF Bind, OnceInv, PassOrder, SilenceInv, Shape
<1>2. \A d \in Diags : WrappedOnce(d) => d \notin Kept(ds)
  BY <1>1 DEF Kept, From, WrappedOnce, SilenceInv, Shape
<1>3. (\A d \in Diags : WrappedOnce(d)' <=> WrappedOnce(d)) /\ FirstPass' /\ FirstPass
  BY <1>1 DEF WrappedOnce, FirstPass
<1>. HIDE DEF ds
<1>4. PassOrder'
  BY <1>1, <1>3 DEF OnceInv, PassOrder
<1>5. Untouched'
  BY <1>1, <1>2, <1>3, UnwrappedStays DEF OnceInv, Untouched, Past, Running
<1>6. Placed'
  BY <1>1 DEF Placed
<1>7. ~unusedCollected'
  BY <1>1, <1>3 DEF OnceInv, PassOrder
<1>. QED
  BY <1>4, <1>5, <1>6, <1>7 DEF OnceInv, Collected, UnusedRight

(* The semantic phase, which collects the unused directives. *)
LEMMA SemanticOnce == SilenceInv /\ SilenceInv' /\ OnceInv /\ Semantic => OnceInv'
<1>. SUFFICES ASSUME SilenceInv, SilenceInv', OnceInv, Semantic PROVE OnceInv'
  OBVIOUS
<1>. DEFINE ds == From({"bind", "check"})
            all == IF mode = "incremental" THEN ds ELSE ds \cup From({"include"})
<1>1. /\ step = "semantic" /\ Wrap(all) /\ out' = out \cup Kept(all)
      /\ unused' = IF unusedCollected THEN {} ELSE CollectUnused(ds)
      /\ unusedCollected' /\ mode \in {"tsc", "incremental", "lsp"}
      /\ step' = CASE mode = "tsc" -> "report" [] mode = "incremental" -> "cached" [] mode = "lsp" -> "suggestion"
      /\ UNCHANGED <<mode, file, kind, pulls>>
  BY DEF Semantic, SilenceInv, Shape
<1>2. /\ ds \in SUBSET Diags /\ all \in SUBSET Diags
      /\ \A d \in Kept(all) : d \in Diags /\ kind[d].origin \in {"bind", "check", "include"} /\ d \in all
      /\ mode = "incremental" => \A d \in Kept(all) : kind[d].origin \in {"bind", "check"}
      /\ \A d \in Diags : kind[d].origin \in {"bind", "check"} => d \in ds /\ d \in all
      /\ \A d \in Diags : kind[d].origin = "include" /\ mode # "incremental" => d \in all
      /\ \A d \in ds : d \in Diags /\ kind[d].origin \in {"bind", "check"}
  BY DEF Kept, From
<1>3. out \subseteq Diags /\ (\A d \in out : kind[d].origin \in {"parse", "golar"}) /\ (mode # "lsp" => out = {})
  BY <1>1 DEF OnceInv, PassOrder, SilenceInv, Shape, From, Past
<1>4. (\A d \in Diags : WrappedOnce(d)' <=> WrappedOnce(d)) /\ (FirstPass' <=> FirstPass)
  BY <1>1 DEF WrappedOnce, FirstPass
<1>5. FirstPass => ~unusedCollected /\ \A d \in Diags : WrappedOnce(d) /\ kind[d].origin \notin {"parse", "golar"} =>
                                                           loc[d] = kind[d].range
  BY <1>1 DEF OnceInv, PassOrder, Untouched, Running, Past
<1>. HIDE DEF ds, all
<1>6. PassOrder'
  <2>1. \A os : From(os)' = {d \in Diags : kind[d].origin \in os}
    BY <1>1 DEF From
  <2>2. step' = "cached" => out' \subseteq From({"bind", "check"})'
    BY <1>1, <1>2, <1>3, <2>1
  <2>3. step' = "suggestion" => out' \subseteq From(Past)'
    BY <1>1, <1>2, <1>3 DEF From, Past
  <2>. QED
    BY <1>1, <2>2, <2>3 DEF OnceInv, PassOrder
<1>7. Untouched'
  BY <1>1, <1>2, <1>4, <1>5, UnwrappedStays DEF Untouched, Past, Running
<1>8. Placed'
  <2>. SUFFICES ASSUME FirstPass', NEW d \in out', WrappedOnce(d)'
                PROVE  InPlace([diag |-> d, range |-> loc[d]])'
    BY DEF Placed
  <2>1. CASE d \in Kept(all)
    BY <1>1, <1>2, <1>4, <1>5, <2>1, WrapPlaces
  <2>2. CASE d \notin Kept(all)
    BY <1>1, <1>3, <1>4, <2>2, UnwrappedStays DEF OnceInv, Placed
  <2>. QED
    BY <2>1, <2>2
<1>9. Collected'
  <2>. SUFFICES ASSUME FirstPass', NEW d \in Diags, WrappedOnce(d)', kind[d].origin \in {"bind", "check", "include"}
                PROVE  \/ Silenced(kind[d].range, kind[d].code)
                       \/ Ranges(file.mappings, "service", kind[d].range) = {}
                       \/ d \in out'
                       \/ step' = "cached" /\ kind[d].origin = "include"
    BY <1>1, SameFile DEF Collected, From
  <2>1. CASE d \in all
    BY <1>1, <1>4, <1>5, <2>1, KeptOrSilenced
  <2>2. CASE d \notin all
    BY <1>1, <1>2, <2>2
  <2>. QED
    BY <2>1, <2>2
<1>10. UnusedRight'
  <2>. SUFFICES ASSUME (mode = "tsc" /\ From({"bind"}) = {}) \/ (mode = "lsp" /\ FirstPass)
                PROVE  unused' = {e \in file.expected : \A d \in ds : ~ContainedBy(kind[d].range, e)}
    BY <1>1, <1>4 DEF UnusedRight, From, ds
  <2>1. FirstPass
    BY DEF FirstPass
  <2>2. \A d \in ds : WrappedOnce(d)
    BY <1>2 DEF FirstPass, WrappedOnce, From
  <2>3. \A d \in ds : loc[d] = kind[d].range
    BY <1>2, <1>5, <2>1, <2>2
  <2>. QED
    BY <1>1, <1>5, <2>1, <2>3 DEF CollectUnused
<1>. QED
  BY <1>6, <1>7, <1>8, <1>9, <1>10 DEF OnceInv

(* The phase that adds the diagnostics kept from an earlier build. *)
LEMMA CachedOnce == SilenceInv /\ SilenceInv' /\ OnceInv /\ Cached => OnceInv'
<1>. SUFFICES ASSUME SilenceInv, SilenceInv', OnceInv, Cached PROVE OnceInv'
  OBVIOUS
<1>. DEFINE ds == out \cup From({"include"})
<1>1. /\ step = "cached" /\ step' = "report" /\ mode = "incremental" /\ Wrap(ds) /\ out' = Kept(ds)
      /\ UNCHANGED <<mode, file, kind, unusedCollected, pulls>>
  BY DEF Cached, SilenceInv, Shape
<1>2. /\ ds \in SUBSET Diags
      /\ \A d \in out : kind[d].origin \in {"bind", "check"}
      /\ \A d \in Kept(ds) : d \in Diags /\ (d \in out \/ kind[d].origin = "include")
      /\ \A d \in Diags : kind[d].origin = "include" => d \in ds
  BY <1>1 DEF OnceInv, PassOrder, SilenceInv, Shape, From, Kept
<1>3. /\ \A d \in Diags : WrappedOnce(d)' <=> WrappedOnce(d)
      /\ \A d \in Diags : WrappedOnce(d) => kind[d].origin \notin {"bind", "check"}
      /\ FirstPass' /\ FirstPass
  BY <1>1 DEF WrappedOnce, FirstPass
<1>4. \A d \in Diags : kind[d].origin = "include" => loc[d] = kind[d].range
  BY <1>1, <1>3 DEF OnceInv, Untouched, Running, Past, WrappedOnce
<1>. HIDE DEF ds
<1>5. PassOrder' /\ Untouched' /\ UnusedRight'
  BY <1>1, <1>3 DEF OnceInv, PassOrder, Untouched, Running, UnusedRight
<1>6. Placed'
  BY <1>1, <1>2, <1>3, <1>4, WrapPlaces DEF Placed
<1>7. Collected'
  <2>. SUFFICES ASSUME NEW d \in Diags, WrappedOnce(d)', kind[d].origin \in {"bind", "check", "include"}
                PROVE  \/ Silenced(kind[d].range, kind[d].code)
                       \/ Ranges(file.mappings, "service", kind[d].range) = {}
                       \/ d \in out'
    BY <1>1, SameFile DEF Collected, From
  <2>. QED
    BY <1>1, <1>2, <1>3, <1>4, KeptOrSilenced
<1>. QED
  BY <1>5, <1>6, <1>7 DEF OnceInv

(* The suggestions. *)
LEMMA SuggestionOnce == SilenceInv /\ SilenceInv' /\ OnceInv /\ Suggestion => OnceInv'
<1>. SUFFICES ASSUME SilenceInv, SilenceInv', OnceInv, Suggestion PROVE OnceInv'
  OBVIOUS
<1>. DEFINE ds == From({"suggestion"})
<1>1. /\ step = "suggestion" /\ step' = "report" /\ mode = "lsp" /\ Wrap(ds) /\ out' = out \cup Kept(ds)
      /\ unusedCollected /\ unusedCollected' /\ unused' = unused
      /\ UNCHANGED <<mode, file, kind, pulls>>
  BY DEF Suggestion, SilenceInv, Shape, OnceInv, PassOrder
<1>2. /\ ds \in SUBSET Diags
      /\ \A d \in out : d \in Diags /\ kind[d].origin # "suggestion"
      /\ \A d \in Kept(ds) : d \in Diags /\ kind[d].origin = "suggestion"
  BY <1>1 DEF OnceInv, PassOrder, SilenceInv, Shape, From, Kept, Past
<1>3. (\A d \in Diags : WrappedOnce(d)' <=> WrappedOnce(d)) /\ (FirstPass' <=> FirstPass)
  BY <1>1 DEF WrappedOnce, FirstPass
<1>4. FirstPass => \A d \in Diags : WrappedOnce(d) /\ kind[d].origin = "suggestion" => loc[d] = kind[d].range
  BY <1>1 DEF OnceInv, Untouched, Running, Past
<1>. HIDE DEF ds
<1>5. PassOrder' /\ Untouched'
  BY <1>1, <1>3 DEF OnceInv, PassOrder, Untouched, Running, FirstPass
<1>6. UnusedRight'
  BY <1>1, <1>3, SameFile DEF OnceInv, UnusedRight
<1>7. Placed'
  <2>. SUFFICES ASSUME FirstPass', NEW d \in out', WrappedOnce(d)'
                PROVE  InPlace([diag |-> d, range |-> loc[d]])'
    BY DEF Placed
  <2>1. CASE d \in Kept(ds)
    BY <1>1, <1>2, <1>3, <1>4, <2>1, WrapPlaces
  <2>2. CASE d \notin Kept(ds)
    BY <1>1, <1>2, <1>3, <2>2, UnwrappedStays DEF OnceInv, Placed
  <2>. QED
    BY <2>1, <2>2
<1>8. Collected'
  <2>. SUFFICES ASSUME FirstPass', unusedCollected', NEW d \in Diags, ~Own(d), WrappedOnce(d)',
                       kind[d].origin \in {"bind", "check", "include"}
                PROVE  \/ Silenced(kind[d].range, kind[d].code)
                       \/ Ranges(file.mappings, "service", kind[d].range) = {}
                       \/ d \in out'
                       \/ step' = "cached" /\ kind[d].origin = "include"
    BY <1>1, SameFile DEF Collected, From, TypeScripts
  <2>1. d \in TypeScripts \cap From({"bind", "check", "include"}) /\ WrappedOnce(d)
    BY <1>1, <1>3 DEF TypeScripts, From
  <2>. QED
    BY <1>1, <1>3, <2>1 DEF OnceInv, Collected
<1>. QED
  BY <1>5, <1>6, <1>7, <1>8 DEF OnceInv

(* The report. *)
LEMMA ReportOnce == SilenceInv /\ SilenceInv' /\ OnceInv /\ (Report \/ UNCHANGED vars) => OnceInv'
<1>. SUFFICES ASSUME SilenceInv, SilenceInv', OnceInv, Report \/ UNCHANGED vars PROVE OnceInv'
  OBVIOUS
<1>1. /\ UNCHANGED <<mode, file, kind, loc, unusedCollected, out, unused, pulls>>
      /\ step' = step \/ (step = "report" /\ step' \in {"answered", "end"})
  BY DEF Report, vars
<1>2. (\A d \in Diags : WrappedOnce(d)' <=> WrappedOnce(d)) /\ (FirstPass' <=> FirstPass)
  BY <1>1 DEF WrappedOnce, FirstPass
<1>3. \A r : InPlace(r)' <=> InPlace(r)
  BY <1>1 DEF InPlace, Own
<1>4. Placed'
  BY <1>1, <1>2, <1>3 DEF OnceInv, Placed, SilenceInv, Shape
<1>5. PassOrder'
  <2>1. \A os : From(os)' = From(os)
    BY <1>1 DEF From
  <2>2. step \in {"semantic", "suggestion"} => Past' = Past
    BY <1>1 DEF Past
  <2>3. step' \in {"semantic", "suggestion"} => out \subseteq From(Past)'
    BY <1>1 DEF OnceInv, PassOrder, From, Past
  <2>. QED
    BY <1>1, <1>2, <2>1, <2>3 DEF OnceInv, PassOrder, FreshLocs
<1>6. Untouched'
  BY <1>1, <1>2 DEF OnceInv, Untouched, Running, Past
<1>7. Collected'
  <2>. SUFFICES ASSUME FirstPass', unusedCollected', NEW d \in Diags, ~Own(d), WrappedOnce(d)',
                       kind[d].origin \in {"bind", "check", "include"}
                PROVE  \/ Silenced(kind[d].range, kind[d].code)
                       \/ Ranges(file.mappings, "service", kind[d].range) = {}
                       \/ d \in out'
                       \/ step' = "cached" /\ kind[d].origin = "include"
    BY <1>1, SameFile DEF Collected, From, TypeScripts
  <2>1. d \in TypeScripts \cap From({"bind", "check", "include"}) /\ WrappedOnce(d)
    BY <1>1, <1>2 DEF TypeScripts, From
  <2>. QED
    BY <1>1, <1>2, <2>1 DEF OnceInv, Collected
<1>8. UnusedRight'
  BY <1>1, <1>2, SameFile DEF OnceInv, UnusedRight
<1>. QED
  BY <1>4, <1>5, <1>6, <1>7, <1>8 DEF OnceInv

(* What an editor does between reports. *)
LEMMA EditorOnce ==
    SilenceInv /\ SilenceInv' /\ OnceInv /\ (Pull \/ EditOtherFile \/ EditThisFile) => OnceInv'
<1>. SUFFICES ASSUME SilenceInv, SilenceInv', OnceInv, Pull \/ EditOtherFile \/ EditThisFile PROVE OnceInv'
  OBVIOUS
<1>. USE DEF OnceInv
<1>1. CASE Pull
  <2>1. /\ mode = "lsp" /\ step' = "syntactic" /\ pulls' = pulls + 1 /\ pulls \in Nat /\ out' = {}
        /\ UNCHANGED <<mode, file, kind, loc, unusedCollected>>
    BY <1>1 DEF Pull, SilenceInv, Shape
  <2>2. FirstPass' => pulls = 0 /\ ~unusedCollected /\ loc = FreshLocs(kind)
    BY <2>1 DEF FirstPass, PassOrder
  <2>3. PassOrder' /\ Placed' /\ Collected'
    BY <2>1, <2>2 DEF PassOrder, Placed, Collected
  <2>4. Untouched' /\ UnusedRight'
    BY <2>1, <2>2 DEF Untouched, UnusedRight, FreshLocs
  <2>. QED
    BY <2>3, <2>4
<1>2. CASE EditOtherFile
  <2>1. /\ mode' = "lsp" /\ step' = "idle" /\ pulls' = pulls /\ out' = {} /\ pulls >= 1 /\ pulls \in Nat
    BY <1>2 DEF EditOtherFile, PassOrder, SilenceInv, Shape
  <2>. QED
    BY <2>1 DEF PassOrder, Untouched, Placed, Collected, UnusedRight, FirstPass
<1>3. CASE EditThisFile
  BY <1>3 DEF EditThisFile, PassOrder, Untouched, Placed, Collected, UnusedRight, FirstPass
<1>. QED
  BY <1>1, <1>2, <1>3

(* Nothing is wrapped twice in the first pass, so all is in its place.     *)
THEOREM FirstPassInvariance == Spec => [](SilenceInv /\ OnceInv)
<1>1. Init => OnceInv
  <2>. SUFFICES ASSUME Init PROVE OnceInv
    OBVIOUS
  <2>1. mode \in {"tsc", "incremental", "lsp"}
    BY DiagnosticsAssumption DEF Init
  <2>. QED
    BY <2>1 DEF Init, OnceInv, PassOrder, Untouched, Placed, Collected, UnusedRight, FirstPass, FreshLocs
<1>2. SilenceInv /\ SilenceInv' /\ OnceInv /\ [Next]_vars => OnceInv'
  BY SyntacticOnce, BindOnce, SemanticOnce, CachedOnce, SuggestionOnce, ReportOnce, EditorOnce DEF Next
<1>. QED
  BY <1>1, <1>2, InitSilence, SilenceStep, PTL DEF Spec

(* A report of the first pull is one of the first pass. *)
LEMMA AnsweredFirstPass ==
    ASSUME SilenceInv, Answered
    PROVE  (mode = "lsp" => pulls = 1) => FirstPass
BY DEF SilenceInv, Shape, Answered, FirstPass

(* A diagnostic that one phase wrapped is shown where the source map puts it. *)
THEOREM WrappedOnceInPlace == Spec => []RightPlaceWrappedOnce
<1>1. SilenceInv /\ OnceInv => RightPlaceWrappedOnce
  <2>. SUFFICES ASSUME SilenceInv, OnceInv, Answered, NEW r \in reported, WrappedOnce(r.diag) PROVE InPlace(r)
    BY DEF RightPlaceWrappedOnce
  <2>1. FirstPass
    BY AnsweredFirstPass DEF WrappedOnce
  <2>2. PICK d \in out : r = [diag |-> d, range |-> loc[d]]
    BY DEF SilenceInv, ReportShowsOut
  <2>. QED
    BY <2>1, <2>2 DEF OnceInv, Placed
<1>. QED
  BY <1>1, FirstPassInvariance, PTL

(* What nothing silences and the source map knows is reported.             *)
THEOREM NothingIsLost == Spec => []NothingLost
<1>1. SilenceInv /\ OnceInv => NothingLost
  <2>. SUFFICES ASSUME SilenceInv, OnceInv, Answered, unusedCollected,
                       NEW d \in TypeScripts \cap From({"bind", "check", "include"}), WrappedOnce(d)
                PROVE  \/ Silenced(kind[d].range, kind[d].code)
                       \/ Ranges(file.mappings, "service", kind[d].range) = {}
                       \/ \E r \in reported : r.diag = d
    BY DEF NothingLost
  <2>1. FirstPass /\ step # "cached"
    BY AnsweredFirstPass DEF WrappedOnce, Answered
  <2>2. d \in out => \E r \in reported : r.diag = d
    <3>1. d \in out => [diag |-> d, range |-> loc[d]] \in reported
      BY DEF SilenceInv, ReportShowsOut
    <3>. QED
      BY <3>1
  <2>. QED
    BY <2>1, <2>2 DEF OnceInv, Collected
<1>. QED
  BY <1>1, FirstPassInvariance, PTL

(* A directive is reported as unused exactly when it covers no error.      *)
THEOREM UnusedIsExact == Spec => []UnusedExactWrappedOnce
<1>1. SilenceInv /\ OnceInv => UnusedExactWrappedOnce
  <2>. SUFFICES ASSUME SilenceInv, OnceInv, Answered, unusedCollected,
                       (mode = "tsc" /\ From({"bind"}) = {}) \/ (mode = "lsp" /\ pulls = 1)
                PROVE  unused = {e \in file.expected :
                                    \A d \in From({"bind", "check"}) : ~ContainedBy(kind[d].range, e)}
    BY DEF UnusedExactWrappedOnce, UnusedExact
  <2>1. FirstPass
    BY AnsweredFirstPass DEF FirstPass
  <2>. QED
    BY <2>1 DEF OnceInv, UnusedRight
<1>. QED
  BY <1>1, FirstPassInvariance, PTL
=============================================================================
