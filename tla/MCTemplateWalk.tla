--------------------------- MODULE MCTemplateWalk ---------------------------
(* Small templates for TemplateWalk.                                       *)
EXTENDS TemplateWalk

(* What an expression reads, declares in a function, and reads behind it. *)
Code(uses, declares, then) == [uses |-> uses, declares |-> declares, then |-> then]
Name(x) == Code(x, None, None)

Element(tag, dirs, for, slot, on, prop) ==
    [kind |-> "element", tag |-> tag, conds |-> dirs, for |-> for, slot |-> slot, on |-> on, prop |-> prop]

Dir(d, code) == <<[dir |-> d, code |-> code]>>
Loop(binds, source) == [binds |-> binds, source |-> source]
Slot(binds) == [binds |-> binds]
Compound(code) == [compound |-> TRUE, code |-> code]
Simple(code) == [compound |-> FALSE, code |-> code]

Comment(d) == [kind |-> "comment", directive |-> d]
Text == [kind |-> "text"]
Interpolation(code) == [kind |-> "interpolation", code |-> code]

(* v-if chains and the guards of handlers. *)
Conditions ==
    {Element("native", Dir("if", None), None, None, Compound(None), None),
     Element("native", Dir("else-if", None), None, None, Compound(None), None),
     Element("native", Dir("else", None), None, None, Compound(None), None),
     Element("native", Dir("else", None) \o Dir("if", None), None, None, None, None),
     Element("component", <<>>, None, None, Compound(None), None)}

(* Text between the branches, and braces of several kinds. *)
Braces ==
    {Element("template", Dir("if", Name("x")), Loop("x", Name("y")), None, None, None),
     Element("native", Dir("else", None), None, None, None, None),
     Element("component", Dir("else-if", Name("x")), None, Slot("x"), None, None),
     Element("template", <<>>, None, Slot("y"), None, None),
     Interpolation(Name("x")), Comment("none")}

(* Loops, slots and handlers with names. *)
Scoping ==
    {Element("native", <<>>, Loop("x", Name("y")), None, Simple(Name("x")), Name("y")),
     Element("template", Dir("if", Name("x")), Loop("y", Name("y")), Slot("x"), None, None),
     Element("component", <<>>, None, Slot("y"), Simple(Name("y")), Name("x")),
     Element("native", <<>>, None, None, Compound(Name("$event")), Name("$event")),
     Interpolation(Name("x")), Interpolation(Name("y"))}

(* Functions in expressions, that declare variables. *)
Functions ==
    {Element("native", Dir("if", Code("y", "x", "x")), Loop("y", Code("x", "y", "y")), None,
             Compound(Code("y", "z", "z")), Code("z", "z", "x")),
     Element("component", <<>>, Loop("z", Code(None, "x", None)), Slot("y"),
             Simple(Code("z", "y", "x")), Code("x", "x", "y")),
     Element("native", <<>>, None, None, Simple(Code("x", "y", "z")), Name("y")),
     Interpolation(Code("x", "z", "z")), Interpolation(Code("y", None, None))}

(* Comments that mark what follows. *)
Directives ==
    {Comment("ignore"), Comment("expect"), Comment("none"), Text, Interpolation(Name("x")),
     Element("native", <<>>, None, None, Simple(Name("x")), None),
     Element("template", Dir("if", None), None, None, None, None)}

AllCatalogues == {Conditions, Braces, Scoping, Functions, Directives}
=============================================================================
