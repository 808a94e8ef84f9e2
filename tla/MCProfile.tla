----------------------------- MODULE MCProfile -----------------------------
(* Instances of Profile: texts of up to four tokens, a schema library with *)
(* external definitions, and profiles that differ from a small complete    *)
(* one in one or two places, linted on three trees.                        *)
EXTENDS Profile

-----------------------------------------------------------------------------
(* Texts                                                                   *)
MCDecoded == [sa |-> "a", sA |-> "a", sb |-> "b"]
MCTokens == {"{", "}", "[", "]", ",", ":", "sa", "sA", "lone", "broken", "n1", "big", "true", "junk"}
Txt(tokens) == [tokens |-> tokens, utf8 |-> TRUE, json |-> TRUE]
Empty == Txt(<<"{", "}">>)
Long == {<<"{", "sa", ":", "[", "n1", ",", "{", "}", "]", ",", "sb", ":", "true", "}">>,
         <<"[", "{", "sa", ":", "n1", ",", "sA", ":", "big", "}", "]">>, <<"[", "[", "[", "n1", "]", "]", "]">>}
Replaced == UNION {{[w EXCEPT ![i] = t] : i \in DOMAIN w, t \in MCTokens} : w \in Long}
Cut == UNION {{RemoveAt(w, i) : i \in DOMAIN w} \cup {SubSeq(w, 1, i) : i \in DOMAIN w} : w \in Long}
MCTexts ==
    {Txt(w) : w \in UNION {[1..n -> MCTokens] : n \in 0..2} \cup {<<o>> \o w : o \in {"{", "["}, w \in [1..3 -> MCTokens]}
                    \cup Replaced \cup Cut \cup Long}
    \cup {[tokens |-> <<"n1">>, utf8 |-> FALSE, json |-> FALSE], [tokens |-> <<"n1">>, utf8 |-> TRUE, json |-> FALSE]}

-----------------------------------------------------------------------------
(* Schemas                                                                 *)
MCMatches == [hex |-> {<<"a">>, <<"a", "b">>}, name |-> {<<"z">>}]
Yes == [holds |-> TRUE]
Str(w) == [text |-> w]
Num(n) == [halves |-> n]
Arr(items) == [items |-> items]
Obj(fields) == [fields |-> fields]
Local(name) == [uri |-> "#", name |-> name]
Ext(name) == [uri |-> "ext", name |-> name]
Def(name, schema) == [name |-> name, schema |-> schema]
Prop(schema) == [properties |-> <<Def("p", schema)>>]
ExtDoc == [defs |-> <<Def("outer", [ref |-> Local("inner")]), Def("inner", [type |-> <<"string">>]),
                      Def("open", [ref |-> Local("loose")]), Def("loose", [format |-> "email"])>>]
SchemaParts ==
    {Yes, [holds |-> FALSE], [type |-> <<"string">>], [type |-> <<"integer", "null">>], [type |-> <<"array">>, minItems |-> 1],
     [items |-> [type |-> <<"number">>, minimum |-> 2], uniqueItems |-> TRUE, maxItems |-> 2], [pattern |-> "hex"],
     [minLength |-> 2, pattern |-> "name"], [pattern |-> "other"], [format |-> "date"],
     [additionalProperties |-> [type |-> <<"string">>]],
     [properties |-> <<Def("q", [const |-> Num(2)])>>, additionalProperties |-> [holds |-> FALSE], required |-> <<"q">>],
     [enum |-> <<Num(2), Str(<<"a">>)>>], [exclusiveMinimum |-> 1, exclusiveMaximum |-> 4], [maximum |-> 3],
     [anyOf |-> <<[type |-> <<"string">>], [const |-> Num(2)]>>], [oneOf |-> <<[minimum |-> 1], [maximum |-> 3]>>],
     [not |-> [type |-> <<"string">>]], [if |-> [type |-> <<"string">>], then |-> [minLength |-> 2], else |-> [maximum |-> 1]],
     [allOf |-> <<[ref |-> Ext("outer")], [ref |-> Ext("inner")]>>], [ref |-> Ext("outer"), minLength |-> 1],
     [ref |-> Local("inner")], [ref |-> Local("absent")], [ref |-> [uri |-> "gone", name |-> ""]], [ref |-> Ext("loose")]}
Documents ==
    {Obj([p |-> v]) : v \in {Str(<<"a">>), Str(<<"a", "b">>), Num(1), Num(2), Num(4), [null |-> 0], [boolean |-> TRUE],
                             Arr(<<>>), Arr(<<Num(2), Num(2)>>), Arr(<<Num(2), Num(3)>>), Arr(<<Str(<<"a">>)>>),
                             Obj([q |-> Num(2)]), Obj([q |-> Num(2), r |-> Num(1)])}} \cup {Arr(<<>>)}
Lib(schema, doc) == [documents |-> [schema |-> schema, ext |-> ExtDoc], document |-> doc]
Rooted(part) == [properties |-> <<Def("p", part)>>, defs |-> <<Def("inner", [type |-> <<"integer">>])>>]
MCLibraries ==
    {Lib(Rooted(s), d) : s \in SchemaParts, d \in Documents}
    \cup {Lib([ref |-> Local("loop"), defs |-> <<Def("loop", [not |-> [ref |-> Ext("inner")]])>>], d) : d \in Documents}
OpenLibraries == {Lib(Rooted([ref |-> Ext("open")]), Obj([p |-> Num(2)]))}
AnyLib == Lib(Yes, Obj([p |-> Num(2)]))

-----------------------------------------------------------------------------
(* Descriptors and trees                                                   *)
None0 == [f \in {} |-> {}]
MCDescriptors ==
    [Task |-> [scalars |-> {"name", "kind", "id"}, containment |-> [documentation |-> {"Doc"}], references |-> [next |-> {"Task"}],
               id |-> TRUE, producers |-> [name |-> {"editor"}, kind |-> {"code"}, next |-> {"editor"}, id |-> {"editor"},
                                           documentation |-> {"editor"}]],
     Flow |-> [scalars |-> {"name", "sourceRef", "targetRef", "id"}, containment |-> None0, references |-> None0, id |-> TRUE,
               producers |-> [name |-> {"editor", "code"}, id |-> {"editor"}]],
     Process |-> [scalars |-> {"name", "id"}, containment |-> [flowElements |-> {"Task", "Flow"}], references |-> None0,
                  id |-> TRUE, producers |-> [name |-> {"code"}, flowElements |-> {"editor"}, id |-> {"editor"}]],
     Doc |-> [scalars |-> {"text"}, containment |-> None0, references |-> None0, id |-> FALSE,
              producers |-> [text |-> {"editor"}]]]
MCBaseRights == <<[type |-> "Flow", field |-> "sourceRef", producers |-> {"editor"}, reference |-> TRUE],
                  [type |-> "Flow", field |-> "targetRef", producers |-> {"editor"}, reference |-> TRUE]>>
Word(w) == [kind |-> "string", words |-> <<w>>]
Part(attr, element, index) == [attr |-> attr, element |-> element, index |-> index]
Elem(type, id, props, parent, parts) ==
    [type |-> type, supers |-> {"Base"}, id |-> id, props |-> props, parent |-> parent, parts |-> parts]
Ref(a) == [kind |-> "list", items |-> <<[kind |-> "element", element |-> a]>>]
TreeOf(idB, link) ==
    [root |-> Elem("Definitions", "none", [x \in {} |-> Missing], "none", <<Part("rootElements", "p", "0")>>),
     p |-> Elem("Process", "P", [id |-> Word("P"), name |-> Word("big")], "root",
                <<Part("flowElements", "t1", "0"), Part("flowElements", "t2", "1"), Part("flowElements", "f", "2")>>),
     t1 |-> Elem("Task", "A", [id |-> Word("A"), name |-> Word("big"), next |-> Ref("t2")], "p",
                 <<Part("documentation", "d", "0"), Part("documentation", "e", "1")>>),
     t2 |-> Elem("Task", idB, [id |-> Word(idB), kind |-> [kind |-> "number", n |-> 1]], "p", <<>>),
     f |-> Elem("Flow", "F", [id |-> Word("F"), sourceRef |-> Word("A"), targetRef |-> Word(link)], "p", <<>>),
     d |-> Elem("Doc", "none", [text |-> Word("Big")], "t1", <<>>),
     e |-> Elem("Doc", "none", [text |-> Word("big")], "t1", <<>>)]
Plain == TreeOf("B", "B")
Double == TreeOf("A", "B")
Loop == TreeOf("B", "A")

-----------------------------------------------------------------------------
(* Abstract syntax                                                         *)
Sel(from, via) == [op |-> "selector", from |-> from, via |-> via, order |-> "id", property |-> "none", where |-> None]
Where(sel, p) == [sel EXCEPT !.where = p]
Along(from, via, property) == [Sel(from, via) EXCEPT !.property = property]
True == [op |-> "true"]
False == [op |-> "false"]
Conj(args) == [op |-> "all", args |-> args]
Disj(args) == [op |-> "any", args |-> args]
Neg(p) == [op |-> "not", arg |-> p]
Is(binding, type) == [op |-> "typeIs", binding |-> binding, type |-> type, mode |-> "exact"]
Kind(binding, type) == [Is(binding, type) EXCEPT !.mode = "assignable"]
Read(binding, path) == [op |-> "read", binding |-> binding, path |-> path]
Lit(v) == [op |-> "literal", value |-> v]
TextLit(w) == Lit(Word(w))
NumLit == Lit([kind |-> "number", n |-> 1])
Has1(v) == [op |-> "present", value |-> v]
Eq(l, r) == [op |-> "equal", left |-> l, right |-> r]
Prefix(v, w) == [op |-> "textPrefix", value |-> v, prefix |-> <<w>>, trim |-> "none"]
Count1(sel, min, max) == [op |-> "count", selector |-> sel, min |-> min, max |-> max]
Most(n) == [op |-> "bound", n |-> n]
Recognizes(binding, notion) == [op |-> "recognizes", binding |-> binding, notion |-> notion]
Reach(from, to, min, max) ==
    [op |-> "reachable", source |-> from, target |-> to, edgeTypes |-> {"Flow"}, minHops |-> min, maxHops |-> max]
Upper(v) == [op |-> "case", value |-> v, mode |-> "upper", unicode |-> "15.0.0"]
Concat(vs) == [op |-> "concat", values |-> vs]
Stripped(v, w) == [op |-> "stripPrefix", value |-> v, prefix |-> <<w>>, trim |-> "none"]
IdOf(b) == [op |-> "id", binding |-> b]
Param(n) == [op |-> "param", name |-> n]
Tasks == Where(Sel("root", "all"), Is("self", "Task"))
Docs == Where(Sel("root", "all"), Is("self", "Doc"))

BindTo(name, sel) == [op |-> "bind", as |-> name, select |-> sel, cardinality |-> "one", fallbacks |-> <<>>]
Optionally(b) == [b EXCEPT !.cardinality = "zeroOrOne"]
FirstOrElse(b, sels) == [b EXCEPT !.cardinality = "first", !.fallbacks = sels]
SetTo(target, field, v) == [op |-> "set", target |-> target, path |-> <<field>>, value |-> v]
Unset(target, field) == [op |-> "unset", target |-> target, path |-> <<field>>]
Assign(target, field, vs) == [op |-> "assignRef", target |-> target, path |-> <<field>>, values |-> vs, mode |-> "replace"]
Make(type, name) ==
    [op |-> "create", as |-> name, type |-> type, identity |-> "allocated", key |-> TextLit("k"), fields |-> <<>>,
     parent |-> "none", property |-> "none"]
Into(a, parent, property) == [a EXCEPT !.parent = parent, !.property = property]
WithField(a, name, v) == [a EXCEPT !.fields = <<[name |-> name, value |-> v]>>]
Move(target, parent, property) == [op |-> "reparent", target |-> target, parent |-> parent, property |-> property]
Delete(target) == [op |-> "remove", target |-> target]
Emit1(b) == [op |-> "emit", fields |-> <<[name |-> "id", value |-> [op |-> "outputId", binding |-> b]]>>, parentValue |-> None]
RefuseStep == [op |-> "refuse", target |-> "none"]
PlaceAt(target, related) == [op |-> "place", target |-> target, owner |-> "none", related |-> related]
Writes(target, field, mode) == Demand(target, <<field>>, mode)

-----------------------------------------------------------------------------
(* Profiles                                                                *)
Families == <<"predicates/1", "selectors/1", "recipes/1", "profile-lint/1">>
Notion(id, ast) == [id |-> id, facet |-> TRUE, group |-> FALSE, nativeTypes |-> <<"Task">>, recognition |-> ast, fields |-> <<>>,
                    renderBindings |-> <<>>, createRecipe |-> "none", referenceRecipes |-> {}]
Rule1(id, select, bindings, assert) ==
    [id |-> id, phase |-> "import", code |-> id, message |-> "m", repairRecipe |-> "none", select |-> select,
     bindings |-> bindings, assert |-> assert]
Recipe1(id, phase, select, steps, writes) ==
    [id |-> id, phase |-> phase, parameters |-> <<>>, select |-> select, when |-> None, steps |-> steps, writes |-> writes]
Bare == [capabilities |-> Families, notions |-> <<>>, rules |-> <<>>, recipes |-> <<>>, ui |-> <<>>, exports |-> <<>>,
         themes |-> <<>>, messages |-> {"m"}, resources |-> {"r"}, producerDelta |-> <<>>, migrations |-> <<>>,
         digest |-> "D", records |-> <<>>]
WithRules(rules) == [Bare EXCEPT !.rules = rules]
WithRecipes(recipes) == [Bare EXCEPT !.recipes = recipes]
Edit(steps, writes) == WithRecipes(<<Recipe1("r1", "edit", Tasks, steps, writes)>>)

Selectors ==
    {Sel("root", "root"), Sel("self", "owner"), Sel("self", "children"), Sel("self", "descendants"), Tasks, Docs,
     Along("self", "reference", "next"), Along("self", "inverseReference", "next"), Along("self", "children", "documentation"),
     Along("self", "children", "flowElements"), Along("self", "reference", "none"), Sel("gone", "self"), Sel("a", "self"),
     Sel("self", "pages"), Sel("self", "nowhere"), [Sel("self", "self") EXCEPT !.order = "page-occurrence"],
     [Tasks EXCEPT !.order = "page-occurrence"], Where(Sel("root", "all"), Kind("self", "Base")),
     Where(Sel("root", "all"), Is("a", "Task")), Where(Sel("self", "descendants"), Recognizes("self", "n1"))}
Values ==
    {TextLit("big"), NumLit, Read("self", <<"name">>), Read("self", <<"kind">>), Read("self", <<"owner">>), Read("a", <<"name">>),
     Read("gone", <<"name">>), Read("self", <<>>), IdOf("self"), IdOf("a"), Param("x"), Concat(<<>>),
     Concat(<<Read("self", <<"name">>), TextLit("big")>>), Concat(<<NumLit>>), Upper(Read("self", <<"name">>)),
     Stripped(Read("self", <<"name">>), "big"), Stripped(NumLit, "big"), [op |-> "ids", select |-> None],
     [op |-> "outputId", binding |-> "self"], [op |-> "ensure"], Malformed, [Upper(TextLit("big")) EXCEPT !.unicode = "16.0.0"],
     Lit([kind |-> "array", n |-> 0]), [Upper(TextLit("big")) EXCEPT !.mode = "title"]}
Predicates ==
    {True, False, Conj(<<>>), Conj(<<True, Has1(Read("self", <<"name">>))>>), Disj(<<False, Is("self", "Doc")>>),
     Neg(Is("self", "Task")), Is("gone", "Task"), Is("self", "Unknown"), Is("self", "plain"), [Is("self", "Task") EXCEPT !.mode = "x"],
     Eq(Read("self", <<"name">>), TextLit("big")), Eq(Read("self", <<"kind">>), NumLit), Prefix(Read("self", <<"kind">>), "big"),
     Prefix(Read("self", <<"name">>), "big"), [Prefix(NumLit, "big") EXCEPT !.prefix = <<>>],
     [Prefix(Read("self", <<"name">>), "big") EXCEPT !.trim = "ecma262-2024-start"],
     [Prefix(Read("self", <<"name">>), "big") EXCEPT !.trim = "both"],
     Count1(Docs, 1, None), Count1(Sel("self", "children"), 0, Most(1)), Count1(Sel("a", "children"), 2, Most(1)),
     [op |-> "boundRole", binding |-> "self", owner |-> "a"], [op |-> "boundRole", binding |-> "self", owner |-> "self"],
     Recognizes("self", "n1"), Recognizes("self", "n2"), Reach(Sel("self", "self"), Tasks, 1, None),
     Reach(Sel("self", "self"), Tasks, 0, Most(2)), [Reach(Tasks, Tasks, 1, None) EXCEPT !.edgeTypes = {}],
     Reach(Tasks, Tasks, 2, Most(1)), TextLit("big"), [op |-> "never"], Malformed}
    \cup {Has1(v) : v \in Values} \cup {Count1(s, 1, None) : s \in Selectors}
N1 == Notion("n1", Has1(Read("self", <<"name">>)))

RuleProfiles ==
    {[WithRules(<<Rule1("a", Tasks, bs, p)>>) EXCEPT !.notions = <<N1>>] :
        p \in Predicates, bs \in {<<>>, <<BindTo("a", Sel("self", "owner"))>>}}
    \cup {[WithRules(<<Rule1("a", s, <<b>>, Has1(Read("a", <<"name">>)))>>) EXCEPT !.notions = <<N1>>] :
        s \in {Tasks, Docs, Sel("self", "owner")},
        b \in {BindTo("a", x) : x \in Selectors} \cup {Optionally(BindTo("a", x)) : x \in Selectors}
              \cup {FirstOrElse(BindTo("a", x), <<Sel("a", "owner")>>) : x \in {Tasks, Sel("self", "children")}}
              \cup {[BindTo("a", Tasks) EXCEPT !.fallbacks = <<Tasks>>], [BindTo("a", Tasks) EXCEPT !.cardinality = "many"]}}

OneStep ==
    {SetTo("self", f, v) : f \in {"name", "kind", "id", "owner"}, v \in {TextLit("big"), Read("self", <<"name">>)}}
    \cup {Unset("self", f) : f \in {"name", "kind"}} \cup {SetTo("gone", "name", NumLit), SetTo("root", "name", NumLit)}
    \cup {SetTo("self", "name", v) : v \in Values}
    \cup {Assign("self", f, <<v>>) : f \in {"next", "name"}, v \in {IdOf("self"), [op |-> "ids", select |-> None]}}
    \cup {Make("Task", "n"), Make("Doc", "n"), [Make("Doc", "n") EXCEPT !.identity = "containment", !.key = None],
          [Make("Task", "n") EXCEPT !.key = None], Make("Unknown", "n"), WithField(Make("Task", "n"), "name", TextLit("big")),
          WithField(Make("Task", "n"), "kind", TextLit("big")), WithField(Make("Task", "n"), "id", TextLit("big")),
          Into(Make("Task", "n"), "n", "documentation"), Into(Make("Task", "n"), "self", "flowElements"),
          Move("self", "root", "none"), Move("self", "self", "documentation"), Delete("self"), Delete("gone"), Emit1("self"),
          RefuseStep, PlaceAt("self", None), PlaceAt("self", Tasks), Malformed, [op |-> "literal"], [op |-> "loss", target |-> "self"]}
WritesOf(a) ==
    CASE a.op \in {"set", "unset"} -> <<Demand(a.target, a.path, a.op)>>
      [] a.op = "assignRef" -> <<Demand(a.target, a.path, "reference")>>
      [] a.op = "create" -> IF a.parent = "none" THEN <<>> ELSE <<Writes(a.parent, a.property, "create")>>
      [] a.op = "reparent" -> (IF a.property = "none" THEN <<>> ELSE <<Writes(a.parent, a.property, "reparent")>>)
                              \o <<Demand(a.target, <<>>, "reparent")>>
      [] a.op = "remove" -> <<Demand(a.target, <<>>, "remove")>>
      [] a.op = "emit" -> <<Demand("self", <<>>, "artifact")>>
      [] a.op = "place" -> <<Demand(a.target, <<>>, "placement")>>
      [] a.op = "loss" -> <<Demand(a.target, <<>>, "report")>>
      [] OTHER -> <<>>
Exporting == [Bare EXCEPT !.capabilities = Families \o <<"render-data/1", "export-ir/1">>]
RecipeProfiles ==
    {Edit(<<a>>, WritesOf(a)) : a \in OneStep}
    \cup {WithRecipes(<<Recipe1("r1", phase, Tasks, <<a>>, WritesOf(a))>>) :
             a \in OneStep, phase \in {"create", "normalize", "complete", "migrate", "later"}}
    \cup {[Exporting EXCEPT !.recipes = <<Recipe1("r1", "export", Tasks, <<a>>, WritesOf(a))>>] : a \in OneStep}
    \cup {WithRecipes(<<Recipe1("r1", phase, Tasks, <<b, SetTo("a", f, TextLit("big"))>>, <<Writes("a", f, "set")>>)>>) :
             phase \in {"edit", "complete"}, f \in {"name", "kind", "text"},
             b \in {BindTo("a", x) : x \in Selectors} \cup {FirstOrElse(BindTo("a", x), <<Docs>>) : x \in Selectors}
                   \cup {Optionally(BindTo("self", x)) : x \in {Docs, Sel("self", "owner")}}}
    \cup {WithRecipes(<<Recipe1("r1", phase, Tasks, <<BindTo("b", x), BindTo("a", y), SetTo("a", "name", TextLit("big"))>>,
                                <<Writes("a", "name", "set")>>)>>) :
             phase \in {"edit", "complete"}, x \in {Sel("self", "self"), Sel("self", "owner"), Tasks, Docs},
             y \in {Sel("b", "self"), Sel("b", "owner"), Where(Sel("b", "self"), Is("self", "Task")),
                    Where(Sel("root", "all"), Is("self", "Process")), Where(Sel("root", "all"), Is("b", "Task"))}}
    \cup {Edit(<<SetTo("self", "name", NumLit), Unset("self", "name")>>, w) :
             w \in {<<>>, <<Writes("self", "name", "set")>>, <<Writes("self", "name", "unset"), Writes("self", "name", "set")>>,
                    <<Writes("self", "name", "set"), Writes("self", "name", "set"), Writes("self", "name", "unset")>>}}
    \cup {[Edit(<<SetTo("self", "name", Param("x"))>>, <<Writes("self", "name", "set")>>)
             EXCEPT !.recipes[1].parameters = ps, !.recipes[1].select = s] :
             ps \in {<<[name |-> "x", type |-> "string"]>>, <<[name |-> "x", type |-> "element"]>>,
                     <<[name |-> "x", type |-> "string"], [name |-> "x", type |-> "number"]>>},
             s \in {Tasks, Sel("x", "self"), Sel("render", "pages")}}
    \cup {[Edit(<<RefuseStep>>, <<>>) EXCEPT !.recipes[1].when = w] : w \in {True, Recognizes("self", "n1"), Has1(Read("gone", <<"x">>))}}
    \cup {Edit(<<>>, <<>>)}

RefRecipe == Recipe1("r1", "export", Tasks, <<RefuseStep>>, <<>>)
Glyphs == [id |-> "th", fallback |-> "none", metrics |-> "none", glyphs |-> {"g1"}, select |-> None, label |-> None]
Complete ==
    [Bare EXCEPT !.recipes = <<RefRecipe, Recipe1("r2", "migrate", Tasks, <<RefuseStep>>, <<>>)>>,
        !.notions = <<[N1 EXCEPT !.createRecipe = "r1", !.referenceRecipes = {"r2"},
                                 !.fields = <<[visible |-> True, mutable |-> None, command |-> "r1", label |-> "m"]>>,
                                 !.renderBindings = <<[theme |-> "th", glyph |-> "g1", label |-> Read("self", <<"name">>)]>>],
                      Notion("n2", Recognizes("self", "n1"))>>,
        !.themes = <<Glyphs, [Glyphs EXCEPT !.id = "th2", !.fallback = "th", !.metrics = "r"]>>,
        !.ui = <<[recipe |-> "r1", when |-> True]>>,
        !.exports = <<[recipes |-> <<"r1">>, whens |-> <<True>>]>>,
        !.migrations = <<[to |-> "self", from |-> "D0", recipes |-> <<"r2">>]>>,
        !.producerDelta = <<[type |-> "Task", path |-> <<"name">>, from |-> "editor", to |-> "code"]>>]
SectionProfiles ==
    {Bare, Complete,
     [Complete EXCEPT !.capabilities = Families \o Families], [Complete EXCEPT !.capabilities = <<"predicates/2">>],
     [Complete EXCEPT !.capabilities = SubSeq(Families, 1, 2)], [Complete EXCEPT !.recipes[2].id = "r1"],
     [Complete EXCEPT !.notions[1].group = TRUE], [Complete EXCEPT !.notions[1].createRecipe = "r3"],
     [Complete EXCEPT !.notions[1].referenceRecipes = {"r3"}], [Complete EXCEPT !.notions[1].fields[1].label = "q"],
     [Complete EXCEPT !.notions[1].fields[1].visible = Is("gone", "Task")],
     [Complete EXCEPT !.notions[1].renderBindings[1].glyph = "g2"], [Complete EXCEPT !.notions[1].renderBindings[1].label = NumLit],
     [Complete EXCEPT !.notions[1].renderBindings[1].theme = "th3"],
     [Complete EXCEPT !.notions[1].recognition = Recognizes("self", "n1")],
     [Complete EXCEPT !.notions[1].recognition = Recognizes("self", "n2")],
     [Complete EXCEPT !.notions[1].recognition = Neg(Recognizes("self", "n2"))],
     [Complete EXCEPT !.notions[1].recognition = Count1(Where(Sel("self", "children"), Recognizes("self", "n2")), 0, None)],
     [Complete EXCEPT !.notions[1].recognition = Recognizes("self", "n3")],
     [Complete EXCEPT !.themes[1].fallback = "th2"], [Complete EXCEPT !.themes[1].fallback = "th9"],
     [Complete EXCEPT !.themes[2].metrics = "q"], [Complete EXCEPT !.themes[1].select = Sel("gone", "self")],
     [Complete EXCEPT !.themes[1].label = Param("x")],
     [Complete EXCEPT !.ui[1].recipe = "r9"], [Complete EXCEPT !.ui[1].when = Is("a", "Task")],
     [Complete EXCEPT !.exports[1].recipes = <<"r9">>], [Complete EXCEPT !.exports[1].recipes = <<"r2">>],
     [Complete EXCEPT !.exports[1].whens = <<Malformed>>],
     [Complete EXCEPT !.migrations[1].recipes = <<"r1">>], [Complete EXCEPT !.migrations[1].recipes = <<"r9">>],
     [Complete EXCEPT !.migrations[1].to = "D"], [Complete EXCEPT !.migrations[1].from = "D"],
     [Complete EXCEPT !.producerDelta[1].path = <<>>], [Complete EXCEPT !.producerDelta[1].type = "Unknown"],
     [Complete EXCEPT !.producerDelta[1].from = "code"], [Complete EXCEPT !.producerDelta[1].path = <<"owner">>],
     [Complete EXCEPT !.producerDelta = <<@[1], @[1]>>],
     [Edit(<<SetTo("self", "name", NumLit)>>, <<Writes("self", "name", "set")>>) EXCEPT !.producerDelta = Complete.producerDelta],
     [WithRecipes(<<Recipe1("r1", "complete", Tasks, <<SetTo("self", "name", NumLit)>>, <<Writes("self", "name", "set")>>)>>)
         EXCEPT !.producerDelta = Complete.producerDelta],
     [Exporting EXCEPT !.recipes = <<Recipe1("r1", "export", Tasks, <<BindTo("pg", Sel("render", "pages")), Emit1("pg")>>, <<Demand("self", <<>>, "artifact")>>)>>],
     [Exporting EXCEPT !.capabilities = Families \o <<"export-ir/1">>,
         !.recipes = <<Recipe1("r1", "export", Tasks, <<BindTo("pg", Along("render", "pages", "none"))>>, <<>>)>>],
     [Exporting EXCEPT !.recipes = <<Recipe1("r1", "export", [Sel("render", "pages") EXCEPT !.order = "page-occurrence"],
                                            <<Emit1("self")>>, <<Demand("self", <<>>, "artifact")>>)>>],
     [Exporting EXCEPT !.recipes = <<[Recipe1("r1", "export", [Sel("render", "occurrences") EXCEPT !.order = "page-occurrence"],
         <<BindTo("o", Along("self", "reference", "sourceOccurrence"))>>, <<>>)
         EXCEPT !.when = Eq(Read("self", <<"label", "text">>), Upper(Read("self", <<"order">>)))]>>],
     [WithRules(<<Rule1("a", Tasks, <<>>, True)>>) EXCEPT !.rules[1].message = "q"],
     [WithRules(<<Rule1("a", Tasks, <<>>, True)>>) EXCEPT !.rules[1].repairRecipe = "q"],
     WithRules(<<Rule1("a", Tasks, <<>>, True), Rule1("a", Tasks, <<>>, True)>>)}

-----------------------------------------------------------------------------
(* Lint                                                                    *)
Std(n) == <<"standard", n>>
Pro(n) == <<"profile", n>>
MCRecommended == [r \in {Std("label"), Std("end")} |-> 2]
MCCanonical == [n \in {"bpmnlint:recommended", "plugin:p/c", "plugin:bpmnlint-plugin-p/c", "plugin:p/d"} |->
                   CASE n = "bpmnlint:recommended" -> "bpmnlint/recommended"
                     [] n = "plugin:p/d" -> "bpmnlint-plugin-p/d" [] OTHER -> "bpmnlint-plugin-p/c"]
Config(extends, rules) == [extends |-> extends, rules |-> rules]
NoRules == [r \in {} |-> 0]
Setting(rule, severity) == [rule |-> rule, severity |-> severity, classification |-> "integrity"]
Record(extends, settings) == [id |-> "import", policy |-> "draft", extends |-> extends, settings |-> settings]
Standard(n) == <<Setting(Std("label"), n), Setting(Std("end"), 3)>>
Call(phase, registry, raws) ==
    [phase |-> phase, policy |-> "draft", registry |-> registry, bindings |-> {[ownerId |-> "A", targetId |-> "A"]}, raw |-> raws]
NoLint == Call("none", [n \in {} |-> Config(<<>>, NoRules)], <<>>)
Path(absolute, segments) == [absolute |-> absolute, segments |-> segments]
RawStandard(rule, category, id, path) == [rule |-> rule, category |-> category, id |-> id, path |-> path]
Raws ==
    {<<>>, <<RawStandard(Std("label"), "warn", "A", Path(FALSE, <<"name">>)), RawStandard(Std("label"), "warn", "A", Path(FALSE, <<"name">>))>>,
     <<RawStandard(Std("label"), "rule-error", "none", Path(FALSE, <<>>)), RawStandard(Std("end"), "rule-error", "none", Path(FALSE, <<>>))>>,
     <<RawStandard(Std("end"), "warn", "P", Path(TRUE, <<"rootElements", "0", "flowElements", "0">>)),
       RawStandard(Std("label"), "warn", "F", Path(TRUE, <<"rootElements", "0">>)),
       RawStandard(Std("label"), "warn", "gone", Path(FALSE, <<>>)), RawStandard(Std("label"), "warn", "none", Path(TRUE, <<>>))>>}
Registries ==
    {[n \in {} |-> Config(<<>>, NoRules)],
     [n \in {"plugin:p/c"} |-> Config(<<"bpmnlint:recommended">>, [r \in {Pro("a")} |-> 1])],
     [n \in {"bpmnlint-plugin-p/c"} |-> Config(<<>>, [r \in {Std("label")} |-> 0])],
     [n \in {"plugin:p/c"} |-> Config(<<"plugin:p/d">>, NoRules)],
     [n \in {"plugin:p/c", "plugin:p/d"} |-> IF n = "plugin:p/c" THEN Config(<<"plugin:p/d">>, NoRules)
                                             ELSE Config(<<"plugin:bpmnlint-plugin-p/c">>, NoRules)],
     [n \in {"bpmnlint:recommended"} |-> Config(<<>>, NoRules)],
     [n \in {"plugin:p/c"} |-> Config(<<>>, [r \in {Std("label"), Std("extra")} |-> IF r = Std("label") THEN 7 ELSE 1])],
     [n \in {"plugin:p/c"} |-> Config(<<>>, [r \in {Std("extra")} |-> 1])]}
Records ==
    {<<>>, <<Record(<<>>, Standard(2) \o <<Setting(Pro("a"), 2), Setting(Pro("b"), 3)>>)>>,
     <<Record(<<>>, Standard(2) \o <<Setting(Pro("a"), 0), Setting(Pro("b"), 1)>>)>>,
     <<Record(<<"bpmnlint:recommended">>, Standard(1) \o <<Setting(Std("label"), 0), Setting(Pro("a"), 2), Setting(Pro("b"), 2)>>)>>,
     <<Record(<<"plugin:p/c">>, Standard(3) \o <<Setting(Pro("a"), 2), Setting(Pro("b"), 2)>>)>>,
     <<Record(<<"plugin:p/c">>, Standard(3) \o <<Setting(Std("extra"), 1), Setting(Pro("a"), 2), Setting(Pro("b"), 2)>>)>>,
     <<Record(<<>>, <<Setting(Std("label"), 1), Setting(Pro("a"), 2), Setting(Pro("b"), 2)>>)>>,
     <<Record(<<>>, Standard(9) \o <<Setting(Pro("a"), 2), Setting(Pro("b"), 2)>>)>>,
     <<Record(<<>>, Standard(2) \o <<Setting(Pro("a"), 2)>>)>>,
     <<Record(<<>>, Standard(2) \o <<Setting(Pro("a"), 2), Setting(Pro("b"), 2), Setting(Pro("c"), 2)>>)>>,
     <<Record(<<>>, Standard(2)), Record(<<>>, Standard(2))>>}
Lenient == Record(<<>>, Standard(2) \o <<Setting(Pro("a"), 1), Setting(Pro("b"), 2)>>)
TwoRules(p, q) == WithRules(<<Rule1("a", Tasks, <<>>, p), Rule1("b", [Docs EXCEPT !.where = Disj(<<Is("self", "Doc"), Is("self", "Flow")>>)], <<>>, q)>>)
Recorded(p, records) == [p EXCEPT !.records = records]
Asserts == {False, Has1(Read("self", <<"kind">>)), Prefix(NumLit, "x"), Recognizes("self", "n1"),
            Reach(Sel("self", "self"), Tasks, 1, None), Eq(Read("self", <<"text">>), TextLit("big"))}
LintProfiles ==
    {<<Recorded(TwoRules(False, False), r), Plain, Call("import", g, <<>>)>> : r \in Records, g \in Registries}
    \cup {<<[Recorded(TwoRules(p, q), <<Lenient>>) EXCEPT !.notions = <<N1>>], t, Call("import", [n \in {} |-> Config(<<>>, NoRules)], x)>> :
              p \in Asserts, q \in Asserts, t \in {Plain, Double, Loop}, x \in Raws}
    \cup {<<[Recorded(p, <<Record(<<>>, Standard(2) \o <<Setting(Pro("a"), 2)>>)>>) EXCEPT !.notions = <<N1>>], t,
            Call("import", [n \in {} |-> Config(<<>>, NoRules)], <<>>)>> : p \in RuleProfiles, t \in {Plain, Double}}

-----------------------------------------------------------------------------
Pin(id, version, sha256) == [id |-> id, version |-> version, sha256 |-> sha256]
Pinned1 == Source!List(<<Pin("d1", "v1", "h1"), Pin("d2", "v1", "h2")>>)
Pinned2 == Source!List(<<Pin("d1", "v2", "h1"), Pin("d2", "v1", "h2")>>)
NoPins == [base |-> "none", descriptors |-> Source!Absent, checkCapabilities |-> FALSE, capabilities |-> {}, checkAssets |-> FALSE,
           assets |-> [k \in {} |-> "none"], schema |-> "schema",
           declared |-> [base |-> "b1", descriptors |-> Pinned1, profile |-> "acme", version |-> "1.2.3", resources |-> <<[key |-> "k1", digest |-> "h1"], [key |-> "k2", digest |-> "h2"]>>]]
MCPins ==
    {NoPins} \cup {[NoPins EXCEPT !.base = b, !.descriptors = d] : b \in {"b1", "b2"}, d \in {Pinned1, Pinned2}}
    \cup {[NoPins EXCEPT !.checkCapabilities = TRUE, !.capabilities = c] : c \in {{}, Range(Families)}}
    \cup {[NoPins EXCEPT !.checkAssets = TRUE, !.assets = a] :
             a \in UNION {[ks -> {"h1", "h2"}] : ks \in SUBSET {"k1", "k2"}}}
    \cup {[NoPins EXCEPT !.schema = s] : s \in {"none", "unreadable"}}
-----------------------------------------------------------------------------
(* Documents: the tree Plain as JSON, with and without presentation        *)
JText(w) == [text |-> w]
JDict(members) == Source!Dict(members)
JList(items) == Source!List(items)
Entry1(key, value) == [key |-> key, value |-> value]
RECURSIVE JsonOf(_, _)
JsonOf(t, e) ==
    LET attrs == SetToSeq({t[e].parts[i].attr : i \in DOMAIN t[e].parts})
        children(a) == SelectSeq(t[e].parts, LAMBDA x : x.attr = a)
    IN  JDict(<<Entry1("$type", JText("bpmn:" \o t[e].type))>>
              \o (IF t[e].id = "none" THEN <<>> ELSE <<Entry1("id", JText(t[e].id))>>)
              \o [i \in DOMAIN attrs |-> Entry1(attrs[i],
                    JList([k \in DOMAIN children(attrs[i]) |-> JsonOf(t, children(attrs[i])[k].element)]))])
PlainJson == JsonOf(Plain, "root")
Drawn(n) == JDict(<<Entry1("$type", JText("bpmndi:BPMNPlane")), Entry1("id", JText(n)), Entry1("x", JDict(<<>>))>>)
Plus(d, key, value) == JDict(d.members \o <<Entry1(key, value)>>)
DrawnJson == Plus(PlainJson, "diagrams", JList(<<Drawn("d1")>>))
MCPresentationTypes == {"bpmndi:BPMNPlane", "dc:Bounds"}
Nested == Plus(PlainJson, "matrix", JList(<<JList(<<JText("1")>>)>>))
Trees ==
    {PlainJson, DrawnJson, Nested,
     Plus(PlainJson, "diagrams", JList(<<>>)), Plus(PlainJson, "diagrams", JList(<<JText("kept"), Drawn("d1")>>)),
     Plus(PlainJson, "diagrams", JText("kept")), Plus(PlainJson, "diagrams", JDict(<<Entry1("diagrams", JList(<<Drawn("d1")>>))>>)),
     Plus(Plus(DrawnJson, "first", Drawn("d2")), "inner", JList(<<JDict(<<Entry1("a", Drawn("d3")), Entry1("b", JText("1"))>>),
          JText("1"), Drawn("d4"), JText("1"), JDict(<<Entry1("c", JDict(<<Entry1("d", Drawn("d3"))>>))>>)>>)),
     Plus(PlainJson, "deep", JDict(<<Entry1("a", JDict(<<Entry1("b", JDict(<<Entry1("c", JDict(<<Entry1("d", JDict(<<Entry1("e", JDict(<<Entry1("f", JDict(<<Entry1("g", JList(<<JText("1")>>))>>))>>))>>))>>))>>))>>))>>)),
     Plus(PlainJson, "long", JDict(<<Entry1("a", JDict(<<Entry1("b", JList(<<JDict(<<Entry1("c", JList(<<JDict(<<Entry1("d", JList(<<JText("1")>>))>>)>>))>>)>>))>>))>>)),
     JDict(<<Entry1("id", JText("A"))>>), JList(<<PlainJson>>), JText("tree"), Drawn("d1")}

XmlTrees == \* the codec projects elements: typed, and without a list in a list
    {t \in Trees : "members" \in DOMAIN t /\ Source!TypeOf(t) = "bpmn:Definitions" /\ ~Source!ListInList(t)}
Own == Source!LintIdentity(NoPins.declared, "D")
Identities ==
    {Own, [Own EXCEPT !.descriptors = Pinned1], [Own EXCEPT !.descriptors = JList(Reverse(@.items))],
     [Own EXCEPT !.sha256 = "D2"], [Own EXCEPT !.sha256 = "short"], [Own EXCEPT !.base = [sha256 |-> "b2"]], [Own EXCEPT !.profile = "other"],
     [Own EXCEPT !.version = "?"], [Own EXCEPT !.profile = "null"], [Own EXCEPT !.mechanismVersion = "2"],
     [Own EXCEPT !.schemaVersion = "2.0.0"], [Own EXCEPT !.base = JText("b1")], [Own EXCEPT !.descriptors = JText("d1")],
     [key \in DOMAIN Own \ {"base"} |-> Own[key]]}
    \cup {[Own EXCEPT !.version = v] : v \in {"1.2.4", "1.1.9", "1.3.0", "2.0.0"}}
Support(owner, role, target) == [ownerId |-> owner, role |-> role, targetId |-> target]
Bindings ==
    {<<>>, <<Support("A", "r", "A")>>, <<Support("B", "r", "A"), Support("A", "s", "B"), Support("A", "r", "B")>>,
     <<Support("A", "r", "A"), Support("A", "r", "B")>>, <<Support("A", "r", "")>>, <<Support("A", "null", "B")>>,
     <<[ownerId |-> "A", role |-> "r"], Support("A", "r", "A"), Support("A", "r", "A")>>,
     <<Support("A", "r", "A"), Support("A", "r", "A"), [ownerId |-> "A", role |-> "r"]>>}
MCBindingOrder == <<"A", "B", "null", "r", "s">>
Envelope1(identity, t, bindings) ==
    [documentVersion |-> "1", profileIdentity |-> identity, tree |-> t, bindings |-> JList(bindings),
     semanticRevision |-> Source!SemanticRevision(t, identity, bindings)]
Good == Envelope1(Own, PlainJson, <<Support("A", "r", "A")>>)
Envelopes ==
    {Envelope1(i, PlainJson, <<Support("A", "r", "A")>>) : i \in Identities}
    \cup {Envelope1(Own, t, <<>>) : t \in Trees} \cup {Envelope1(Own, PlainJson, b) : b \in Bindings}
    \cup {[Good EXCEPT !.documentVersion = "2"], [Good EXCEPT !.bindings = JText("none")], [Good EXCEPT !.bindings = JList(<<>>)],
           [Good EXCEPT !.tree = JDict(<<Entry1("$type", JText("bpmn:Definitions"))>>)],
           [key \in DOMAIN Good \ {"bindings"} |-> Good[key]]}
FileOf(id, sha256) == [id |-> id, sha256 |-> sha256]
FromEnvelope(e) == [source |-> "envelope", pinnedSchema |-> TRUE, descriptors |-> FileOf("d1", "h1"), envelope |-> e, hydrates |-> TRUE]
FromXml(x) == [source |-> "xml", pinnedSchema |-> TRUE, descriptors |-> FileOf("d2", "h2"), xml |-> x, reparsed |-> "definitions",
               text |-> "t", warnings |-> 0]
Decoded1(t) == [decoded |-> "value", tree |-> t]
Given1 == FromEnvelope(Good)
Commands ==
    {FromEnvelope(e) : e \in Envelopes} \cup {FromXml(Decoded1(t)) : t \in XmlTrees}
    \cup {FromXml([decoded |-> "refused", tree |-> JText("")]), [FromXml(Decoded1(DrawnJson)) EXCEPT !.reparsed = "other"],
           [FromXml(Decoded1(DrawnJson)) EXCEPT !.warnings = 2], [Given1 EXCEPT !.hydrates = FALSE],
           [Given1 EXCEPT !.descriptors = FileOf("d1", "h2")], [Given1 EXCEPT !.descriptors = FileOf("d3", "h1")],
           [Given1 EXCEPT !.pinnedSchema = FALSE], [Given1 EXCEPT !.source = "unknown"]}
BoundRole == [op |-> "boundRole", binding |-> "self", owner |-> "self"]
Judge == Recorded(WithRules(<<Rule1("a", Tasks, <<>>, BoundRole), Rule1("b", Tasks, <<>>, Has1(Read("self", <<"name">>)))>>), <<Lenient>>)
CommandPins == [NoPins EXCEPT !.base = "b1", !.checkCapabilities = TRUE, !.capabilities = Range(Families)]
CommandCall == [Call("import", [n \in {} |-> Config(<<>>, NoRules)], <<>>) EXCEPT !.bindings = {}]

(* Questions of hosts                                                      *)
MCVersions == [v \in {"1.2.3", "1.2.4", "1.1.9", "1.3.0", "2.0.0"} |->
    CASE v = "1.2.3" -> <<1, 2, 3>> [] v = "1.2.4" -> <<1, 2, 4>> [] v = "1.1.9" -> <<1, 1, 9>> [] v = "1.3.0" -> <<1, 3, 0>> [] OTHER -> <<2, 0, 0>>]
Wide == [mechanisms |-> {"1", "2"}, schemas |-> {"1.0.0", "2.0.0"}, assets |-> {"a"}, capabilities |-> {"c"}]
Ask(p, d) == [runtime |-> Wide, injected |-> p, document |-> d, documentVersion |-> "1", host |-> Source!Absent, snapshot |-> Source!Absent,
              available |-> TRUE, capabilities |-> {}, assets |-> {}, valid |-> TRUE]
Known1 == {i \in Identities : DOMAIN i = DOMAIN Own /\ "items" \in DOMAIN i.descriptors}
Questions ==
    {[Ask(p, d) EXCEPT !.available = a] : p \in Known1, d \in Known1, a \in BOOLEAN}
    \cup {[Ask(p, d) EXCEPT !.host = h, !.snapshot = s] : p \in {Own}, d \in {Own, [Own EXCEPT !.version = "1.2.4"]},
              h \in {Source!Absent, Own, [Own EXCEPT !.version = "1.2.4"]}, s \in {Source!Absent, Own}}
    \cup {[Ask(p, d) EXCEPT !.documentVersion = v] : p \in {Own, Source!Absent}, d \in {Own, Source!Absent}, v \in {"1", "2", "none"}}
    \cup {[Ask(Own, d) EXCEPT !.runtime = r, !.capabilities = c, !.assets = a, !.valid = v] :
              d \in {Own, [Own EXCEPT !.version = "1.2.4"]}, r \in {Wide, [Wide EXCEPT !.mechanisms = {"2"}], [Wide EXCEPT !.schemas = {}]},
              c \in {{"c"}, {"x"}}, a \in {{"a"}, {"x"}}, v \in BOOLEAN}
Case(t, l, ps, p, tr, c) == [text |-> t, library |-> l, pins |-> ps, profile |-> p, tree |-> tr, call |-> c, document |-> Source!NoDocument]
DocumentInputs ==
    {[Case(Empty, AnyLib, CommandPins, Judge, Plain, CommandCall) EXCEPT !.document = d] : d \in Commands}
    \cup {[Case(x, AnyLib, CommandPins, Judge, Plain, CommandCall) EXCEPT !.document = Given1] :
              x \in {Txt(<<"junk">>), [Txt(<<"{", "sa">>) EXCEPT !.json = FALSE]}}
    \cup {[Case(Empty, AnyLib, CommandPins, Judge, Plain, CommandCall) EXCEPT !.document = d] :
              d \in {[source |-> "session", envelope |-> e] : e \in Envelopes} \cup {[source |-> "question", question |-> q] : q \in Questions}}
MCInputs ==
    {Case(t, AnyLib, [NoPins EXCEPT !.schema = "none"], Bare, Plain, NoLint) : t \in MCTexts}
    \cup {Case(Empty, l, NoPins, Bare, Plain, NoLint) : l \in MCLibraries}
    \cup {Case(Empty, AnyLib, ps, Bare, Plain, NoLint) : ps \in MCPins}
    \cup {Case(Empty, AnyLib, NoPins, p, Plain, NoLint) : p \in RecipeProfiles \cup SectionProfiles}
    \cup {Case(Empty, AnyLib, NoPins, x[1], x[2], x[3]) : x \in LintProfiles}
    \cup DocumentInputs
OpenInputs ==
    {Case(Empty, l, NoPins, Bare, Plain, NoLint) : l \in OpenLibraries}
NotionInputs ==
    {Case(Empty, AnyLib, NoPins, [Recorded(WithRules(<<Rule1("a", Tasks, <<>>, Recognizes("self", "n1"))>>),
              <<Record(<<>>, Standard(2) \o <<Setting(Pro("a"), 2)>>)>>) EXCEPT !.notions = <<N1>>], Plain,
          Call("import", [n \in {} |-> Config(<<>>, NoRules)], <<>>))}

MCQualified == {"Task", "Flow", "Process", "Doc", "Definitions", "Base", "Unknown"}
MCSignatures == (ValueOps \cup PredicateOps \cup ActionOps) \ {"ensure"}
MCCased == [big |-> [upper |-> "Big", lower |-> "big"], Big |-> [upper |-> "Big", lower |-> "big"]]
MCIdOrder == <<"A", "B", "F", "P">>
MCRuleOrder == <<<<"adapter", "lint">>, Std("end"), Std("extra"), Std("label"), Pro("a"), Pro("b"), Pro("c")>>
MCNameOrder == <<"none", "0", "1", "2", "A", "B", "F", "P", "a", "artifacts", "b", "documentation", "end", "flowElements", "gone", "label",
                 "lint-rule-error", "name", "rootElements">>
=============================================================================
