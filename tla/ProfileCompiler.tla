-------------------------- MODULE ProfileCompiler --------------------------
(***************************************************************************)
(* The profile compiler (profile/_compiler.py): closed capabilities,       *)
(* symbols and producer rights first, then a typed walk over every AST     *)
(* position with the scope of its rule or recipe, then the references      *)
(* between sections.  The first failing check refuses the profile.         *)
(*                                                                         *)
(* An AST is a record tagged with its op ("selector" for a selector);      *)
(* None is an absent AST or name, Malformed a node that is not an object.  *)
(* A path is the sequence of its segments, empty when it is not a pointer. *)
(***************************************************************************)
EXTENDS Naturals, Sequences, SequencesExt, FiniteSets

CONSTANTS
    Qualified,   \* the type names with a colon
    Signatures,  \* operators the registry has a signature for
    Descriptors, \* the descriptor index: facets by type
    HasContext,  \* whether a descriptor context was supplied
    BaseRights,  \* producers by <<type, field>> of the ratified base, in order
    HasBase      \* whether a base was supplied

VARIABLES
    profile,  \* the validated profile, never changes
    stage,    \* the section being compiled
    at,       \* position in the section
    step,     \* position in the steps of the recipe
    scope,    \* names, their types and the parameters in scope
    demands,  \* writes required by each recipe walked so far
    refusal   \* why the profile was refused, "ok" otherwise
compilerVars == <<profile, stage, at, step, scope, demands, refusal>>

None == [op |-> "none"]
Malformed == [op |-> "malformed"]

ValueOps == {"literal", "read", "id", "ids", "param", "concat", "stripPrefix", "case", "outputId"}
PredicateOps == {"true", "false", "all", "any", "not", "typeIs", "present", "equal", "textPrefix",
                 "count", "boundRole", "recognizes", "reachable"}
ActionOps == {"bind", "create", "ensure", "set", "unset", "assignRef", "reparent", "place", "emit",
              "loss", "remove", "refuse"}
NativeVia == {"self", "root", "owner", "children", "descendants", "reference", "inverseReference", "all"}
RenderVia == {"pages", "occurrences", "semantic"}
KnownCapabilities == {"predicates/1", "selectors/1", "recipes/1", "profile-lint/1", "render-data/1", "export-ir/1"}
Phases == {"create", "edit", "complete", "normalize", "reference", "export", "convert", "migrate"}
WritePhases == Phases \ {"export"}
ActionPhases(op) ==
    CASE op \in {"bind", "refuse"} -> Phases
      [] op = "create" -> WritePhases \ {"normalize"}
      [] op \in {"ensure", "place"} -> {"normalize"}
      [] op \in {"set", "unset", "assignRef"} -> WritePhases
      [] op \in {"reparent", "remove"} -> {"edit", "convert", "migrate"}
      [] OTHER -> {"export"}

(* The first code of a sequence of checks that is not ok.                  *)
FirstCode(codes) ==
    LET bad == SelectSeq(codes, LAMBDA c : c # "ok") IN IF bad = <<>> THEN "ok" ELSE Head(bad)
Require(condition, code) == IF condition THEN "ok" ELSE code
Present(x) == x # None

-----------------------------------------------------------------------------
(* Descriptor index and producer rights                                    *)
KnownType(type) == HasContext /\ type \in DOMAIN Descriptors
HasField(spec, field) == field \in spec.scalars \cup DOMAIN spec.containment \cup DOMAIN spec.references
TypeExists(type) == type \in Qualified /\ HasContext => type \in DOMAIN Descriptors

RefFields == {<<BaseRights[i].type, BaseRights[i].field>> : i \in {j \in DOMAIN BaseRights : BaseRights[j].reference}}
NoRights == [ok |-> TRUE, rights |-> [k \in {} |-> {}]]
SetRight(rights, key, actors) == [k \in DOMAIN rights \cup {key} |-> IF k = key THEN actors ELSE rights[k]]
WithBase ==
    FoldLeft(LAMBDA a, e : [a EXCEPT !.rights = SetRight(@, <<e.type, e.field>>, e.producers)], NoRights,
             IF HasBase THEN BaseRights ELSE <<>>)
(* Descriptor rights may not restate those of the base.                    *)
DescriptorRights == {<<t, f>> \in (IF HasContext THEN DOMAIN Descriptors ELSE {}) \X
                                  UNION {DOMAIN Descriptors[t].producers : t \in DOMAIN Descriptors} :
                        f \in DOMAIN Descriptors[t].producers}
WithDescriptors ==
    IF DescriptorRights \cap DOMAIN WithBase.rights # {} THEN [NoRights EXCEPT !.ok = FALSE]
    ELSE [WithBase EXCEPT !.rights = [k \in DOMAIN @ \cup DescriptorRights |->
              IF k \in DOMAIN @ THEN @[k] ELSE Descriptors[k[1]].producers[k[2]]]]
(* A delta moves a right from one actor to another.                        *)
ApplyDelta(acc, d) ==
    LET key == <<d.type, Head(d.path)>>
    IN  IF ~acc.ok \/ d.path = <<>> THEN [acc EXCEPT !.ok = FALSE]
        ELSE IF HasContext /\ (d.type \notin DOMAIN Descriptors \/ ~HasField(Descriptors[d.type], key[2]))
        THEN [acc EXCEPT !.ok = FALSE]
        ELSE IF key \notin DOMAIN acc.rights THEN acc
        ELSE IF d.from \notin acc.rights[key] THEN [acc EXCEPT !.ok = FALSE]
        ELSE [acc EXCEPT !.rights[key] = (@ \ {d.from}) \cup {d.to}]
EffectiveProducers(p) == FoldLeft(ApplyDelta, WithDescriptors, p.producerDelta)

(* The actor of a phase must hold the right for every type the write may   *)
(* be on.                                                                  *)
Actor(phase) == IF phase \in {"complete", "normalize"} THEN "code" ELSE "editor"
RightOf(type, field) ==
    LET r == EffectiveProducers(profile).rights
    IN  IF <<type, field>> \in DOMAIN r THEN r[<<type, field>>] ELSE {}
Targets(type, field) ==
    IF type \in DOMAIN Descriptors THEN {type} ELSE {t \in DOMAIN Descriptors : HasField(Descriptors[t], field)}
AuthorizeKnown(type, field, phase) == \* mutant: a write on an unknown type is not checked
    IF type \in DOMAIN Descriptors THEN Require(Actor(phase) \in RightOf(type, field), "profile-producer") ELSE "ok"
Authorize(type, field, phase) ==
    IF ~HasContext THEN "ok"
    ELSE IF Targets(type, field) = {} THEN "profile-type"
    ELSE Require(\A t \in Targets(type, field) : Actor(phase) \in RightOf(t, field), "profile-producer")

-----------------------------------------------------------------------------
(* Scopes                                                                  *)
Scope(bindings, btypes, params) == [bindings |-> bindings, btypes |-> btypes, params |-> params]
NoTypes == [n \in {} |-> "native"]
BType(s, name) == IF name \in DOMAIN s.btypes THEN s.btypes[name] ELSE "native"
Bound(s, names) == Require(names \subseteq s.bindings, "profile-symbol")
Typed(s, name, type) ==
    [s EXCEPT !.btypes = [n \in DOMAIN @ \cup {name} |-> IF n = name THEN type ELSE @[n]]]
WithAlias(s, name, type) == [Typed(s, name, type) EXCEPT !.bindings = @ \cup {name}]

(* Typed leaves of the page and occurrence records.                        *)
Bounds(prefix) == {prefix \o <<"bounds", c>> : c \in {"x", "y", "width", "height"}}
Leaves(type) ==
    IF type = "page" THEN {<<"pageId">>, <<"name">>, <<"semanticRootId">>, <<"order">>} \cup Bounds(<<>>)
    ELSE {<<f>> : f \in {"pageId", "occurrenceKey", "semanticId", "role", "emittedType", "glyphId", "order",
                         "waypoints", "style"}}
         \cup {<<"label", "text">>, <<"label", "lines">>} \cup Bounds(<<"label">>)
         \cup {<<e, f>> : e \in {"sourceOccurrence", "targetOccurrence"}, f \in {"pageId", "occurrenceKey"}}
LeafType(path) ==
    CASE Last(path) \in {"order", "x", "y", "width", "height"} -> "number"
      [] Last(path) \in {"waypoints", "style", "lines"} -> "array"
      [] OTHER -> "string"
IsRecord(type) == type \in {"page", "occurrence"}

CheckReadPath(s, binding, path) ==
    LET type == BType(s, binding)
    IN  IF path = <<>> THEN "profile-type"
        ELSE IF IsRecord(type) THEN Require(path \in Leaves(type), "profile-type")
        ELSE Require(KnownType(type) => HasField(Descriptors[type], path[1]), "profile-type")

ValueType(v, s) ==
    CASE v.op = "literal" -> v.value.kind
      [] v.op \in {"id", "outputId", "concat", "stripPrefix", "case"} -> "string"
      [] v.op = "ids" -> "array"
      [] v.op = "param" -> IF s.params[v.name] \in {"string", "number", "boolean", "array"} THEN s.params[v.name]
                           ELSE "unknown"
      [] v.op = "read" /\ IsRecord(BType(s, v.binding)) -> LeafType(v.path)
      [] OTHER -> "unknown"
Textual(v, s) == Require(ValueType(v, s) \in {"string", "unknown"}, "profile-type")

RECURSIVE CheckValue(_, _, _), CheckPredicate(_, _, _), CheckSelector(_, _, _)
CheckText(v, context, s) ==
    FirstCode(<<CheckValue(v, context, s), Textual(v, s)>>)
CheckValue(v, context, s) ==
    CASE v.op \in {"malformed", "none"} -> "profile-type"
      [] v.op \notin ValueOps \cup {"malformed", "none"} -> "profile-symbol"
      [] v.op = "literal" -> Require(v.value.kind \in {"string", "number", "boolean"}, "profile-type")
      [] v.op = "read" -> IF v.binding \in s.bindings THEN CheckReadPath(s, v.binding, v.path) ELSE "profile-symbol"
      [] v.op = "id" -> Bound(s, {v.binding})
      [] v.op = "ids" -> Require(context = "assignRef-values", "profile-value-context")
      [] v.op = "param" -> Require(v.name \in DOMAIN s.params, "profile-symbol")
      [] v.op = "concat" -> IF v.values = <<>> THEN "profile-type"
                            ELSE FirstCode([i \in DOMAIN v.values |-> CheckText(v.values[i], "concat", s)])
      [] v.op = "stripPrefix" -> CheckText(v.value, context, s)
      [] v.op = "case" -> IF v.mode \notin {"upper", "lower"} \/ v.unicode # "15.0.0" THEN "profile-type"
                          ELSE CheckText(v.value, context, s)
      [] v.op = "outputId" -> IF context \notin {"emit-fields", "emit-parent"} THEN "profile-value-context"
                              ELSE Bound(s, {v.binding})

Interval(min, max) == Require(min >= 0 /\ (Present(max) => max.n >= min), "profile-bounds")
CheckPredicate(p, s, phase) ==
    CASE p.op \in {"malformed", "none"} -> "profile-type"
      [] p.op \notin PredicateOps \cup {"malformed", "none"} -> "profile-symbol"
      [] p.op \in {"true", "false"} -> "ok"
      [] p.op \in {"all", "any"} -> IF p.args = <<>> THEN "profile-type"
                                    ELSE FirstCode([i \in DOMAIN p.args |-> CheckPredicate(p.args[i], s, phase)])
      [] p.op = "not" -> CheckPredicate(p.arg, s, phase)
      [] p.op = "typeIs" -> FirstCode(<<Require(p.mode \in {"exact", "assignable"}, "profile-type"),
                                        Bound(s, {p.binding}), Require(TypeExists(p.type), "profile-type")>>)
      [] p.op = "present" -> CheckValue(p.value, "predicate", s)
      [] p.op = "equal" -> FirstCode(<<CheckValue(p.left, "predicate", s), CheckValue(p.right, "predicate", s)>>)
      [] p.op = "textPrefix" -> IF p.prefix = <<>> \/ p.trim \notin {"none", "ecma262-2024-start"} THEN "profile-type"
                                ELSE CheckValue(p.value, "predicate", s)
      [] p.op = "count" -> FirstCode(<<CheckSelector(p.selector, s, phase), Interval(p.min, p.max)>>)
      [] p.op = "boundRole" -> Bound(s, {p.binding, p.owner})
      [] p.op = "recognizes" -> FirstCode(<<Bound(s, {p.binding}),
             Require(\E i \in DOMAIN profile.notions : profile.notions[i].id = p.notion, "profile-symbol")>>)
      [] p.op = "reachable" -> FirstCode(<<CheckSelector(p.source, s, phase), CheckSelector(p.target, s, phase),
             Require(p.edgeTypes # {} /\ \A e \in p.edgeTypes : TypeExists(e), "profile-type"),
             Interval(p.minHops, p.maxHops)>>)

(* A selector with a type test binds that type, self keeps the type of its *)
(* source.                                                                 *)
SelectorType(sel, s) ==
    CASE sel.via = "pages" -> "page"
      [] sel.via = "occurrences" -> "occurrence"
      [] sel.via \notin {"pages", "occurrences"} /\ sel.where.op = "typeIs" -> sel.where.type
      [] sel.via = "self" /\ sel.where.op # "typeIs" -> BType(s, sel.from)
      [] OTHER -> "native"

ReferenceProperty(from, prop) ==
    IF IsRecord(from) THEN Require(prop \in {"sourceOccurrence", "targetOccurrence"}, "profile-selector-property")
    ELSE Require(KnownType(from) => \/ prop \in DOMAIN Descriptors[from].references
                                    \/ prop \in Descriptors[from].scalars /\ HasBase /\ <<from, prop>> \in RefFields,
                 "profile-type")
SelectorProperty(sel, from) ==
    CASE sel.via \in {"reference", "inverseReference"} ->
             IF sel.property = "none" \/ (sel.via = "inverseReference" /\ IsRecord(from)) THEN "profile-selector-property"
             ELSE ReferenceProperty(from, sel.property)
      [] sel.via = "children" -> Require(sel.property # "none" /\ KnownType(from) =>
                                             sel.property \in DOMAIN Descriptors[from].containment, "profile-type")
      [] OTHER -> Require(sel.property = "none", "profile-selector-property")
SelectorOrder(sel) ==
    Require(sel.order \in CASE sel.via = "self" -> {"id", "page-occurrence"}
                            [] sel.via \in {"pages", "occurrences"} -> {"page-occurrence"}
                            [] OTHER -> {"id"}, "profile-selector-order")
(* A where is checked in a scope of its own, for the type the selector     *)
(* binds.                                                                  *)
WhereScope(sel, s) == Typed(s, "self", SelectorType(sel, s))
CheckSelector(sel, s, phase) ==
    IF sel.op # "selector" THEN "profile-type"
    ELSE FirstCode(<<Bound(s, {sel.from}),
                     Require(sel.via \in NativeVia \cup RenderVia, "profile-symbol"),
                     Require(sel.via \in RenderVia => phase = "export", "profile-value-context"),
                     SelectorOrder(sel),
                     SelectorProperty(sel, BType(s, sel.from)),
                     IF Present(sel.where) THEN CheckPredicate(sel.where, WhereScope(sel, s), phase) ELSE "ok">>)

-----------------------------------------------------------------------------
(* Recipe steps: the code, the scope after the step, the writes it demands. *)
Step(code, s, writes) == [code |-> code, scope |-> s, writes |-> writes]
Demand(binding, path, mode) == [binding |-> binding, path |-> path, mode |-> mode]
ContextPhase(phase) == IF phase = "export" THEN "export" ELSE "recipe"
OptionalName(s, name) == Require(name \in s.bindings \cup {"none"}, "profile-symbol")

(* A bind and the binding of a rule register their alias after the         *)
(* selectors are checked.                                                  *)
BindAliasFirst(b, s, phase) == \* mutant: the alias is in scope of its own selector
    LET own == WithAlias(s, b.as, SelectorType(b.select, s))
    IN  Step(FirstCode(<<CheckSelector(b.select, own, phase)>>), own, <<>>)
Bind(b, s, phase) ==
    Step(FirstCode(<<CheckSelector(b.select, s, phase),
                     Require(b.cardinality \in {"one", "zeroOrOne", "first"}, "profile-type"),
                     Require(b.fallbacks = <<>> \/ b.cardinality = "first", "profile-bind-fallbacks"),
                     FirstCode([i \in DOMAIN b.fallbacks |-> CheckSelector(b.fallbacks[i], s, phase)])>>),
         WithAlias(s, b.as, SelectorType(b.select, s)), <<>>)

CreateField(f, type, phase, s) ==
    FirstCode(<<Require(KnownType(type) => f.name \in Descriptors[type].scalars \ {"id"}, "profile-type"),
                CheckValue(f.value, "create-field", s), Authorize(type, f.name, phase)>>)
CreateParent(a, phase, s) ==
    LET type == BType(s, a.parent)
    IN  FirstCode(<<Bound(s, {a.parent}),
                    Require(KnownType(type) => /\ a.property \in DOMAIN Descriptors[type].containment
                                               /\ a.type \in Descriptors[type].containment[a.property], "profile-type"),
                    Authorize(type, a.property, phase)>>)
Create(a, phase, s) ==
    LET allocated == a.identity = "allocated"
        after == IF a.as = "none" THEN s ELSE WithAlias(s, a.as, a.type)
    IN  Step(FirstCode(<<
                Require(a.identity \in {"allocated", "containment"} /\ allocated = Present(a.key), "profile-create-identity"),
                Require(TypeExists(a.type), "profile-type"),
                Require(KnownType(a.type) => Descriptors[a.type].id = allocated, "profile-create-identity"),
                IF Present(a.key) THEN CheckValue(a.key, "create-field", s) ELSE "ok",
                FirstCode([i \in DOMAIN a.fields |-> CreateField(a.fields[i], a.type, phase, s)]),
                IF allocated THEN Authorize(a.type, "id", phase) ELSE "ok",
                IF a.parent = "none" THEN "ok" ELSE CreateParent(a, phase, after)>>),
             after,
             IF a.parent = "none" THEN <<>> ELSE <<Demand(a.parent, <<a.property>>, "create")>>)

WriteTarget(a, s) ==
    FirstCode(<<Bound(s, {a.target}), Require(a.path # <<>>, "profile-type"),
                IF a.path = <<>> THEN "ok" ELSE Require(a.path[1] # "id", "profile-producer")>>)
Write(a, phase, s, facet, values, mode) ==
    LET type == BType(s, a.target)
        target == WriteTarget(a, s)
    IN  Step(IF target # "ok" THEN target
             ELSE FirstCode(<<Require(KnownType(type) => a.path[1] \in facet, "profile-type"),
                              values, Authorize(type, a.path[1], phase)>>),
             s, <<Demand(a.target, a.path, mode)>>)
Scalars(type) == IF KnownType(type) THEN Descriptors[type].scalars ELSE {}
References(type) == IF KnownType(type) THEN DOMAIN Descriptors[type].references ELSE {}
AssignValues(a, s) ==
    FirstCode(<<FirstCode([i \in DOMAIN a.values |-> CheckValue(a.values[i], "assignRef-values", s)]),
                Require(a.mode \in {"replace", "appendUnique", "remove"}, "profile-type")>>)

Reparent(a, phase, s) ==
    LET type == BType(s, a.parent)
    IN  IF a.property = "none" THEN Step(Bound(s, {a.target, a.parent}), s, <<Demand(a.target, <<>>, "reparent")>>)
        ELSE Step(FirstCode(<<Bound(s, {a.target, a.parent}),
                      Require(KnownType(type) => a.property \in DOMAIN Descriptors[type].containment, "profile-type"),
                      Authorize(type, a.property, phase)>>), s,
                  <<Demand(a.parent, <<a.property>>, "reparent"), Demand(a.target, <<>>, "reparent")>>)

Emit(a, s) ==
    FirstCode(<<FirstCode([i \in DOMAIN a.fields |-> CheckValue(a.fields[i].value, "emit-fields", s)]),
                IF Present(a.parentValue) THEN CheckValue(a.parentValue, "emit-parent", s) ELSE "ok">>)

CheckAction(a, phase, s) ==
    CASE a.op = "malformed" -> Step("profile-type", s, <<>>)
      [] a.op \notin ActionOps \cup {"malformed"} -> Step("profile-symbol", s, <<>>)
      [] a.op \in ActionOps /\ phase \notin ActionPhases(a.op) -> Step("profile-action-phase", s, <<>>)
      [] a.op = "bind" -> Bind(a, s, ContextPhase(phase))
      [] a.op = "create" /\ phase \in ActionPhases("create") -> Create(a, phase, s)
      [] a.op \in {"set", "unset"} /\ phase \in WritePhases ->
             Write(a, phase, s, Scalars(BType(s, a.target)),
                   IF a.op = "set" THEN CheckValue(a.value, "set", s) ELSE "ok", a.op)
      [] a.op = "assignRef" /\ phase \in WritePhases ->
             Write(a, phase, s, References(BType(s, a.target)), AssignValues(a, s), "reference")
      [] a.op = "reparent" /\ phase \in ActionPhases("reparent") -> Reparent(a, phase, s)
      [] a.op = "place" /\ phase \in ActionPhases("place") ->
             Step(FirstCode(<<Bound(s, {a.target}), OptionalName(s, a.owner),
                              IF Present(a.related) THEN CheckSelector(a.related, s, ContextPhase(phase)) ELSE "ok">>),
                  s, <<Demand(a.target, <<>>, "placement")>>)
      [] a.op = "emit" /\ phase = "export" -> Step(Emit(a, s), s, <<Demand("self", <<>>, "artifact")>>)
      [] a.op = "loss" /\ phase = "export" ->
             Step(OptionalName(s, a.target), s, IF a.target = "none" THEN <<>> ELSE <<Demand(a.target, <<>>, "report")>>)
      [] a.op = "remove" /\ phase \in ActionPhases("remove") ->
             Step(Bound(s, {a.target}), s, <<Demand(a.target, <<>>, "remove")>>)
      [] a.op = "refuse" -> Step(OptionalName(s, a.target), s, <<>>)
      [] OTHER -> Step("ok", s, <<>>)

-----------------------------------------------------------------------------
(* AST positions of a profile, and the operators used in them              *)
Children(node) ==
    {x \in CASE node.op \in {"all", "any"} -> Range(node.args)
             [] node.op = "not" -> {node.arg}
             [] node.op \in {"present", "stripPrefix", "case", "textPrefix", "set"} -> {node.value}
             [] node.op = "equal" -> {node.left, node.right}
             [] node.op \in {"concat", "assignRef"} -> Range(node.values)
             [] node.op = "count" -> {node.selector}
             [] node.op = "reachable" -> {node.source, node.target}
             [] node.op = "selector" -> {node.where}
             [] node.op = "bind" -> {node.select} \cup Range(node.fallbacks)
             [] node.op = "create" -> {node.key} \cup {node.fields[i].value : i \in DOMAIN node.fields}
             [] node.op = "emit" -> {node.parentValue} \cup {node.fields[i].value : i \in DOMAIN node.fields}
             [] node.op = "place" -> {node.related}
             [] OTHER -> {} : x.op \notin {"none", "malformed"}}
RECURSIVE Nodes(_)
Nodes(ast) == IF ast.op \in {"none", "malformed"} THEN {} ELSE {ast} \cup UNION {Nodes(x) : x \in Children(ast)}
NodesOf(asts) == UNION {Nodes(x) : x \in asts}

RuleAsts(r) == {r.select, r.assert} \cup {r.bindings[i].select : i \in DOMAIN r.bindings}
               \cup UNION {Range(r.bindings[i].fallbacks) : i \in DOMAIN r.bindings}
NotionAsts(n) == {n.recognition} \cup UNION {{n.fields[i].visible, n.fields[i].mutable} : i \in DOMAIN n.fields}
                 \cup {n.renderBindings[i].label : i \in DOMAIN n.renderBindings}
SecondaryAsts(p) == {p.ui[i].when : i \in DOMAIN p.ui} \cup UNION {Range(p.exports[i].whens) : i \in DOMAIN p.exports}
                    \cup UNION {{p.themes[i].select, p.themes[i].label} : i \in DOMAIN p.themes}
ProfileNodes(p) ==
    NodesOf(UNION {NotionAsts(p.notions[i]) : i \in DOMAIN p.notions} \cup UNION {RuleAsts(p.rules[i]) : i \in DOMAIN p.rules}
            \cup UNION {{p.recipes[i].select, p.recipes[i].when} \cup Range(p.recipes[i].steps) : i \in DOMAIN p.recipes}
            \cup SecondaryAsts(p))
OpsOf(p) == {x.op : x \in ProfileNodes(p)} \ {"selector"}

(* _check_op_signatures meets the nodes in no particular order.            *)
SignatureCodes(p) ==
    {IF op \in ValueOps \cup PredicateOps \cup ActionOps THEN "profile-capability" ELSE "profile-symbol" :
        op \in OpsOf(p) \ Signatures}

(* used_families: what the operators, selectors and positions visited      *)
(* require.                                                                *)
UsedFamilies(p) ==
    {CASE op \in ValueOps \cup PredicateOps -> "predicates/1" [] OTHER -> "recipes/1" : op \in OpsOf(p)}
    \cup {"selectors/1" : x \in {y \in ProfileNodes(p) : y.op = "selector"}}
    \cup {"render-data/1" : x \in {y \in ProfileNodes(p) : y.op = "outputId" \/ (y.op = "selector" /\ y.via \in RenderVia)}}
    \cup {"export-ir/1" : x \in OpsOf(p) \cap {"emit", "loss"}}
    \cup (IF p.rules # <<>> \/ p.records # <<>> THEN {"profile-lint/1"} ELSE {})

-----------------------------------------------------------------------------
(* References between sections                                             *)
Ids(entries) == {entries[i].id : i \in DOMAIN entries}
Unique(entries) == Cardinality(Ids(entries)) = Len(entries)
All(entries, Check(_)) == FirstCode([i \in DOMAIN entries |-> Check(entries[i])])
Maybe(set) == set \cup {"none"}

(* visit: a depth-first search that reports an edge back into its path.    *)
RECURSIVE Cyclic(_, _, _)
Cyclic(edges, n, active) ==
    n \in active \/ \E t \in edges[n] \cap DOMAIN edges : Cyclic(edges, t, active \cup {n})
HasCycle(edges) == \E n \in DOMAIN edges : Cyclic(edges, n, {})

(* A notion may recognize itself.                                          *)
Recognized(ast) == {x.notion : x \in {y \in Nodes(ast) : y.op = "recognizes"}}
NotionById(p, id) == p.notions[CHOOSE i \in DOMAIN p.notions : p.notions[i].id = id]
RecognitionEdges(p) == [id \in Ids(p.notions) |-> Recognized(NotionById(p, id).recognition) \ {id}]

Theme(p, id) == p.themes[CHOOSE i \in DOMAIN p.themes : p.themes[i].id = id]
FallbackEdges(p) == [id \in Ids(p.themes) |-> {Theme(p, id).fallback} \ {"none"}]
RenderBinding(p, b) == Require(b.theme \in Ids(p.themes) /\ b.glyph \in Theme(p, b.theme).glyphs, "profile-symbol")
NotionRefs(p, n) ==
    FirstCode(<<Require(n.createRecipe \in Maybe(Ids(p.recipes)) /\ n.referenceRecipes \subseteq Ids(p.recipes)
                        /\ \A i \in DOMAIN n.fields : /\ n.fields[i].command \in Maybe(Ids(p.recipes))
                                                     /\ n.fields[i].label \in Maybe(p.messages), "profile-symbol"),
                All(n.renderBindings, LAMBDA b : RenderBinding(p, b))>>)
ClosedRefs(p) ==
    FirstCode(<<All(p.notions, LAMBDA n : NotionRefs(p, n)),
                All(p.themes, LAMBDA t : Require(/\ t.fallback \in Maybe(Ids(p.themes))
                                                 /\ t.metrics \in Maybe(p.resources), "profile-symbol")),
                Require(~HasCycle(FallbackEdges(p)), "profile-cycle"),
                All(p.rules, LAMBDA r : Require(/\ r.message \in p.messages
                                                /\ r.repairRecipe \in Maybe(Ids(p.recipes)), "profile-symbol")),
                All(p.ui, LAMBDA u : Require(u.recipe \in Ids(p.recipes), "profile-symbol")),
                All(p.exports, LAMBDA e : Require(Range(e.recipes) \subseteq Ids(p.recipes), "profile-symbol"))>>)

(* The writes declared are those demanded, with their multiplicity.        *)
Count(writes, d) == Cardinality({i \in DOMAIN writes : writes[i] = d})
SameWrites(declared, required) ==
    \A d \in Range(declared) \cup Range(required) : Count(declared, d) = Count(required, d)
WriteSets(p) == All(p.recipes, LAMBDA r : Require(SameWrites(r.writes, demands[r.id]), "profile-write-set"))

PhaseOf(p, id) == p.recipes[CHOOSE i \in DOMAIN p.recipes : p.recipes[i].id = id].phase
ExportPhases(p) ==
    All(p.exports, LAMBDA e : All(e.recipes, LAMBDA id : Require(PhaseOf(p, id) = "export", "profile-type")))
MigrationPhases(p) ==
    All(p.migrations, LAMBDA m : All(m.recipes, LAMBDA id :
        IF id \notin Ids(p.recipes) THEN "profile-symbol" ELSE Require(PhaseOf(p, id) = "migrate", "profile-type")))
Endpoints(p) ==
    All(p.migrations, LAMBDA m : Require(m.to = "self" /\ m.from # p.digest, "profile-migration-endpoint"))

-----------------------------------------------------------------------------
(* Sections, in the order of compile_profile                               *)
Refuse(c) == stage' = "refused" /\ refusal' = c /\ UNCHANGED <<profile, at, step, scope, demands>>
Section(code, next) == \E c \in {code} :
    IF c # "ok" THEN Refuse(c)
    ELSE stage' = next /\ at' = 1 /\ step' = 0 /\ UNCHANGED <<profile, scope, demands, refusal>>
Checked(c, s, k) ==
    IF c # "ok" THEN Refuse(c) ELSE scope' = s /\ step' = k /\ UNCHANGED <<profile, stage, at, demands, refusal>>
Following == at' = at + 1 /\ step' = 0

CapabilityCodes(p) ==
    Require(Cardinality(Range(p.capabilities)) = Len(p.capabilities) /\ Range(p.capabilities) \subseteq KnownCapabilities,
            "profile-capability")
IdCodes(p) == Require(Unique(p.notions) /\ Unique(p.recipes) /\ Unique(p.rules), "profile-symbol")
KindCodes(p) == All(p.notions, LAMBDA n : Require(n.facet # n.group, "profile-notion-kind"))
CompileHeader ==
    /\ stage = "header"
    /\ LET c == FirstCode(<<CapabilityCodes(profile), IdCodes(profile), KindCodes(profile)>>)
       IN  IF c # "ok" THEN Refuse(c)
           ELSE IF SignatureCodes(profile) # {} THEN \E s \in SignatureCodes(profile) : Refuse(s)
           ELSE Section(Require(EffectiveProducers(profile).ok, "profile-producer"), "notions")

(* Notions: recognition, field gates and labels, on the one native type.   *)
RuleNames == {"root", "self", "bindingOwner"}
NotionScope(n) ==
    Typed(Scope(RuleNames, NoTypes, NoTypes), "self", IF Len(n.nativeTypes) = 1 THEN n.nativeTypes[1] ELSE "native")
Gate(ast, s) == IF Present(ast) THEN CheckPredicate(ast, s, "rule") ELSE "ok"
NotionCodes(n) ==
    FirstCode(<<Gate(n.recognition, NotionScope(n)),
                All(n.fields, LAMBDA f : FirstCode(<<Gate(f.visible, NotionScope(n)), Gate(f.mutable, NotionScope(n))>>)),
                All(n.renderBindings, LAMBDA b : IF Present(b.label) THEN CheckValue(b.label, "predicate", NotionScope(n))
                                                 ELSE "ok")>>)
CompileNotions == stage = "notions" /\ Section(All(profile.notions, NotionCodes), "rules")

(* Rules: the selection, each binding in turn, the assertion.              *)
Rule == profile.rules[at]
InRules == stage = "rules" /\ at <= Len(profile.rules)
OpenRule ==
    /\ InRules /\ step = 0
    /\ LET s == Scope(RuleNames, NoTypes, NoTypes)
       IN  Checked(CheckSelector(Rule.select, s, "rule"), Typed(s, "self", SelectorType(Rule.select, s)), 1)
BindRule ==
    /\ InRules /\ step \in 1..Len(Rule.bindings)
    /\ \E b \in {Bind(Rule.bindings[step], scope, "rule")} : Checked(b.code, b.scope, step + 1)
AssertRule ==
    /\ InRules /\ step = Len(Rule.bindings) + 1
    /\ \E c \in {CheckPredicate(Rule.assert, scope, "rule")} :
           IF c # "ok" THEN Refuse(c) ELSE Following /\ UNCHANGED <<profile, stage, scope, demands, refusal>>
CloseRules == stage = "rules" /\ at > Len(profile.rules) /\ Section("ok", "recipes")

(* Recipes: parameters and selection, each step in turn.                   *)
Recipe == profile.recipes[at]
InRecipes == stage = "recipes" /\ at <= Len(profile.recipes)
Elements(r) == {r.parameters[i].name : i \in {j \in DOMAIN r.parameters : r.parameters[j].type = "element"}}
RecipeScope(r) ==
    Scope({"root", "self"} \cup Elements(r) \cup (IF r.phase = "export" THEN {"render"} ELSE {}),
          [n \in Elements(r) |-> "native"],
          [n \in {r.parameters[i].name : i \in DOMAIN r.parameters} |->
              r.parameters[CHOOSE i \in DOMAIN r.parameters : r.parameters[i].name = n].type])
SelfScope(r) == Typed(RecipeScope(r), "self", SelectorType(r.select, RecipeScope(r)))
RecipeCodes(r) ==
    IF r.phase \notin Phases THEN "profile-action-phase"
    ELSE FirstCode(<<Require(Cardinality(DOMAIN RecipeScope(r).params) = Len(r.parameters), "profile-symbol"),
                     CheckSelector(r.select, RecipeScope(r), ContextPhase(r.phase)),
                     IF Present(r.when) THEN CheckPredicate(r.when, SelfScope(r), ContextPhase(r.phase)) ELSE "ok",
                     Require(r.steps # <<>>, "profile-type")>>)
OpenRecipe ==
    /\ InRecipes /\ step = 0
    /\ \E c \in {RecipeCodes(Recipe)} :
       IF c # "ok" THEN Refuse(c)
       ELSE /\ scope' = SelfScope(Recipe) /\ step' = 1
            /\ demands' = [id \in DOMAIN demands \cup {Recipe.id} |-> IF id = Recipe.id THEN <<>> ELSE demands[id]]
            /\ UNCHANGED <<profile, stage, at, refusal>>
WalkStep ==
    /\ InRecipes /\ step \in 1..Len(Recipe.steps)
    /\ \E r \in {CheckAction(Recipe.steps[step], Recipe.phase, scope)} :
           IF r.code # "ok" THEN Refuse(r.code)
           ELSE /\ scope' = r.scope /\ step' = step + 1
                /\ demands' = [demands EXCEPT ![Recipe.id] = @ \o r.writes]
                /\ UNCHANGED <<profile, stage, at, refusal>>
CloseRecipe ==
    /\ InRecipes /\ step = Len(Recipe.steps) + 1
    /\ Following /\ UNCHANGED <<profile, stage, scope, demands, refusal>>
CloseRecipes == stage = "recipes" /\ at > Len(profile.recipes) /\ Section("ok", "secondary")

(* Gates and theme occurrences share one plain scope; then every family    *)
(* used must be declared.                                                  *)
PlainScope == Scope({"root", "self"}, NoTypes, NoTypes)
SecondaryCodes(p) ==
    FirstCode(<<All(p.ui, LAMBDA u : Gate(u.when, PlainScope)),
                All(p.exports, LAMBDA e : All(e.whens, LAMBDA w : Gate(w, PlainScope))),
                All(p.themes, LAMBDA t : FirstCode(<<
                    IF Present(t.select) THEN CheckSelector(t.select, PlainScope, "rule") ELSE "ok",
                    IF Present(t.label) THEN CheckValue(t.label, "predicate", PlainScope) ELSE "ok">>)),
                Require(UsedFamilies(p) \subseteq Range(p.capabilities), "profile-capability")>>)
CompileSecondary == stage = "secondary" /\ Section(SecondaryCodes(profile), "references")

ReferenceCodes(p) ==
    IF HasCycle(RecognitionEdges(p)) THEN "profile-cycle"
    ELSE IF ClosedRefs(p) # "ok" THEN ClosedRefs(p)
    ELSE FirstCode(<<WriteSets(p), ExportPhases(p), MigrationPhases(p), Endpoints(p)>>)
CompileReferences == stage = "references" /\ Section(ReferenceCodes(profile), "compiled")

CompileInit ==
    /\ at = 1 /\ step = 0 /\ scope = Scope({}, NoTypes, NoTypes)
    /\ demands = [id \in {} |-> <<>>] /\ refusal = "ok"
Compile ==
    \/ CompileHeader \/ CompileNotions \/ OpenRule \/ BindRule \/ AssertRule \/ CloseRules
    \/ OpenRecipe \/ WalkStep \/ CloseRecipe \/ CloseRecipes \/ CompileSecondary \/ CompileReferences
=============================================================================
