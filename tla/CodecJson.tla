------------------------------ MODULE CodecJson ------------------------------
(***************************************************************************)
(* bpmn_io/codec/json.py and codec/serialize.py: a JSON document becomes a *)
(* native tree (hydrate), which is then projected back to JSON (project)   *)
(* or walked by the O1 gate of serialize_xml before the writer is called.  *)
(*                                                                         *)
(* hydrate validates the whole document with a stack, measures it, builds  *)
(* the elements depth first, indexes the typed ids, and resolves the       *)
(* references last.  The first refusal ends the call.                      *)
(*                                                                         *)
(* JSON values are records told apart by their fields: [s], [n], [nan],    *)
(* [null], [items], and objects [id, members], id being the identity of    *)
(* the object and members its pairs in order.  Native values are the same, *)
(* with [el] for an element.  A path is the sequence of its segments, the  *)
(* root's is empty.  Wording and the key order of the output are left out, *)
(* sizes count one unit per atom.                                          *)
(***************************************************************************)
EXTENDS Naturals, Sequences, SequencesExt, FiniteSets, TLC

CONSTANTS
    Documents,    \* the documents given to hydrate
    Descriptor,   \* type -> its properties [name, names, type, many, ref]
    Supers,       \* type -> all_types_by_name of its descriptor
    Limits,       \* [nodes, depth, attrs, value, name, size, warnings]
    Units,        \* UTF-16 units of the long strings, the others have one
    ReservedNames,
    Prefixed,     \* well-formed names with a prefix
    Malformed,    \* malformed qualified names
    Numerals,     \* strings parse_int and parse_float read as a number
    Unclean       \* strings with a character XML cannot carry

VARIABLES
    document,     \* the document, never changes
    phase,        \* of the call: see Phases
    refusal,      \* its diagnostic and phase, NoFault when there is none
    stack,        \* frames of the walk under way
    seen,         \* what that walk has visited
    heap,         \* the native elements, in order of their creation
    pending,      \* references to resolve
    index,        \* typed id -> element
    json,         \* element -> its projection
    diagnostics   \* the ones an accepted call reports, or the gate's
jsonVars == <<document, phase, refusal, stack, seen, heap, pending, index, json, diagnostics>>

Phases == {"idle", "validating", "indexing", "resolving", "hydrated",
           "projecting", "projected", "checking", "checked", "refused"}
NoFault == [code |-> "none", path |-> <<>>, during |-> "idle"]
Fault(code, path) == <<[code |-> code, path |-> path]>>
OnlyIf(condition, faults) == IF condition THEN faults ELSE <<>>

-----------------------------------------------------------------------------
(* Values                                                                  *)
Text(s) == [s |-> s]
List(items) == [items |-> items]
Element(e) == [el |-> e]
IsText(v) == "s" \in DOMAIN v
IsList(v) == "items" \in DOMAIN v
IsObject(v) == "members" \in DOMAIN v
IsElement(v) == "el" \in DOMAIN v
Keys(v) == {v.members[i][1] : i \in DOMAIN v.members}
Member(v, key) == v.members[CHOOSE i \in DOMAIN v.members : v.members[i][1] = key][2]
Units16(s) == IF s \in DOMAIN Units THEN Units[s] ELSE 1
Items(v, path) == IF IsList(v) THEN [i \in DOMAIN v.items |-> [value |-> v.items[i], path |-> Append(path, ToString(i - 1))]]
                  ELSE <<[value |-> v, path |-> path]>>
Each(seq, op(_)) == FlattenSeq([i \in DOMAIN seq |-> op(seq[i])])

Types == DOMAIN Descriptor
Candidates(type, key) == {p \in Range(Descriptor[type]) : key \in p.names}
Known(type, key) == Candidates(type, key) # {}
Property(type, key) == CHOOSE p \in Candidates(type, key) : TRUE
SlotKind(prop) ==
    IF prop.ref THEN "reference"
    ELSE IF prop.type = "Element" \/ prop.type \in Types THEN "containment" ELSE "scalar"

-----------------------------------------------------------------------------
(* _Validator: the refusals of one node, in the order they are met         *)
ValueFaults(s, path) == OnlyIf(Units16(s) > Limits.value, Fault("xml-attribute-length-limit", path))
NameFaults(s, path) == OnlyIf(Units16(s) > Limits.name, Fault("xml-attribute-length-limit", path))
CountFaults(n, path) == OnlyIf(n > Limits.attrs, Fault("xml-attribute-count-limit", path))

IsReference(v) == IsObject(v) /\ Keys(v) = {"$ref"} /\ IsText(Member(v, "$ref"))
ReferenceFaults(v, path) ==
    IF IsReference(v) THEN ValueFaults(Member(v, "$ref").s, path) ELSE Fault("descriptor-mismatch", path)
IsAny(v) == "$type" \in Keys(v) /\ Member(v, "$type") = Text("$any")

ItemFaults(v, prop, path) ==
    CASE SlotKind(prop) = "reference" -> ReferenceFaults(v, path)
      [] SlotKind(prop) # "reference" /\ IsObject(v) ->
             OnlyIf(SlotKind(prop) = "scalar" \/ "$ref" \in Keys(v) \/ (IsAny(v) /\ prop.type # "Element"),
                    Fault("descriptor-mismatch", path))
      [] OTHER ->
             OnlyIf(SlotKind(prop) = "containment" \/ IsList(v), Fault("descriptor-mismatch", path))
             \o OnlyIf("nan" \in DOMAIN v, Fault("invalid-any", path))
             \o (IF IsText(v) THEN ValueFaults(v.s, path) ELSE <<>>)
SlotFaults(v, prop, path) ==
    OnlyIf(IsList(v) /\ ~prop.many, Fault("descriptor-mismatch", path))
    \o Each(Items(v, path), LAMBDA item : ItemFaults(item.value, prop, item.path))

ForeignFaults(key, v, path) ==
    CASE key \in ReservedNames -> Fault("reserved-name", Append(path, key))
      [] key \notin ReservedNames /\ ~IsText(v) -> Fault("invalid-any", Append(path, key))
      [] OTHER -> NameFaults(key, path) \o ValueFaults(v.s, path)

KeyPath(path, key) == IF path = <<>> THEN <<"$attrs">> ELSE path \o <<"$attrs", key>>
AttrsFaults(v, path) ==
    IF ~IsObject(v) THEN Fault("invalid-any", path)
    ELSE CountFaults(Cardinality(Keys(v)), path)
         \o Each(v.members, LAMBDA m : OnlyIf(m[1] \in ReservedNames, Fault("reserved-name", path \o <<"$attrs", m[1]>>)))
         \o Each(v.members, LAMBDA m : IF ~IsText(m[2]) THEN Fault("invalid-any", KeyPath(path, m[1]))
                                       ELSE NameFaults(m[1], KeyPath(path, m[1])) \o ValueFaults(m[2].s, KeyPath(path, m[1])))

TypedFaults(v, path) ==
    LET type == Member(v, "$type").s
        OfMember(m) ==
            CASE m[1] \in {"$type", "$attrs"} -> <<>>
              [] Known(type, m[1]) -> SlotFaults(m[2], Property(type, m[1]), Append(path, m[1]))
              [] OTHER -> ForeignFaults(m[1], m[2], path)
    IN  IF type \notin Types THEN Fault("descriptor-mismatch", path)
        ELSE Each(v.members, OfMember) \o (IF "$attrs" \in Keys(v) THEN AttrsFaults(Member(v, "$attrs"), path) ELSE <<>>)

IsName(v) ==
    IsObject(v) /\ Keys(v) = {"qname", "uri"} /\ \A key \in Keys(v) : IsText(Member(v, key))
AnyNameFaults(v, path) ==
    IF ~("$name" \in Keys(v) /\ IsName(Member(v, "$name"))) THEN Fault("invalid-any", path)
    ELSE LET qname == Member(Member(v, "$name"), "qname").s
             uri == Member(Member(v, "$name"), "uri").s
         IN  NameFaults(qname, path) \o NameFaults(uri, path)
             \o OnlyIf(qname \in Malformed, Fault("malformed-qname", path))
             \o OnlyIf(qname \in Prefixed /\ uri = "", Fault("invalid-namespace", path))
AnyFaults(v, path) ==
    OnlyIf(~(Keys(v) \subseteq {"$type", "$name", "$attrs", "$body", "$children"}), Fault("invalid-any", path))
    \o AnyNameFaults(v, path)
    \o (IF "$attrs" \in Keys(v) THEN AttrsFaults(Member(v, "$attrs"), path) ELSE Fault("invalid-any", path))
    \o (IF "$body" \notin Keys(v) THEN <<>> ELSE IF ~IsText(Member(v, "$body")) THEN Fault("invalid-any", path)
        ELSE ValueFaults(Member(v, "$body").s, path))
    \o OnlyIf("$children" \in Keys(v) /\ ~IsList(Member(v, "$children")), Fault("invalid-any", path))

NodeFaults(v, path, depth) ==
    IF ~IsObject(v) THEN Fault("invalid-any", path)
    ELSE OnlyIf(v.id \in seen, Fault("descriptor-mismatch", path))
         \o OnlyIf(depth > Limits.depth, Fault("xml-depth-limit", path))
         \o OnlyIf(Cardinality(seen) + 1 > Limits.nodes, Fault("xml-element-count-limit", path))
         \o (IF ~("$type" \in Keys(v) /\ IsText(Member(v, "$type"))) THEN Fault("invalid-any", path)
             ELSE NameFaults(Member(v, "$type").s, path) \o (IF IsAny(v) THEN AnyFaults(v, path) ELSE TypedFaults(v, path)))

(* The nodes an accepted node contains, in the order they are queued.      *)
ContainedNodes(v, path, depth) ==
    LET frame(item) == [value |-> item.value, path |-> item.path, depth |-> depth + 1]
        objects(items) == [i \in DOMAIN SelectSeq(items, LAMBDA x : IsObject(x.value)) |->
                               frame(SelectSeq(items, LAMBDA x : IsObject(x.value))[i])]
        OfMember(m) ==
            LET type == Member(v, "$type").s
            IN  IF Known(type, m[1]) /\ SlotKind(Property(type, m[1])) = "containment"
                THEN objects(Items(m[2], Append(path, m[1]))) ELSE <<>>
    IN  IF ~IsAny(v) THEN Each(v.members, OfMember)
        ELSE IF "$children" \notin Keys(v) THEN <<>>
        ELSE Each(Items(Member(v, "$children"), Append(path, "$children")), LAMBDA item : <<frame(item)>>)

Refuse(fault) ==
    /\ phase' = "refused" /\ refusal' = [code |-> fault.code, path |-> fault.path, during |-> phase]
    /\ UNCHANGED <<document, stack, seen, heap, pending, index, json, diagnostics>>

Validate ==
    /\ phase = "validating" /\ stack # <<>>
    /\ LET top == Last(stack)
           faults == NodeFaults(top.value, top.path, top.depth)
       IN  IF faults # <<>> THEN Refuse(Head(faults))
           ELSE /\ stack' = Front(stack) \o ContainedNodes(top.value, top.path, top.depth)
                /\ seen' = seen \cup {top.value.id}
                /\ UNCHANGED <<document, phase, refusal, heap, pending, index, json, diagnostics>>

(* canonical_size: delimiters, commas, keys and atoms, the latter one unit *)
RECURSIVE CanonicalSize(_)
CanonicalSize(v) ==
    LET commas(n) == IF n = 0 THEN 2 ELSE n + 1
        Sum(seq) == FoldLeft(LAMBDA total, x : total + x, 0, seq)
    IN  CASE IsList(v) -> commas(Len(v.items)) + Sum([i \in DOMAIN v.items |-> CanonicalSize(v.items[i])])
          [] IsObject(v) -> commas(Len(v.members)) + Sum([i \in DOMAIN v.members |-> 2 + CanonicalSize(v.members[i][2])])
          [] OTHER -> 1

-----------------------------------------------------------------------------
(* _Builder: b is [heap, pending, faults]                                  *)
Nothing == [x \in {} |-> Text("")]
NewElement(type, uri, generic, parent) ==
    [type |-> type, uri |-> uri, generic |-> generic, slots |-> Nothing, order |-> <<>>, attrs |-> Nothing, parent |-> parent]
(* order: the slots that are set, as vars() lists them.                    *)
SetSlot(h, e, name, v) ==
    [h EXCEPT ![e].slots = (name :> v) @@ @, ![e].order = IF Contains(@, name) THEN @ ELSE Append(@, name)]
UnsetSlot(h, e, name) ==
    [h EXCEPT ![e].slots = [x \in DOMAIN @ \ {name} |-> @[x]], ![e].order = SelectSeq(@, LAMBDA x : x # name)]
(* element.get of a many slot: made a list when it holds nothing.          *)
Collection(h, e, name) == IF name \in DOMAIN h[e].slots THEN h[e].slots[name] ELSE List(<<>>)
AppendFirst(h, e, name, v) == SetSlot(h, e, name, List(<<v>> \o Collection(h, e, name).items))
AppendTo(h, e, name, v) == SetSlot(h, e, name, List(Append(Collection(h, e, name).items, v)))

(* element.set: a known property's slot, or else a foreign attribute       *)
SetMember(h, e, key, v) ==
    IF Known(h[e].type, key) THEN SetSlot(h, e, Property(h[e].type, key).name, v)
    ELSE [h EXCEPT ![e].attrs = (key :> v) @@ @]

(* _coerce_simple: parse_int and parse_float give NaN, a boolean is total. *)
Coerced(prop, v) ==
    CASE IsText(v) /\ prop.type \in {"Integer", "Real"} ->
             IF v.s \in Numerals THEN [n |-> v.s] ELSE [nan |-> TRUE]
      [] IsText(v) /\ prop.type = "Boolean" -> [boolean |-> v.s = "true"]
      [] OTHER -> v

FillReference(b, e, prop, v, path) ==
    LET cleared == IF prop.many THEN SetSlot(b.heap, e, prop.name, List(<<>>)) ELSE UnsetSlot(b.heap, e, prop.name)
        Queue(c, item) ==
            IF IsReference(item.value)
            THEN [c EXCEPT !.pending = Append(@, [element |-> e, prop |-> prop, ref |-> Member(item.value, "$ref").s,
                                                  path |-> item.path])]
            ELSE [c EXCEPT !.faults = @ \o Fault("descriptor-mismatch", item.path)]
    IN  FoldLeft(Queue, [b EXCEPT !.heap = cleared], Items(v, path))
FillScalar(b, e, prop, v, path) ==
    LET Add(c, item) == [c EXCEPT !.heap = AppendTo(@, e, prop.name, Coerced(prop, item.value))]
    IN  IF prop.many /\ v = List(<<>>) THEN [b EXCEPT !.heap = SetSlot(@, e, prop.name, List(<<>>))]
        ELSE IF prop.many THEN FoldLeft(Add, b, Items(v, path))
        ELSE [b EXCEPT !.heap = SetSlot(@, e, prop.name, Coerced(prop, Head(Items(v, path)).value))]

RECURSIVE Build(_, _, _, _)
(* The element built for a node is the next of the heap, its parent known. *)
FillContainment(b, e, prop, v, path) ==
    LET Fill(c, item) ==
            LET child == Len(c.heap) + 1
                built == Build(c, item.value, item.path, e)
            IN  IF ~IsObject(item.value) THEN [c EXCEPT !.faults = @ \o Fault("descriptor-mismatch", item.path)]
                ELSE IF prop.many THEN [built EXCEPT !.heap = AppendTo(@, e, prop.name, Element(child))]
                ELSE [built EXCEPT !.heap = SetSlot(@, e, prop.name, Element(child))]
    IN  IF prop.many /\ v = List(<<>>) THEN [b EXCEPT !.heap = SetSlot(@, e, prop.name, List(<<>>))]
        ELSE FoldLeft(Fill, b, Items(v, path))
FillSlot(b, e, prop, v, path) ==
    CASE SlotKind(prop) = "reference" -> FillReference(b, e, prop, v, path)
      [] SlotKind(prop) = "scalar" -> FillScalar(b, e, prop, v, path)
      [] OTHER -> FillContainment(b, e, prop, v, path)

BuildTyped(b, v, path, parent) ==
    LET type == Member(v, "$type").s
        e == Len(b.heap) + 1
        attrs == IF "$attrs" \in Keys(v) THEN Member(v, "$attrs").members ELSE <<>>
        Fill(c, m) ==
            CASE m[1] \in {"$type", "$attrs"} -> c
              [] Known(type, m[1]) -> FillSlot(c, e, Property(type, m[1]), m[2], Append(path, m[1]))
              [] OTHER -> [c EXCEPT !.heap = SetMember(@, e, m[1], m[2])]
        Extend(c, m) == [c EXCEPT !.heap = SetMember(@, e, m[1], m[2])]
    IN  IF type \notin Types THEN [b EXCEPT !.faults = @ \o Fault("descriptor-mismatch", path)]
        ELSE FoldLeft(Extend, FoldLeft(Fill, [b EXCEPT !.heap = Append(@, NewElement(type, "", FALSE, parent))], v.members), attrs)

BuildAny(b, v, path, parent) ==
    LET name == Member(v, "$name")
        e == Len(b.heap) + 1
        created == [b EXCEPT !.heap = Append(@, NewElement(Member(name, "qname").s, Member(name, "uri").s, TRUE, parent))]
        Put(c, m) == [c EXCEPT !.heap = SetSlot(@, e, m[1], m[2])]
        filled == FoldLeft(Put, created, Member(v, "$attrs").members
                                         \o (IF "$body" \in Keys(v) THEN <<<<"$body", Member(v, "$body")>>>> ELSE <<>>))
        Fill(c, item) ==
            [Build(c, item.value, item.path, e) EXCEPT !.heap = AppendTo(@, e, "$children", Element(Len(c.heap) + 1))]
    IN  IF "$children" \notin Keys(v) THEN filled
        ELSE FoldLeft(Fill, [filled EXCEPT !.heap = SetSlot(@, e, "$children", List(<<>>))],
                      Items(Member(v, "$children"), Append(path, "$children")))
Build(b, v, path, parent) == IF IsAny(v) THEN BuildAny(b, v, path, parent) ELSE BuildTyped(b, v, path, parent)

Built == Build([heap |-> <<>>, pending |-> <<>>, faults |-> <<>>], document, <<>>, 0)

(* The measure of the validated input, then the whole construction.        *)
BuildTree ==
    /\ phase = "validating" /\ stack = <<>>
    /\ IF CanonicalSize(document) > Limits.size THEN Refuse([code |-> "xml-input-size-limit", path |-> <<>>])
       ELSE IF Built.faults # <<>> THEN Refuse(Head(Built.faults))
       ELSE /\ heap' = Built.heap /\ pending' = Built.pending
            /\ phase' = "indexing" /\ stack' = <<[el |-> 1, path |-> <<>>]>> /\ seen' = {}
            /\ UNCHANGED <<document, refusal, index, json, diagnostics>>

-----------------------------------------------------------------------------
(* _index_ids and _resolve                                                 *)
NoId == ""
IdOf(e) ==   \* element_target
    IF ~heap[e].generic /\ "id" \in DOMAIN heap[e].slots /\ IsText(heap[e].slots["id"]) THEN heap[e].slots["id"].s ELSE NoId
(* The elements in a slot, in order.                                       *)
Held(v, path) == SelectSeq(Items(v, path), LAMBDA item : IsElement(item.value))
ChildFrames(e, path) ==
    LET slots == heap[e].slots
        frames(name) == [i \in DOMAIN Held(slots[name], Append(path, name)) |->
                            [el |-> Held(slots[name], Append(path, name))[i].value.el,
                             path |-> Held(slots[name], Append(path, name))[i].path]]
        OfProperty(p) == IF p.ref \/ p.name \notin DOMAIN slots THEN <<>> ELSE frames(p.name)
    IN  IF heap[e].generic THEN IF "$children" \in DOMAIN slots THEN frames("$children") ELSE <<>>
        ELSE Each(Descriptor[heap[e].type], OfProperty)

IndexNext ==
    /\ phase = "indexing" /\ stack # <<>>
    /\ LET top == Last(stack)
           id == IdOf(top.el)
       IN  IF id # NoId /\ id \in DOMAIN index THEN Refuse([code |-> "xml-invalid", path |-> top.path])
           ELSE /\ index' = IF id = NoId THEN index ELSE (id :> top.el) @@ index
                /\ stack' = Front(stack) \o ChildFrames(top.el, top.path)
                /\ UNCHANGED <<document, phase, refusal, seen, heap, pending, json, diagnostics>>
Indexed ==
    /\ phase = "indexing" /\ stack = <<>>
    /\ phase' = "resolving"
    /\ UNCHANGED <<document, refusal, stack, seen, heap, pending, index, json, diagnostics>>

Assignable(prop, e) == prop.type = "Element" \/ prop.type \in Supers[heap[e].type]
(* An append to what is no list any more is lost.                          *)
Linked(r) ==
    IF ~r.prop.many THEN SetSlot(heap, r.element, r.prop.name, Element(index[r.ref]))
    ELSE IF ~IsList(Collection(heap, r.element, r.prop.name)) THEN heap
    ELSE AppendTo(heap, r.element, r.prop.name, Element(index[r.ref]))
ResolveNext ==
    /\ phase = "resolving" /\ pending # <<>>
    /\ LET r == Head(pending)
       IN  IF r.ref \in DOMAIN index /\ ~Assignable(r.prop, index[r.ref])
           THEN Refuse([code |-> "descriptor-mismatch", path |-> r.path])
           ELSE /\ pending' = Tail(pending)
                /\ heap' = IF r.ref \in DOMAIN index THEN Linked(r) ELSE heap
                /\ diagnostics' = IF r.ref \in DOMAIN index THEN diagnostics
                                  ELSE diagnostics \o Fault("moddle-warning", r.path)
                /\ UNCHANGED <<document, phase, refusal, stack, seen, index, json>>

CapDiagnostics(d) ==
    IF Len(d) <= Limits.warnings THEN d
    ELSE SubSeq(d, 1, Limits.warnings) \o Fault("moddle-warning-truncated", d[Limits.warnings + 1].path)
Hydrated ==
    /\ phase = "resolving" /\ pending = <<>>
    /\ phase' = "hydrated" /\ diagnostics' = CapDiagnostics(diagnostics)
    /\ UNCHANGED <<document, refusal, stack, seen, heap, pending, index, json>>

-----------------------------------------------------------------------------
(* _Projector: post-order, a frame is expanded when its children are done. *)
(* A projection is [fields], a function from keys to projected values.     *)
ReferenceValueFaults(v, path) ==
    Each(Items(v, path), LAMBDA item : OnlyIf(~IsElement(item.value) \/ IdOf(item.value.el) = NoId,
                                              Fault("descriptor-mismatch", path)))
ProjectedReference(v) ==
    LET refer(x) == [fields |-> ("$ref" :> Text(IdOf(x.el)))]
    IN  IF IsList(v) THEN List([i \in DOMAIN v.items |-> refer(v.items[i])]) ELSE refer(v)
ProjectedFaults(v, path) ==
    Each(Items(v, path), LAMBDA item : OnlyIf("nan" \in DOMAIN item.value, Fault("invalid-any", item.path))
                                       \o (IF IsText(item.value) THEN ValueFaults(item.value.s, item.path) ELSE <<>>))
ProjectedValue(v) ==
    LET inner(x) == IF IsElement(x) THEN json[x.el] ELSE x
    IN  IF IsList(v) THEN List([i \in DOMAIN v.items |-> inner(v.items[i])]) ELSE inner(v)
PairsFaults(pairs, path) ==
    Each(SetToSeq(DOMAIN pairs), LAMBDA key : OnlyIf(~IsText(pairs[key]), Fault("invalid-any", path))
                                             \o NameFaults(key, path)
                                             \o (IF IsText(pairs[key]) THEN ValueFaults(pairs[key].s, path) ELSE <<>>))
    \o CountFaults(Cardinality(DOMAIN pairs), path)

AnyAttrs(e) == [key \in DOMAIN heap[e].slots \ {"$body", "$children"} |-> heap[e].slots[key]]
AssembleFaults(e, path) ==
    LET slots == heap[e].slots
        OfProperty(p) ==
            IF p.name \notin DOMAIN slots THEN <<>>
            ELSE IF p.ref THEN ReferenceValueFaults(slots[p.name], Append(path, p.name))
            ELSE ProjectedFaults(slots[p.name], Append(path, p.name))
    IN  IF heap[e].generic
        THEN NameFaults(heap[e].type, path) \o NameFaults(heap[e].uri, path) \o PairsFaults(AnyAttrs(e), path)
             \o (IF "$body" \in DOMAIN slots THEN ProjectedFaults(slots["$body"], path) ELSE <<>>)
        ELSE Each(Descriptor[heap[e].type], OfProperty) \o PairsFaults(heap[e].attrs, path)
Assembled(e) ==
    LET slots == heap[e].slots
        typed == ("$type" :> Text(heap[e].type)) @@ ("$attrs" :> [fields |-> heap[e].attrs])
                 @@ [name \in DOMAIN slots |->
                        IF Property(heap[e].type, name).ref THEN ProjectedReference(slots[name]) ELSE ProjectedValue(slots[name])]
        generic == ("$type" :> Text("$any")) @@ ("$attrs" :> [fields |-> AnyAttrs(e)])
                   @@ ("$name" :> [fields |-> ("qname" :> Text(heap[e].type)) @@ ("uri" :> Text(heap[e].uri))])
                   @@ [name \in DOMAIN slots \cap {"$body", "$children"} |-> ProjectedValue(slots[name])]
    IN  [fields |-> IF heap[e].generic THEN generic ELSE typed]
Mixed(e) == heap[e].generic /\ {"$body", "$children"} \subseteq DOMAIN heap[e].slots

ProjectFrame(child, depth) == [el |-> child.el, path |-> child.path, depth |-> depth, expanded |-> FALSE]
Project ==
    /\ phase = "hydrated"
    /\ phase' = "projecting" /\ stack' = <<ProjectFrame([el |-> 1, path |-> <<>>], 1)>> /\ seen' = {} /\ diagnostics' = <<>>
    /\ UNCHANGED <<document, refusal, heap, pending, index, json>>
EnterFrom0(e, path, depth) ==
    OnlyIf(e \in seen, Fault("descriptor-mismatch", path))
    \o OnlyIf(Cardinality(seen) + 1 > Limits.nodes, Fault("xml-element-count-limit", path))
    \o OnlyIf(depth + 1 > Limits.depth, Fault("xml-depth-limit", path))
EnterFaults(e, path, depth) ==
    OnlyIf(e \in seen, Fault("descriptor-mismatch", path))
    \o OnlyIf(Cardinality(seen) + 1 > Limits.nodes, Fault("xml-element-count-limit", path))
    \o OnlyIf(depth > Limits.depth, Fault("xml-depth-limit", path))
Expand ==
    /\ phase = "projecting" /\ stack # <<>> /\ ~Last(stack).expanded
    /\ LET top == Last(stack)
           faults == EnterFaults(top.el, top.path, top.depth)
           children == ChildFrames(top.el, top.path)
       IN  IF faults # <<>> THEN Refuse(Head(faults))
           ELSE /\ seen' = seen \cup {top.el}
                /\ stack' = Append(Front(stack), [top EXCEPT !.expanded = TRUE])
                            \o [i \in DOMAIN children |-> ProjectFrame(children[i], top.depth + 1)]
                /\ UNCHANGED <<document, phase, refusal, heap, pending, index, json, diagnostics>>
Assemble ==
    /\ phase = "projecting" /\ stack # <<>> /\ Last(stack).expanded
    /\ LET top == Last(stack)
           faults == AssembleFaults(top.el, top.path)
       IN  IF faults # <<>> THEN Refuse(Head(faults))
           ELSE /\ json' = (top.el :> Assembled(top.el)) @@ json
                /\ stack' = Front(stack)
                /\ diagnostics' = diagnostics \o OnlyIf(Mixed(top.el), Fault("moddle-content-normalized", top.path))
                /\ UNCHANGED <<document, phase, refusal, seen, heap, pending, index>>

(* canonical_size of the projection, whose objects are functions.          *)
RECURSIVE ProjectionSize(_)
ProjectionSize(v) ==
    LET commas(n) == IF n = 0 THEN 2 ELSE n + 1
        Sum(seq) == FoldLeft(LAMBDA total, x : total + x, 0, seq)
    IN  CASE IsList(v) -> commas(Len(v.items)) + Sum([i \in DOMAIN v.items |-> ProjectionSize(v.items[i])])
          [] "fields" \in DOMAIN v ->
                 LET keys == SetToSeq(DOMAIN v.fields)
                 IN  commas(Len(keys)) + Sum([i \in DOMAIN keys |-> 2 + ProjectionSize(v.fields[keys[i]])])
          [] OTHER -> 1
Projected ==
    /\ phase = "projecting" /\ stack = <<>>
    /\ IF ProjectionSize(json[1]) > Limits.size THEN Refuse([code |-> "xml-input-size-limit", path |-> <<>>])
       ELSE /\ phase' = "projected"
            /\ UNCHANGED <<document, refusal, stack, seen, heap, pending, index, json, diagnostics>>

-----------------------------------------------------------------------------
(* _O1Walk: the strings serialize_xml checks before it calls the writer.   *)
(* It collects every diagnostic, and stops at a limit on nodes or depth.   *)
CleanFaults(s, path) == OnlyIf(s \in Unclean, Fault("invalid-xml-character", path))
CheckString(s, path) == ValueFaults(s, path) \o CleanFaults(s, path)
CheckName(s, path) == NameFaults(s, path) \o CleanFaults(s, path)
CheckValue(v, path) ==
    Each(Items(v, path), LAMBDA item : (IF IsText(item.value) THEN CheckString(item.value.s, item.path) ELSE <<>>)
                                       \o OnlyIf("nan" \in DOMAIN item.value, Fault("invalid-any", item.path)))
CheckElement(e, path) ==
    LET slots == heap[e].slots
        attrs == heap[e].attrs
        texts == {key \in DOMAIN slots : IsText(slots[key])}
    IN  IF heap[e].generic
        THEN Each(heap[e].order, LAMBDA key : CheckName(key, Append(path, key)) \o CheckValue(slots[key], Append(path, key)))
             \o CountFaults(Cardinality(texts), path)
        ELSE Each(heap[e].order, LAMBDA key : CheckValue(slots[key], Append(path, key)))
             \o Each(SetToSeq(DOMAIN attrs), LAMBDA key : CheckName(key, path \o <<"$attrs", key>>)
                                                          \o CheckValue(attrs[key], path \o <<"$attrs", key>>))
             \o CountFaults(Cardinality(DOMAIN attrs), path)
(* Every element in a member, what a reference refers to included.         *)
QueuedSingles(e, path, depth) ==
    Each(heap[e].order, LAMBDA key : IF IsElement(heap[e].slots[key])
                                     THEN <<[el |-> heap[e].slots[key].el, path |-> Append(path, key), depth |-> depth + 1]>>
                                     ELSE <<>>)
QueuedElements(e, path, depth) ==
    LET slots == heap[e].slots
        frames(key) == [i \in DOMAIN Held(slots[key], Append(path, key)) |->
                           [el |-> Held(slots[key], Append(path, key))[i].value.el,
                            path |-> Held(slots[key], Append(path, key))[i].path, depth |-> depth + 1]]
    IN  Each(heap[e].order, frames)

Serialize ==
    /\ phase = "hydrated"
    /\ phase' = "checking" /\ stack' = <<[el |-> 1, path |-> <<>>, depth |-> 1]>> /\ seen' = {} /\ diagnostics' = <<>>
    /\ UNCHANGED <<document, refusal, heap, pending, index, json>>
Check ==
    /\ phase = "checking" /\ stack # <<>>
    /\ LET top == Last(stack)
           limit == OnlyIf(Cardinality(seen) + 1 > Limits.nodes, Fault("xml-element-count-limit", top.path))
                    \o OnlyIf(top.depth > Limits.depth, Fault("xml-depth-limit", top.path))
       IN  IF top.el \in seen
           THEN stack' = Front(stack) /\ UNCHANGED <<seen, diagnostics>>
           ELSE IF limit # <<>>
           THEN stack' = <<>> /\ seen' = seen \cup {top.el} /\ diagnostics' = Append(diagnostics, Head(limit))
           ELSE /\ stack' = Front(stack) \o QueuedElements(top.el, top.path, top.depth)
                /\ seen' = seen \cup {top.el}
                /\ diagnostics' = diagnostics \o CheckElement(top.el, top.path)
    /\ UNCHANGED <<document, phase, refusal, heap, pending, index, json>>
Checked ==
    /\ phase = "checking" /\ stack = <<>>
    /\ IF diagnostics # <<>> THEN Refuse(Head(diagnostics))
       ELSE /\ phase' = "checked"
            /\ UNCHANGED <<document, refusal, stack, seen, heap, pending, index, json, diagnostics>>

-----------------------------------------------------------------------------
JsonInit ==
    /\ phase = IF document.members = <<>> THEN "idle" ELSE "validating"
    /\ refusal = NoFault
    /\ stack = IF document.members = <<>> THEN <<>> ELSE <<[value |-> document, path |-> <<>>, depth |-> 1]>>
    /\ seen = {} /\ heap = <<>> /\ pending = <<>> /\ diagnostics = <<>>
    /\ index = [id \in {} |-> 0] /\ json = [e \in {} |-> Text("")]
JsonNext ==
    \/ Validate \/ BuildTree \/ IndexNext \/ Indexed \/ ResolveNext \/ Hydrated
    \/ Project \/ Expand \/ Assemble \/ Projected
    \/ Serialize \/ Check \/ Checked

-----------------------------------------------------------------------------
RECURSIVE Under(_)
Under(e) == {e} \cup UNION {Under(f.el) : f \in Range(ChildFrames(e, <<>>))}
Contained == IF heap = <<>> THEN {} ELSE Under(1)
RECURSIVE DepthOf(_)
DepthOf(e) == IF heap[e].parent = 0 THEN 1 ELSE 1 + DepthOf(heap[e].parent)

(* What the document says once it is normalised: a many slot is a list, a  *)
(* reference to no id is gone, simple values are read, $attrs is there.    *)
RECURSIVE Normal(_)
NormalItems(values, prop) ==
    LET keep(v) == SlotKind(prop) # "reference" \/ Member(v, "$ref").s \in DOMAIN index
        wire(v) == CASE SlotKind(prop) = "reference" -> [fields |-> ("$ref" :> Member(v, "$ref"))]
                     [] SlotKind(prop) = "containment" -> Normal(v)
                     [] OTHER -> Coerced(prop, v)
    IN  Each(values, LAMBDA v : IF keep(v) THEN <<wire(v)>> ELSE <<>>)
NormalTyped(v) ==
    LET type == Member(v, "$type").s
        attrs == IF "$attrs" \in Keys(v) THEN Member(v, "$attrs").members ELSE <<>>
        foreign == SelectSeq(v.members, LAMBDA m : m[1] \notin {"$type", "$attrs"} /\ ~Known(type, m[1])) \o attrs
        named(members, p) == Each(members, LAMBDA m : IF m[1] \in p.names THEN <<m[2]>> ELSE <<>>)
        values(p) == FoldLeft(LAMBDA got, x : IF x = List(<<>>) /\ ~p.ref THEN <<>> ELSE IF IsList(x) THEN got \o x.items
                                              ELSE Append(got, x), <<>>, named(v.members, p))
        wire(p) == NormalItems(values(p), p)
        slot(p) == CASE named(attrs, p) # <<>> -> Last(named(attrs, p))
                     [] p.many -> List(wire(p))
                     [] OTHER -> Last(wire(p))
        present == {p \in Range(Descriptor[type]) :
                        named(attrs, p) # <<>> \/ (named(v.members, p) # <<>> /\ (p.many \/ wire(p) # <<>>))}
        extension == {m \in Range(foreign) : ~Known(type, m[1])}
    IN  ("$type" :> Text(type))
        @@ ("$attrs" :> [fields |-> [key \in {m[1] : m \in extension} |->
                                        Last(SelectSeq(foreign, LAMBDA m : m[1] = key))[2]]])
        @@ [name \in {p.name : p \in present} |-> slot(Property(type, name))]
NormalAny(v) ==
    LET pairs(w) == [fields |-> [key \in Keys(w) |-> Member(w, key)]]
    IN  ("$type" :> Text("$any")) @@ ("$name" :> pairs(Member(v, "$name"))) @@ ("$attrs" :> pairs(Member(v, "$attrs")))
        @@ [key \in Keys(v) \cap {"$body"} |-> Member(v, key)]
        @@ [key \in Keys(v) \cap {"$children"} |-> List([i \in DOMAIN Member(v, key).items |-> Normal(Member(v, key).items[i])])]
Normal(v) == [fields |-> IF IsAny(v) THEN NormalAny(v) ELSE NormalTyped(v)]

(* Hydrating a document and projecting the result gives the document back, *)
(* normalised: every value in its slot, in order, every resolved reference *)
(* where it was written whatever the order the ids came in.                *)
RoundTrip == phase = "projected" => json[1] = Normal(document)

(* The builder relies on the validation: of the refusals it repeats, none  *)
(* is left for it to give.                                                 *)
ValidatedBuilds == phase = "validating" /\ stack = <<>> => Built.faults = <<>>

(* Each contained element is in one slot of its parent and in no other,    *)
(* and the index has the ids of the contained typed elements.              *)
ParentsHold ==
    phase \in {"resolving", "hydrated"} =>
        /\ \A e \in Contained \ {1} :
               /\ heap[e].parent \in Contained
               /\ \A p \in Contained :
                      Cardinality({i \in DOMAIN ChildFrames(p, <<>>) : ChildFrames(p, <<>>)[i].el = e})
                          = IF p = heap[e].parent THEN 1 ELSE 0
        /\ {index[id] : id \in DOMAIN index}
               = {e \in Contained : ~heap[e].generic /\ "id" \in DOMAIN heap[e].slots /\ IsText(heap[e].slots["id"])}
        /\ \A id \in DOMAIN index : IdOf(index[id]) = id

(* What hydrate accepts, project accepts: the only trees it refuses are of *)
(* documents whose $attrs name a property, whose text is no number, whose  *)
(* foreign members and $attrs only together are too many, or that grow.    *)
HydratedProjects ==
    phase = "refused" /\ refusal.during = "projecting" =>
        CASE refusal.code = "descriptor-mismatch" ->
                 \E e \in Contained : \E p \in Range(IF heap[e].generic THEN <<>> ELSE Descriptor[heap[e].type]) :
                     /\ p.ref /\ p.name \in DOMAIN heap[e].slots /\ IsText(heap[e].slots[p.name])
          [] refusal.code = "invalid-any" ->
                 \E e \in Contained : \E name \in DOMAIN heap[e].slots :
                     \E item \in Range(Items(heap[e].slots[name], <<>>)) : "nan" \in DOMAIN item.value
          [] refusal.code = "xml-attribute-count-limit" ->
                 \E e \in Contained : Cardinality(DOMAIN heap[e].attrs) > Limits.attrs
          [] OTHER -> refusal.code = "xml-input-size-limit"

(* An accepted document becomes a sound tree that can be written out.      *)
HydrateSound == ValidatedBuilds /\ ParentsHold /\ HydratedProjects

(* When the gate lets a tree through to the writer it has seen each of its *)
(* elements, and no member or attribute of them has an unclean string.     *)
GateComplete ==
    phase = "checked" =>
        \A e \in Contained :
            /\ e \in seen
            /\ \A key \in DOMAIN heap[e].attrs : key \notin Unclean /\ heap[e].attrs[key].s \notin Unclean
            /\ \A name \in DOMAIN heap[e].slots : \A item \in Range(Items(heap[e].slots[name], <<>>)) :
                   IsText(item.value) => item.value.s \notin Unclean

(* serialize.py:237 and :258: the walk queues contained children.  Its     *)
(* depth limit is then about how deep the tree is.                         *)
DepthIsContainment ==
    phase = "refused" /\ refusal.code = "xml-depth-limit" /\ refusal.during = "checking" =>
        \E e \in Contained : DepthOf(e) > Limits.depth
=============================================================================
