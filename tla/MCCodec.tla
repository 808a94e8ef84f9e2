------------------------------- MODULE MCCodec -------------------------------
(* Instances of Codec: documents of a process with a task and a flow, the  *)
(* task with up to two members of a pool, and sources of up to five tokens, *)
(* for one call of parse_xml and for two at once.                          *)
EXTENDS Codec

CONSTANTS c1, c2

Prop(name, type, many, ref) == [name |-> name, names |-> {name}, type |-> type, many |-> many, ref |-> ref]
Aliased(prop, alias) == [prop EXCEPT !.names = @ \cup {alias}]
IdProp == Prop("id", "String", FALSE, FALSE)
MCDescriptor ==
    [Process |-> <<IdProp, Prop("flowElements", "FlowElement", TRUE, FALSE)>>,
     FlowElement |-> <<IdProp>>,
     Task |-> <<IdProp, Aliased(Prop("name", "String", FALSE, FALSE), "b:name"), Prop("count", "Integer", FALSE, FALSE),
                Prop("tags", "String", TRUE, FALSE), Prop("incoming", "Flow", TRUE, TRUE),
                Prop("loop", "Loop", FALSE, FALSE), Prop("values", "Element", TRUE, FALSE)>>,
     Flow |-> <<IdProp, Prop("sourceRef", "FlowElement", FALSE, TRUE), Aliased(Prop("targetRef", "Task", FALSE, TRUE), "b:targetRef")>>,
     Loop |-> <<Prop("count", "Real", FALSE, FALSE), Prop("before", "Boolean", FALSE, FALSE)>>]
MCSupers == [Process |-> {"Process"}, FlowElement |-> {"FlowElement"}, Task |-> {"Task", "FlowElement"},
             Flow |-> {"Flow", "FlowElement"}, Loop |-> {"Loop"}]
MCLimits == [nodes |-> 6, depth |-> 4, attrs |-> 2, value |-> 1, name |-> 1, size |-> 115, warnings |-> 1]
MCUnits == [long |-> 2]

S(s) == [s |-> s]
L(items) == [items |-> items]
Ob(id, members) == [id |-> id, members |-> members]
Ref(id) == Ob("r", <<<<"$ref", S(id)>>>>)
Map(pairs) == Ob("m", pairs)
NoAttrs == <<"$attrs", Map(<<>>)>>
QName(qname, uri) == <<"$name", Map(<<<<"qname", S(qname)>>, <<"uri", S(uri)>>>>)>>
AnyOf(id, members) == Ob(id, <<<<"$type", S("$any")>>>> \o members)
Plain(id) == AnyOf(id, <<QName("e", "u"), NoAttrs>>)
AnyNodes ==
    {Plain("g"),
     AnyOf("g", <<QName("x:e", "u"), <<"$attrs", Map(<<<<"id", S("t")>>, <<"k", S("dirty")>>>>)>>, <<"$body", S("text")>>>>),
     AnyOf("g", <<QName("x:e", ""), NoAttrs>>), AnyOf("g", <<QName("9", "u"), NoAttrs>>), AnyOf("g", <<NoAttrs>>),
     AnyOf("g", <<QName("long", "u"), NoAttrs>>), AnyOf("g", <<QName("e", "u")>>),
     AnyOf("g", <<QName("e", "u"), <<"$attrs", Map(<<<<"get", S("x")>>>>)>>>>),
     AnyOf("g", <<QName("e", "u"), NoAttrs, <<"other", S("x")>>>>), AnyOf("g", <<QName("e", "u"), NoAttrs, <<"$body", [n |-> "1"]>>>>),
     AnyOf("g", <<QName("e", "u"), NoAttrs, <<"$body", S("dirty")>>, <<"$children", L(<<Plain("h")>>)>>>>),
     AnyOf("g", <<QName("e", "u"), NoAttrs, <<"$children", L(<<Plain("h"), Plain("h")>>)>>>>),
     AnyOf("g", <<QName("e", "u"), NoAttrs, <<"$children", L(<<Plain("h"), Plain("i"), Plain("j")>>)>>>>),
     AnyOf("g", <<QName("e", "u"), NoAttrs, <<"$children", L(<<S("x")>>)>>>>),
     AnyOf("g", <<QName("e", "u"), NoAttrs, <<"$children", S("x")>>>>),
     AnyOf("g", <<QName("e", "u"), NoAttrs,
                  <<"$children", L(<<Ob("h", <<<<"$type", S("Loop")>>, <<"before", S("true")>>>>), Plain("i")>>)>>>>),
     AnyOf("g", <<QName("e", "u"), NoAttrs,
                  <<"$children", L(<<AnyOf("h", <<QName("e", "u"), NoAttrs, <<"$children", L(<<Plain("i")>>)>>>>)>>)>>>>)}
LoopNode(id, v) == Ob(id, <<<<"$type", S("Loop")>>, <<"count", v>>>>)
TaskMembers ==
    {<<"id", v>> : v \in {S("t"), S("f"), S("long"), [n |-> "1"]}}
    \cup {<<"name", v>> : v \in {S("dirty"), [null |-> 1], [nan |-> TRUE], L(<<S("a")>>), Plain("g")}} \cup {<<"b:name", S("b")>>}
    \cup {<<"count", v>> : v \in {S("12"), S("twelve"), [n |-> "1"]}}
    \cup {<<"tags", v>> : v \in {S("a"), L(<<>>), L(<<S("a"), S("b")>>), L(<<S("a"), L(<<>>)>>)}}
    \cup {<<"incoming", v>> : v \in {Ref("f"), L(<<>>), L(<<Ref("f"), Ref("gone"), Ref("f")>>), L(<<Ref("t")>>), S("f"), Ref("long"), Plain("g"),
                                     L(<<Ref("gone"), Ref("gone")>>)}}
    \cup {<<"loop", v>> : v \in {LoopNode("l", S("x")), LoopNode("l", [n |-> "2"]), [null |-> 1], Plain("g"), Ref("f")}}
    \cup {<<"values", v>> : v \in {L(<<g>>) : g \in AnyNodes} \cup {L(<<>>), L(<<Plain("g"), LoopNode("l", S("1"))>>), S("x")}}
    \cup {<<"x:k", v>> : v \in {S("v"), S("dirty"), [n |-> "1"]}} \cup {<<"x:j", S("v")>>, <<"get", S("v")>>, <<"long", S("v")>>}
    \cup {<<"$attrs", v>> : v \in {Map(<<<<"x:i", S("v")>>, <<"x:h", S("w")>>>>), Map(<<<<"x:k", S("w")>>>>),
                                   Map(<<<<"incoming", S("x")>>>>), Map(<<<<"id", S("f")>>>>), Map(<<<<"get", S("x")>>>>),
                                   Map(<<<<"count", S("x")>>>>), Map(<<<<"a", S("1")>>, <<"b", S("1")>>, <<"c", S("1")>>>>),
                                   Map(<<<<"a", [n |-> "1"]>>>>), Map(<<<<"a", S("dirty")>>>>), S("x")}}
    \cup {<<"b:name", S("dirty")>>}
TaskNode(members) == Ob("task", <<<<"$type", S("Task")>>>> \o members)
FlowNode(members) == Ob("flow", <<<<"$type", S("Flow")>>, <<"id", S("f")>>>> \o members)
MembersOf2 == {<<>>} \cup {<<m>> : m \in TaskMembers} \cup {ms \in TaskMembers \X TaskMembers : ms[1][1] # ms[2][1]}
FlowMembers == {<<<<"sourceRef", Ref("t")>>, <<"targetRef", Ref("t")>>>>, <<<<"targetRef", Ref("f")>>>>,
                <<<<"b:targetRef", Ref("gone")>>, <<"targetRef", Ref("t")>>>>}
Sound == {m \in TaskMembers :
             \/ m[1] \in {"count", "b:name", "x:k", "x:j"} /\ m[2] # [n |-> "1"]
             \/ m[1] \in {"tags", "incoming", "loop"} /\ m[2] \notin {S("f"), Ref("long"), Ref("f"), L(<<Ref("t")>>), [null |-> 1], Plain("g")}
             \/ m[1] = "values" /\ \E v \in {L(<<>>), L(<<Plain("g"), LoopNode("l", S("1"))>>)} \cup {L(<<g>>) : g \in AnyNodes} :
                                       m[2] = v /\ (v = L(<<>>) \/ \E i \in DOMAIN v.items[1].members : v.items[1].members[i][1] = "$attrs")
             \/ m[1] = "$attrs" /\ m[2] # S("x")}
ProcessOf(nodes) == Ob("process", <<<<"$type", S("Process")>>, <<"id", S("p")>>, <<"flowElements", L(nodes)>>>>)
(* u, then g, then t, then f: the flows lead from one task to the next.    *)
Chain ==
    ProcessOf(<<Ob("u", <<<<"$type", S("Task")>>, <<"id", S("u")>>>>),
                Ob("go", <<<<"$type", S("Flow")>>, <<"id", S("g")>>, <<"sourceRef", Ref("u")>>>>),
                TaskNode(<<<<"id", S("t")>>, <<"incoming", L(<<Ref("g")>>)>>>>), FlowNode(<<<<"sourceRef", Ref("t")>>>>)>>)
MCDocuments ==
    {ProcessOf(<<TaskNode(ms), FlowNode(Head(SetToSeq(FlowMembers)))>>) : ms \in MembersOf2}
    \cup {ProcessOf(<<FlowNode(f), TaskNode(<<<<"id", S("t")>>>> \o ms)>>) :
             f \in FlowMembers, ms \in {<<m>> : m \in {x \in TaskMembers : x[1] # "id"}}}
    \cup {ProcessOf(<<TaskNode(<<<<"id", S("t")>>>> \o ms), FlowNode(<<<<"sourceRef", Ref("t")>>>>)>>) :
             ms \in {x \in Sound \X Sound : x[1][1] # x[2][1]}}
    \cup {Chain, ProcessOf(<<TaskNode(<<>>), TaskNode(<<>>)>>), Ob("x", <<<<"$type", [n |-> "1"]>>>>),
          Ob("x", <<<<"$type", S("long")>>>>), Ob("x", <<<<"$type", S("Absent")>>>>), Ob("x", <<<<"id", S("p")>>>>)}
MCNoDocument == Ob("none", <<>>)

-----------------------------------------------------------------------------
Attr(prefix, local, value) ==
    [prefix |-> prefix, local |-> local, value |-> value, refs |-> <<>>, nameUnits |-> 1, valueUnits |-> 1]
Tag(prefix, attrs, empty) == [kind |-> "open", prefix |-> prefix, local |-> "e", attrs |-> attrs, empty |-> empty]
Open(prefix, attrs) == Tag(prefix, attrs, FALSE)
Words(refs) == [kind |-> "text", refs |-> refs]
Other(kind) == [kind |-> kind]
Xmlns(p, uri) == Attr("xmlns", p, uri)
Structure == {Open("", <<Xmlns("p", "u")>>), Open("p", <<Xmlns("q", "u")>>), Open("p", <<Xmlns("p", "v")>>), Open("q", <<>>),
              Open("", <<Attr("", "xmlns", "w")>>), Other("close"), Tag("p", <<Xmlns("p", "v")>>, TRUE)}
TagAttrs ==
    {<<Attr("p", "a", "1"), Attr("q", "a", "1")>>, <<Attr("q", "a", "1"), Xmlns("q", "u"), Attr("p", "a", "2")>>,
     <<Attr("", "a", "1"), Attr("p", "a", "1")>>, <<Attr("", "a", "1"), Attr("", "a", "2")>>, <<Xmlns("q", "u"), Xmlns("q", "v")>>,
     <<Xmlns("q", "u"), Attr("p", "a", "1"), Attr("q", "a", "1")>>, <<Xmlns("q", "w"), Attr("p", "a", "1"), Attr("q", "a", "1")>>,
     <<Attr("xml", "lang", "en")>>, <<Xmlns("xml", "u")>>, <<Xmlns("xml", "xml-uri")>>, <<Xmlns("?", "u")>>, <<Attr("", "get", "1")>>,
     <<Attr("", "?", "1")>>, <<[Attr("", "a", "1") EXCEPT !.refs = <<"known", "unknown">>]>>,
     <<[Attr("", "a", "1") EXCEPT !.refs = <<"wide">>]>>, <<[Attr("", "a", "1") EXCEPT !.nameUnits = 9]>>,
     <<[Attr("", "a", "1") EXCEPT !.valueUnits = 9]>>, <<Attr("", "a", "1"), Attr("", "b", "2"), Attr("", "c", "2"), Attr("", "d", "2")>>}
Pool == {Open("", a) : a \in TagAttrs} \cup {[Open("", <<>>) EXCEPT !.local = "?"]}
        \cup {Words(r) : r \in {<<>>, <<"unknown">>, <<"overlong">>, <<"known", "wide", "wide">>}}
        \cup {Other(k) : k \in {"close", "bad", "cut", "comment", "instruction", "declaration", "cdata", "doctype", "entity",
                                "commented-doctype", "commented-entity"}}
Src(tokens) == [bytes |-> TRUE, declared |-> "none", utf8 |-> TRUE, raw |-> 1, decoded |-> 1, descriptors |-> TRUE, tokens |-> tokens]
Root == Open("p", <<Xmlns("p", "u")>>)
TokensOf == {<<Root>> \o w : w \in UNION {[1..n -> Structure] : n \in 0..4} \cup (Pool \X Pool)}
Encodings == {[Src(<<Root>>) EXCEPT !.bytes = b, !.declared = d, !.utf8 = u] :
                 b \in BOOLEAN, d \in {"none", "utf-8", "latin", "other"}, u \in BOOLEAN}
MCIdle == Src(<<>>)
Solo == {[x \in {c1, c2} |-> IF x = c1 THEN s ELSE MCIdle] :
            s \in {Src(w) : w \in TokensOf} \cup Encodings
                 \cup {[Src(<<Root>>) EXCEPT !.raw = 9], [Src(<<Root>>) EXCEPT !.decoded = 9], [Src(<<Root>>) EXCEPT !.descriptors = FALSE]}}
Both == {[x \in {c1, c2} |-> Src(IF x = c1 THEN w ELSE <<Root>>)] : w \in {<<Root>>, <<Root, Other("comment")>>}}
MCSources == Solo \cup Both
MCNoSources == [x \in {c1, c2} |-> MCIdle]
MCXmlLimits == [raw |-> 2, decoded |-> 2, elements |-> 4, depth |-> 4, attrs |-> 3, name |-> 2, value |-> 2, warnings |-> 2]

Says(outer) == [outer |-> outer, nested |-> {}]
Wrapped(nested) == [outer |-> {"unparsable content"}, nested |-> nested]
Lost == Says({"unresolved reference"})
MCNatives ==
    {[fatal |-> {}, warnings |-> [i \in 1..n |-> Lost]] : n \in {0, 2, 4}}
    \cup {[fatal |-> {}, warnings |-> <<Wrapped({"already defined"}), Wrapped({"already defined", "xmlns"}), Wrapped({})>>],
          [fatal |-> {}, warnings |-> <<Wrapped({"unknown type"}), Says({})>>],
          [fatal |-> {"failed to parse document"}, warnings |-> <<Lost>>]}
=============================================================================
