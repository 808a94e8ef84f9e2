------------------------------- MODULE Writer -------------------------------
(***************************************************************************)
(* The XML writer of bpmn_io/moddle_xml/write.py: one call of to_xml.      *)
(*                                                                         *)
(* build_tree walks the elements with a stack of frames.  It enters an     *)
(* element (its declarations, its tag, its attributes), visits its deferred *)
(* children in order, and exits it (its generic attributes).  On the way   *)
(* the serializers fill scopes of namespaces, chained to the scopes of     *)
(* their ancestors: the declarations a tag will carry are known only when  *)
(* the whole tree is built.  serialize_tree then writes the tags.          *)
(*                                                                         *)
(* A document is a sequence of nodes, 1 the root.  Local names, values,    *)
(* escaping, indentation and tag aliases are left out.  A prefix is the    *)
(* sequence of a name and of the numbers deconfliction appends to it, the  *)
(* default declaration has none.                                           *)
(***************************************************************************)
EXTENDS Integers, Sequences, SequencesExt, FiniteSets

CONSTANTS
    Documents,   \* the documents to write
    Default,     \* default_prefix_map: prefixes of packages, xsi and xml
    Packages,    \* uris of registered packages
    NoUri        \* no uri

(* The nodes of a document are numbered; a property's contained elements   *)
(* are nodes of it.                                                        *)
IsSeq(s) == s \in Seq(Range(s))
ASSUME DocumentsAssumption ==
    \A d \in Documents :
        /\ IsSeq(d.nodes) /\ d.nodes # <<>>
        /\ \A node \in Range(d.nodes) :
              /\ IsSeq(node.attrs) /\ IsSeq(node.props)
              /\ \A p \in Range(node.props) :
                    p.count \in Nat /\ p.nodes \in Seq(DOMAIN d.nodes)

VARIABLES
    doc,         \* the document, never changes
    pc,          \* "building", "writing", "done" or "failed"
    heap,        \* the serializers' shared state, see Heap
    serializers, \* serializers built so far, in order of their creation
    stack,       \* frames of build_tree, then of serialize_tree
    warnings,    \* attributes warned about
    out          \* the tags written
vars == <<doc, pc, heap, serializers, stack, warnings, out>>

-----------------------------------------------------------------------------
(* Namespaces: scopes and their lookups.                                   *)
Ns(prefix, uri) == [prefix |-> prefix, uri |-> uri]
NoPrefix == <<>>
Anonymous == Ns(NoPrefix, NoUri)
EmptyMap == [x \in {} |-> NoUri]
Scope(parent) == [prefixes |-> EmptyMap, uris |-> EmptyMap, used |-> {},
                  wellknown |-> <<>>, custom |-> <<>>, parent |-> parent]

(* heap.scopes: the scopes; heap.own[s]: the scope serializer s owns, or 0; *)
(* heap.memo[s]: its memoized ancestor scope, Unset before it is resolved.  *)
Unset == -1

Field(h, name) == [k \in DOMAIN h.scopes |-> h.scopes[k][name]]

(* The scopes from k to the outermost, k first.                            *)
Upwards(parents, k) ==
    LET up[n \in 0..Len(parents)] ==
            IF n = 0 THEN <<>> ELSE <<n>> \o up[parents[n]]
    IN  up[k]
Chain(h, k) == Upwards(Field(h, "parent"), k)

(* The value the closest scope has for x in one of its maps, or default.   *)
Maps(h, chain, field) == [i \in DOMAIN chain |-> Field(h, field)[chain[i]]]
Closest(maps, x, default) ==
    LET hits == {i \in DOMAIN maps : x \in DOMAIN maps[i]}
    IN  IF hits = {} THEN default ELSE maps[Min(hits)][x]

ByUri(h, k, uri) == Closest(Maps(h, Chain(h, k), "uris"), uri, Anonymous)
UriByPrefix(h, k, prefix) == Closest(Maps(h, Chain(h, k), "prefixes"), prefix, NoUri)
Registered(h, k, uri) == ByUri(h, k, uri) # Anonymous

Bind(map, x, y) == [z \in DOMAIN map \cup {x} |-> IF z = x THEN y ELSE map[z]]

MapPrefix(h, k, prefix, uri) ==
    [h EXCEPT !.scopes[k].prefixes = Bind(@, prefix, uri)]

Added(scope, ns, wellknown) ==
    [scope EXCEPT !.uris = Bind(@, ns.uri, ns),
                  !.wellknown = IF wellknown THEN Append(@, ns) ELSE @,
                  !.custom = IF wellknown THEN @ ELSE Append(@, ns)]
AddNs(h, k, ns, wellknown) ==
    MapPrefix([h EXCEPT !.scopes[k] = Added(@, ns, wellknown)], k, ns.prefix, ns.uri)

(* used is keyed by uri and prefix; its value is set when the uri is known. *)
LogUsedHere(h, k, ns) == \* mutant: the ancestors are not told
    [h EXCEPT !.scopes[k].used = IF Registered(h, k, ns.uri) THEN @ \cup {ns} ELSE @ \ {ns}]
Logged(scope, ns, known) == [scope EXCEPT !.used = IF known THEN @ \cup {ns} ELSE @ \ {ns}]
LogUsed(h, k, ns) ==
    LET chain == Chain(h, k)
        known == Registered(h, k, ns.uri)
    IN  [h EXCEPT !.scopes = [i \in DOMAIN h.scopes |->
            IF Contains(chain, i) THEN Logged(h.scopes[i], ns, known) ELSE h.scopes[i]]]

GetUsed(scope) ==
    SelectSeq(scope.wellknown \o scope.custom, LAMBDA ns : ns \in scope.used)

(* get_ns_attrs                                                            *)
Declarations(h, s) ==
    IF h.own[s] = 0 THEN <<>>
    ELSE SelectSeq(GetUsed(h.scopes[h.own[s]]), LAMBDA ns : ns.prefix # <<"xml">>)

-----------------------------------------------------------------------------
(* The scope of a serializer.  parents: serializer -> the one it is nested  *)
(* in, 0 for the root's.                                                    *)
Nearest(h, parents, s) ==
    LET up[a \in 0..Len(parents)] ==
            IF a = 0 THEN 0
            ELSE IF h.own[a] # 0 THEN h.own[a]
            ELSE IF h.memo[a] # Unset THEN h.memo[a]
            ELSE up[parents[a]]
    IN  up[parents[s]]

Memoize(h, parents, s) ==
    IF h.memo[s] # Unset THEN h ELSE [h EXCEPT !.memo[s] = Nearest(h, parents, s)]

(* get_namespaces: the heap, in which s may own a new scope; ScopeOf: the   *)
(* scope it returned.                                                       *)
Own(h, s, parent) ==
    [h EXCEPT !.scopes = Append(@, Scope(parent)), !.own[s] = Len(h.scopes) + 1]
OwnIfNeeded(h, s, local) == IF local \/ h.memo[s] = 0 THEN Own(h, s, h.memo[s]) ELSE h
GetNamespaces(h, parents, s, local) ==
    IF h.own[s] # 0 THEN h ELSE OwnIfNeeded(Memoize(h, parents, s), s, local)
ScopeOf(h, s) == IF h.own[s] # 0 THEN h.own[s] ELSE h.memo[s]

(* log_namespace                                                           *)
LogInScope(h, k, ns, wellknown, local) ==
    MapPrefix(IF ~Registered(h, k, ns.uri) \/ local THEN AddNs(h, k, ns, wellknown) ELSE h,
              k, ns.prefix, ns.uri)
LogFor(h, s, ns, wellknown, local) == LogInScope(h, ScopeOf(h, s), ns, wellknown, local)
LogNamespace(h, parents, s, ns, wellknown, local) ==
    LogFor(GetNamespaces(h, parents, s, local), s, ns, wellknown, local)

(* The prefix, or the first of its numbered forms that no scope has mapped. *)
Numbered(prefix, n) == IF n = 0 THEN prefix ELSE Append(prefix, n)
Untaken(prefix, taken) ==
    Numbered(prefix, CHOOSE n \in 0..Cardinality(taken) :
                         /\ Numbered(prefix, n) \notin taken
                         /\ \A m \in 0..n - 1 : Numbered(prefix, m) \in taken)
Deconflicted(h, k, prefix) ==
    Untaken(prefix, UNION {DOMAIN map : map \in Range(Maps(h, Chain(h, k), "prefixes"))})

EnsureHere(h, parents, s, k, prefix, uri) == \* mutant: a scope of its own for every namespace
    LogNamespace(h, parents, s, Ns(prefix, uri), FALSE, TRUE)

(* _ensure_namespace                                                       *)
EnsureTaken(h, parents, s, k, prefix, uri) == \* mutant: the prefix is not deconflicted
    LogNamespace(h, parents, s, Ns(prefix, uri),
                 prefix \in DOMAIN Default /\ Default[prefix] = uri, prefix = NoPrefix)
Ensure(h, parents, s, k, prefix, uri) ==
    LogNamespace(h, parents, s,
                 Ns(IF prefix = NoPrefix THEN NoPrefix ELSE Deconflicted(h, k, prefix), uri),
                 prefix \in DOMAIN Default /\ Default[prefix] = uri, prefix = NoPrefix)

(* log_namespace_used: the heap after it, and the namespace it resolved;   *)
(* ok is FALSE when it raises.                                             *)
UriOf(h, k, ns) ==
    IF ns.uri # NoUri THEN ns.uri
    ELSE IF ns.prefix \in DOMAIN Default THEN Default[ns.prefix]
    ELSE UriByPrefix(h, k, ns.prefix)
Resolution(h, k, at, ns, uri) ==
    [ok |-> TRUE, ns |-> ByUri(h, at, uri),
     heap |-> IF ns.prefix = NoPrefix THEN h ELSE MapPrefix(h, k, ns.prefix, uri)]
ResolveKnown(h, k, s, ns, uri) == Resolution(h, k, ScopeOf(h, s), ns, uri)
ResolveUri(h, parents, s, k, ns, uri) ==
    IF uri = NoUri THEN [ok |-> FALSE, heap |-> h, ns |-> Anonymous]
    ELSE ResolveKnown(IF Registered(h, k, uri) THEN h ELSE Ensure(h, parents, s, k, ns.prefix, uri),
                      k, s, ns, uri)
Resolve(h, parents, s, ns) ==
    IF ns = Anonymous THEN [ok |-> TRUE, heap |-> h, ns |-> Anonymous]
    ELSE ResolveUri(h, parents, s, ScopeOf(h, s), ns, UriOf(h, ScopeOf(h, s), ns))
LogNamespaceUsed(h, parents, s, ns, local) ==
    Resolve(GetNamespaces(h, parents, s, local), parents, s, ns)

(* log_namespace_used, then log_used in the serializer's scope.            *)
LogUsedBy(h, s, ns) == LogUsed(h, ScopeOf(h, s), ns)
Used(r, parents, s) ==
    IF r.ok THEN [r EXCEPT !.heap = LogUsedBy(GetNamespaces(@, parents, s, FALSE), s, r.ns)] ELSE r
Use(h, parents, s, ns) == Used(LogNamespaceUsed(h, parents, s, ns, FALSE), parents, s)

-----------------------------------------------------------------------------
(* An attribute as it is written; qname is the type an xsi:type names, from *)
(* the properties and attributes whose values were put there, with the     *)
(* namespaces they were in: the last one's value is the one written.       *)
Source(prefix, name, uri) == [prefix |-> prefix, name |-> name, uri |-> uri]
Attribute(ns, name, qname, source) ==
    [prefix |-> ns.prefix, uri |-> ns.uri, name |-> name, qname |-> qname, from |-> <<source>>]

(* add_attribute: the same name again replaces the value.                  *)
SameLocalName(a, b) == a.name = b.name \* mutant: namespaces are not compared
SameAttribute(a, b) == a.name = b.name /\ a.uri = b.uri /\ a.prefix = b.prefix
Over(b, a) == [a EXCEPT !.from = b.from \o @]
AddAttribute(attrs, a) ==
    LET at == SelectInSeq(attrs, LAMBDA b : SameAttribute(a, b))
    IN  IF at = 0 THEN Append(attrs, a) ELSE [attrs EXCEPT ![at] = Over(@, a)]

(* The state enter threads through its steps, for serializer s.            *)
Work(h, s, parents) ==
    [ok |-> TRUE, heap |-> h, s |-> s, parents |-> parents, tag |-> Anonymous,
     type |-> Anonymous, attrs |-> <<>>, others |-> <<>>]

(* is_local_ns: the namespace of the marked type, if any, or of the tag.   *)
OwnUri(w) == IF w.type # Anonymous THEN w.type.uri ELSE w.tag.uri
IsLocal(w, ns) == ns.uri = OwnUri(w)

(* ns_attribute_name and add_attribute.                                    *)
Written(w, r, prefix, name, qname) ==
    IF ~r.ok THEN [w EXCEPT !.ok = FALSE]
    ELSE [w EXCEPT !.heap = r.heap,
                   !.attrs = AddAttribute(@, Attribute(IF IsLocal(w, r.ns) THEN Anonymous ELSE r.ns,
                                                       name, qname, Source(prefix, name, r.ns.uri)))]
WriteAttribute(w, prefix, name, inherited, qname) ==
    IF ~w.ok THEN w
    ELSE IF inherited
    THEN [w EXCEPT !.attrs = AddAttribute(@, Attribute(Anonymous, name, qname, Source(prefix, name, NoUri)))]
    ELSE Written(w, Use(w.heap, w.parents, w.s, Ns(prefix, NoUri)), prefix, name, qname)

(* parse_ns_attribute                                                      *)
DeclareUsed(w, r) == [w EXCEPT !.heap = LogUsedBy(r.heap, w.s, r.ns)]
ParseNsAttribute(w, a) ==
    IF ~a.declares THEN [w EXCEPT !.others = Append(@, a)]
    ELSE IF a.uri \in Packages
    THEN [w EXCEPT !.heap = LogNamespace(@, w.parents, w.s, Ns(a.prefix, a.uri), TRUE, TRUE)]
    ELSE DeclareUsed(w, LogNamespaceUsed(w.heap, w.parents, w.s, Ns(a.prefix, a.uri), TRUE))

ParseNsAttributes(w, node) == FoldLeft(ParseNsAttribute, w, node.attrs)

(* TypeSerializer.parse_ns_attributes: the marker of the effective type.   *)
Except(others, marker) ==
    FoldLeft(LAMBDA kept, a : IF <<a.prefix, a.name>> = marker THEN kept ELSE Append(kept, a),
             <<>>, others)
Unmarked(w, prop) == [w EXCEPT !.others = Except(@, prop.serialize)]
Marked(w, r, prop) ==
    IF ~r.ok THEN [w EXCEPT !.ok = FALSE]
    ELSE WriteAttribute([w EXCEPT !.heap = r.heap, !.type = r.ns],
                        prop.serialize[1], prop.serialize[2], FALSE, r.ns)
MarkUnlike(w, node, prop) ==
    IF node.type = prop.type THEN w ELSE Marked(w, Use(w.heap, w.parents, w.s, Ns(node.prefix, NoUri)), prop)
MarkType(w, node, prop) == MarkUnlike(Unmarked(w, prop), node, prop)

(* get_serializable_properties: set, not the default, not none, not empty. *)
Serializable(node, p) == node.generic \/ (~p.virtual /\ p.value = "given")

(* The tag: resolved, then resolved and used.                              *)
Tagged(w, r) ==
    IF ~r.ok THEN [w EXCEPT !.ok = FALSE]
    ELSE [w EXCEPT !.heap = Use(r.heap, w.parents, w.s, r.ns).heap, !.tag = r.ns]
NameTag(w, ns) == IF ~w.ok THEN w ELSE Tagged(w, LogNamespaceUsed(w.heap, w.parents, w.s, ns, FALSE))

DescriptorNs(node) == Ns(node.prefix, IF node.generic THEN node.uri ELSE NoUri)
PropertyNs(prop) == Ns(prop.prefix, NoUri)

(* The serialization of a property: nothing, <<"property">> when its name is *)
(* the tag, or the prefix and name of the attribute that carries the type. *)
NoProp == [serialize |-> <<>>]
Inline(prop) == prop.serialize # <<>>
Typed(prop) == Len(prop.serialize) = 2

(* enter                                                                   *)
WriteProperty(w, node, p) ==
    IF ~node.generic /\ Serializable(node, p) /\ p.kind = "attr"
    THEN WriteAttribute(w, p.prefix, p.name, p.inherited, Anonymous) ELSE w
WriteAttributes(w, node) == FoldLeft(LAMBDA v, p : WriteProperty(v, node, p), w, node.props)
Mark(w, node, prop) == IF Typed(prop) /\ ~node.generic THEN MarkType(w, node, prop) ELSE w
Enter(h, s, parents, node, prop) ==
    WriteAttributes(
        NameTag(Mark(ParseNsAttributes(Work(h, s, parents), node), node, prop),
                IF Inline(prop) THEN PropertyNs(prop) ELSE DescriptorNs(node)),
        node)

(* collect_containments and collect_generic_containments: the deferred children. *)
Child(kind, prop, node) == [kind |-> kind, prop |-> prop, node |-> node]
ChildrenOf(p) ==
    CASE p.kind = "body" -> <<Child("text", p, 0)>>
      [] p.kind \in {"value", "reference"} -> [i \in 1..p.count |-> Child(p.kind, p, 0)]
      [] p.kind = "contain" -> [i \in DOMAIN p.nodes |-> Child("element", p, p.nodes[i])]
      [] OTHER -> <<>>
Contained(node, children, p) == IF Serializable(node, p) THEN children \o ChildrenOf(p) ELSE children
Containments(node) == FoldLeft(LAMBDA children, p : Contained(node, children, p), <<>>, node.props)

(* exit: parse_generic_attributes; one that cannot be named is warned about. *)
OrWarn(v, w, a) == IF w.ok THEN [v EXCEPT !.work = w] ELSE [v EXCEPT !.warned = Append(@, a)]
WriteOthers(w, others) ==
    FoldLeft(LAMBDA v, a : OrWarn(v, WriteAttribute(v.work, a.prefix, a.name, FALSE, Anonymous), a),
             [work |-> w, warned |-> <<>>], others)

-----------------------------------------------------------------------------
Node(n) == doc.nodes[n]
Frame(s, children) == [s |-> s, children |-> children, index |-> 0]
Top == Last(stack)
Parents(ss) == [i \in DOMAIN ss |-> ss[i].parent]

(* ElementSerializer.__init__ under parent, then enter.                    *)
NewHeap(h) == [h EXCEPT !.own = Append(@, 0), !.memo = Append(@, Unset)]
Serializer(parent, node, w) ==
    [parent |-> parent, node |-> node, work |-> [w EXCEPT !.heap = 0], body |-> <<>>]

EnterElement(h, ss, parent, node, prop, frames) ==
    \E w \in {Enter(NewHeap(h), Len(ss) + 1, Append(Parents(ss), parent), Node(node), prop)} :
        IF w.ok
        THEN /\ heap' = w.heap
             /\ serializers' = Append(ss, Serializer(parent, node, w))
             /\ stack' = Append(frames, Frame(Len(ss) + 1, Containments(Node(node))))
             /\ UNCHANGED pc
        ELSE pc' = "failed" /\ UNCHANGED <<heap, serializers, stack>>

(* Writer.to_xml: the root serializer owns the outermost scope.            *)
Start ==
    /\ pc = "building" /\ serializers = <<>>
    /\ EnterElement(heap, serializers, 0, 1, NoProp, <<>>)
    /\ UNCHANGED <<doc, warnings, out>>

Advance(frames) == [frames EXCEPT ![Len(frames)].index = @ + 1]
NextChild == Top.children[Top.index + 1]
AddBody(ss, s, item) == [ss EXCEPT ![s].body = Append(@, item)]
Item(kind, tag, s) == [kind |-> kind, tag |-> tag, s |-> s]

Building == pc = "building" /\ stack # <<>>
HasChild == Top.index < Len(Top.children)

AddText ==
    /\ Building /\ HasChild /\ NextChild.kind = "text"
    /\ serializers' = AddBody(serializers, Top.s, Item("text", Anonymous, 0))
    /\ stack' = Advance(stack)
    /\ UNCHANGED <<doc, pc, heap, warnings, out>>

(* A value or a reference: its tag is named when its turn comes.           *)
AddLine ==
    /\ Building /\ HasChild /\ NextChild.kind \in {"value", "reference"}
    /\ \E w \in {NameTag(Work(heap, Top.s, Parents(serializers)), PropertyNs(NextChild.prop))} :
           IF w.ok
           THEN /\ heap' = w.heap
                /\ serializers' = AddBody(serializers, Top.s, Item("line", w.tag, 0))
                /\ stack' = Advance(stack)
                /\ UNCHANGED pc
           ELSE pc' = "failed" /\ UNCHANGED <<heap, serializers, stack>>
    /\ UNCHANGED <<doc, warnings, out>>

AddElement ==
    /\ Building /\ HasChild /\ NextChild.kind = "element"
    /\ EnterElement(heap, AddBody(serializers, Top.s, Item("element", Anonymous, Len(serializers) + 1)),
                    Top.s, NextChild.node, NextChild.prop, Advance(stack))
    /\ UNCHANGED <<doc, warnings, out>>

Exit ==
    /\ Building /\ ~HasChild
    /\ \E r \in {WriteOthers([serializers[Top.s].work EXCEPT !.heap = heap], serializers[Top.s].work.others)} :
           /\ heap' = r.work.heap
           /\ serializers' = [serializers EXCEPT ![Top.s].work = [r.work EXCEPT !.heap = 0]]
           /\ warnings' = warnings \o [i \in DOMAIN r.warned |-> [s |-> Top.s, attr |-> r.warned[i]]]
    /\ IF Len(stack) > 1 THEN stack' = Front(stack) /\ UNCHANGED pc
       ELSE stack' = <<Frame(1, serializers[1].body)>> /\ pc' = "writing"
    /\ UNCHANGED <<doc, out>>

-----------------------------------------------------------------------------
(* serialize_tree: the opening tag with the declarations of its own scope. *)
Tag(kind, s, tag, declarations, attrs) ==
    [kind |-> kind, s |-> s, tag |-> tag, declarations |-> declarations, attrs |-> attrs]
OpeningTag(s) ==
    Tag(IF serializers[s].body = <<>> THEN "empty" ELSE "open",
        s, serializers[s].work.tag, Declarations(heap, s), serializers[s].work.attrs)

Writing == pc = "writing" /\ stack # <<>>
Opened == Top.index > 0 \/ (out # <<>> /\ Last(out).kind = "open" /\ Last(out).s = Top.s)
Pop(frames) ==
    /\ stack' = Front(frames)
    /\ pc' = IF Len(frames) = 1 THEN "done" ELSE pc

OpenTag ==
    /\ Writing /\ ~Opened
    /\ out' = Append(out, OpeningTag(Top.s))
    /\ IF Top.children = <<>> THEN Pop(stack) ELSE UNCHANGED <<stack, pc>>
    /\ UNCHANGED <<doc, heap, serializers, warnings>>

WriteChild ==
    /\ Writing /\ Opened /\ HasChild
    /\ LET child == NextChild
       IN  IF child.kind = "element"
           THEN /\ stack' = Append(Advance(stack), Frame(child.s, serializers[child.s].body))
                /\ UNCHANGED out
           ELSE /\ stack' = Advance(stack)
                /\ out' = IF child.kind = "text" THEN out
                          ELSE Append(out, Tag("line", Top.s, child.tag, <<>>, <<>>))
    /\ UNCHANGED <<doc, pc, heap, serializers, warnings>>

CloseTag ==
    /\ Writing /\ Opened /\ ~HasChild
    /\ out' = Append(out, Tag("close", Top.s, serializers[Top.s].work.tag, <<>>, <<>>))
    /\ Pop(stack)
    /\ UNCHANGED <<doc, heap, serializers, warnings>>

Init ==
    /\ doc \in Documents
    /\ pc = "building"
    /\ heap = [scopes |-> <<>>, own |-> <<>>, memo |-> <<>>]
    /\ serializers = <<>> /\ stack = <<>> /\ warnings = <<>> /\ out = <<>>

Next == Start \/ AddText \/ AddLine \/ AddElement \/ Exit \/ OpenTag \/ WriteChild \/ CloseTag
Spec == Init /\ [][Next]_vars

-----------------------------------------------------------------------------
(* The memoized scope of a serializer is the one its ancestors lead to now:  *)
(* no ancestor came to own a scope after its descendants looked for one.   *)
MemoFresh ==
    \A s \in DOMAIN serializers :
        heap.memo[s] # Unset =>
            LET up[a \in 0..Len(serializers)] ==
                    IF a = 0 THEN 0
                    ELSE IF heap.own[a] # 0 THEN heap.own[a] ELSE up[serializers[a].parent]
            IN  heap.memo[s] = up[serializers[s].parent]

(* The serializers whose tags enclose the tag of s, s first.               *)
Path(s) ==
    LET up[a \in 0..Len(serializers)] ==
            IF a = 0 THEN <<>> ELSE <<a>> \o up[serializers[a].parent]
    IN  up[s]
Declared(s) == Range(Declarations(heap, s))

(* What a namespace-aware parser takes a prefix for inside the tag of s.   *)
ReadAs(s, prefix) ==
    LET at == SelectInSeq(Path(s), LAMBDA a : \E ns \in Declared(a) : ns.prefix = prefix)
    IN  IF at = 0 THEN NoUri
        ELSE (CHOOSE ns \in Declared(Path(s)[at]) : ns.prefix = prefix).uri

(* An element of the document around s binds the prefix to a package other *)
(* than uri: the writer keeps such a declaration as it is.                 *)
Rebound(s, prefix, uri) ==
    \E a \in Range(Path(s)) : \E d \in Range(Node(serializers[a].node).attrs) :
        d.declares /\ d.prefix = prefix /\ d.uri \in Packages /\ d.uri # uri

Means(s, ns) ==
    ns.uri = NoUri \/ ns.prefix = <<"xml">> \/ ReadAs(s, ns.prefix) = ns.uri
                   \/ Rebound(s, ns.prefix, ns.uri)

(* Every name written, of a tag, of an attribute or of an xsi:type, is read *)
(* back in the namespace it was written for: the declarations written in    *)
(* the end, on whatever element, serve the names chosen before.  A document *)
(* that binds a prefix anew to another package is the exception.           *)
NamesResolve ==
    pc = "done" =>
        \A i \in DOMAIN out :
            /\ Means(out[i].s, out[i].tag)
            /\ \A a \in Range(out[i].attrs) :
                  (a.prefix # NoPrefix => Means(out[i].s, Ns(a.prefix, a.uri))) /\ Means(out[i].s, a.qname)

(* No tag declares a prefix twice (a document is taken to give no package  *)
(* a prefix that deconfliction makes: c_1, next to a prefix c in conflict). *)
DeclaredOnce ==
    \A s \in DOMAIN serializers :
        LET ds == Declarations(heap, s)
        IN  \A i, j \in DOMAIN ds : ds[i].prefix = ds[j].prefix => i = j

(* No tag carries two attributes written alike, unless one of them lost its *)
(* prefix because its namespace is the default one.                        *)
AttributesDistinct ==
    \A s \in DOMAIN serializers :
        LET as == serializers[s].work.attrs
        IN  \A i, j \in DOMAIN as :
                as[i].prefix = as[j].prefix /\ as[i].name = as[j].name =>
                    i = j \/ as[i].uri # as[j].uri

(* Every other attribute of a written element is written, with its value,  *)
(* or warned about.  One exception, and the code has it: an attribute      *)
(* without a prefix and one of the element's own namespace are written     *)
(* alike, and when both have one local name only the last is.  (Two of one *)
(* namespace under two prefixes are not in a well-formed document.)        *)
Alike(own, f, g) == f.uri = g.uri \/ {f.uri, g.uri} \subseteq {NoUri, own}
Stands(own, b, a) ==
    \E i \in DOMAIN b.from :
        /\ b.from[i].prefix = a.prefix /\ b.from[i].name = a.name
        /\ Alike(own, b.from[i], b.from[Len(b.from)])
NothingLost ==
    pc = "done" =>
        \A s \in DOMAIN serializers :
            LET w == serializers[s].work IN
            \A a \in Range(w.others) :
                \/ \E b \in Range(w.attrs) : Stands(OwnUri(w), b, a)
                \/ [s |-> s, attr |-> a] \in Range(warnings)

(* An element's attributes are all there, and there once.                  *)
AttributesKept == NothingLost /\ AttributesDistinct
=============================================================================
