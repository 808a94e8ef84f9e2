-------------------------- MODULE ProfileEvaluate --------------------------
(***************************************************************************)
(* Evaluation of compiled predicates and selectors over a native tree      *)
(* (profile/_evaluate.py).  Nothing is coerced: an evaluation is refused   *)
(* with a code where an operand has no value of the kind it needs.         *)
(*                                                                         *)
(* A tree maps elements to their type, supertypes, id, properties, parent  *)
(* and contained parts, each with the property that contains it.  Texts    *)
(* are sequences of words; " " is a space.                                 *)
(***************************************************************************)
EXTENDS ProfileCompiler

CONSTANTS
    IdOrder,      \* ids in UTF-16 order
    Cased,        \* words with another case: the word for each mode
    MaxRecursion  \* the interpreter's recursion limit

VARIABLE tree     \* never changes

NoElement == "none"
Missing == [kind |-> "missing"]
Refused(c) == [kind |-> "refused", code |-> c]
Text(words) == [kind |-> "string", words |-> words]

-----------------------------------------------------------------------------
(* Reading the tree                                                        *)
ChildAttributes == {"rootElements", "flowElements", "artifacts", "documentation"}
Parts(e) == [i \in DOMAIN tree[e].parts |-> tree[e].parts[i].element]
ChildrenOf(e) ==
    LET parts == SelectSeq(tree[e].parts, LAMBDA p : p.attr \in ChildAttributes)
    IN  [i \in DOMAIN parts |-> parts[i].element]
RECURSIVE DescendantsOf(_), WalkTree(_)
DescendantsOf(e) ==
    ChildrenOf(e) \o FlattenSeq([i \in DOMAIN ChildrenOf(e) |-> DescendantsOf(ChildrenOf(e)[i])])
(* walk_tree: every contained part, depth first.                           *)
WalkTree(e) == <<e>> \o FlattenSeq([i \in DOMAIN Parts(e) |-> WalkTree(Parts(e)[i])])

ReadPath(e, path) ==
    IF Len(path) = 1 /\ path[1] \in DOMAIN tree[e].props THEN tree[e].props[path[1]] ELSE Missing
Property(e, prop) == ReadPath(e, <<prop>>)

(* A context: root, elements, elements by id, support bindings, notions.   *)
ById(ctx, id) == IF id \in DOMAIN ctx.byId THEN <<ctx.byId[id]>> ELSE <<>>
RECURSIVE Resolved(_, _), PointsAt(_, _)
Resolved(value, ctx) ==
    CASE value.kind = "list" -> FlattenSeq([i \in DOMAIN value.items |-> Resolved(value.items[i], ctx)])
      [] value.kind = "string" -> IF Len(value.words) = 1 THEN ById(ctx, value.words[1]) ELSE <<>>
      [] value.kind = "element" -> <<value.element>>
      [] OTHER -> <<>>
PointsAt(value, e) ==
    CASE value.kind = "list" -> \E i \in DOMAIN value.items : PointsAt(value.items[i], e)
      [] value.kind = "string" -> tree[e].id # NoElement /\ value.words = <<tree[e].id>>
      [] value.kind = "element" -> value.element = e
      [] OTHER -> FALSE

-----------------------------------------------------------------------------
(* Values                                                                  *)
RECURSIVE Trimmed(_)
Trimmed(words) == IF words # <<>> /\ words[1] = " " THEN Trimmed(Tail(words)) ELSE words
Trim(words, trim) == IF trim = "none" THEN words ELSE Trimmed(words)
Cases(words, mode) == [i \in DOMAIN words |-> IF words[i] \in DOMAIN Cased THEN Cased[words[i]][mode] ELSE words[i]]
Strip(words, prefix, trim) ==
    LET text == Trim(words, trim)
    IN  IF IsPrefix(prefix, text) THEN SubSeq(text, Len(prefix) + 1, Len(text)) ELSE words

RECURSIVE EvalValue(_, _)
OnText(value, words) ==
    IF value.kind = "refused" THEN value
    ELSE IF value.kind = "string" THEN Text(words) ELSE Refused("profile-type")
Textual1(value) == OnText(value, value.words)
Stripped1(value, v) == OnText(value, Strip(value.words, v.prefix, v.trim))
Cased1(value, mode) == OnText(value, Cases(value.words, mode))
FirstRefused(parts) == SelectSeq(parts, LAMBDA p : p.kind = "refused")
Concatenated(parts) ==
    IF FirstRefused(parts) # <<>> THEN Head(FirstRefused(parts))
    ELSE Text(FlattenSeq([i \in DOMAIN parts |-> parts[i].words]))
EvalValue(v, env) ==
    CASE v.op = "literal" -> v.value
      [] v.op = "read" -> IF v.binding \in DOMAIN env THEN ReadPath(env[v.binding], v.path) ELSE Missing
      [] v.op = "id" -> IF v.binding \in DOMAIN env /\ tree[env[v.binding]].id # NoElement
                        THEN Text(<<tree[env[v.binding]].id>>) ELSE Refused("profile-type")
      [] v.op = "param" -> Missing
      [] v.op = "concat" ->
             Concatenated([i \in DOMAIN v.values |-> Textual1(EvalValue(v.values[i], env))])
      [] v.op = "stripPrefix" -> Stripped1(EvalValue(v.value, env), v)
      [] v.op = "case" -> Cased1(EvalValue(v.value, env), v.mode)
      [] v.op \in {"ids", "outputId"} -> Refused("profile-value-context")
      [] OTHER -> Refused("profile-symbol")

-----------------------------------------------------------------------------
(* Reachability: breadth-first layers with a visited set.                  *)
Edges(ctx, types) ==
    UNION {{<<o, t>> : o \in Range(Resolved(Property(e, "sourceRef"), ctx)),
                       t \in Range(Resolved(Property(e, "targetRef"), ctx))} :
           e \in {x \in Range(ctx.elements) : tree[x].type \in types}}
Successors(edges, from) == {e[2] : e \in {d \in edges : d[1] \in from}}
RECURSIVE Layers(_, _, _, _, _, _)
Layers(edges, wanted, min, visited, frontier, hops) ==
    LET reached == Successors(edges, frontier) \ visited
    IN  IF hops[1] = hops[2] THEN FALSE
        ELSE IF hops[1] + 1 >= min /\ reached \cap wanted # {} THEN TRUE
        ELSE reached # {} /\ Layers(edges, wanted, min, visited \cup reached, reached, <<hops[1] + 1, hops[2]>>)
Reachable(edges, starts, wanted, min, max) ==
    \/ min = 0 /\ starts \cap wanted # {}
    \/ Layers(edges, wanted, min, starts, starts, <<0, max>>)

-----------------------------------------------------------------------------
(* Predicates: "holds", "fails" or a code.                                 *)
Verdict(b) == IF b THEN "holds" ELSE "fails"
Bind1(env, name, e) == [n \in DOMAIN env \cup {name} |-> IF n = name THEN e ELSE env[n]]
Bad(results) == SelectSeq(results, LAMBDA r : r \notin {"holds", "fails"})
Comparable(l, r) == l.kind = r.kind /\ l = r

(* Verdicts of the values an operator is given.                            *)
Junction(op, rs) ==
    IF Bad(rs) # <<>> THEN Head(Bad(rs))
    ELSE Verdict(IF op = "all" THEN Range(rs) = {"holds"} ELSE "holds" \in Range(rs))
Negated(r) == IF r = "holds" THEN "fails" ELSE IF r = "fails" THEN "holds" ELSE r
FirstRefusal(l, r, verdict) ==
    IF l.kind = "refused" THEN l.code ELSE IF r.kind = "refused" THEN r.code ELSE verdict
IsPresent(v) == FirstRefusal(v, v, Verdict(v # Missing))
AreEqual(l, r) == FirstRefusal(l, r, Verdict(l # Missing /\ r # Missing /\ Comparable(l, r)))
StartsWith(v, p) ==
    FirstRefusal(v, v, IF v.kind = "missing" THEN "fails" ELSE IF v.kind # "string" THEN "profile-type"
                       ELSE Verdict(IsPrefix(p.prefix, Trim(v.words, p.trim))))
CountVerdict(s, p) ==
    IF s.code # "ok" THEN s.code
    ELSE Verdict(Len(s.handles) >= p.min /\ (Present(p.max) => Len(s.handles) <= p.max.n))
ReachVerdict(from, to, p, max, ctx) ==
    IF max < p.minHops THEN "profile-bounds"
    ELSE IF from.code # "ok" THEN from.code ELSE IF to.code # "ok" THEN to.code
    ELSE Verdict(/\ from.handles # <<>> /\ to.handles # <<>>
                 /\ Reachable(Edges(ctx, p.edgeTypes), Range(from.handles), Range(to.handles), p.minHops, max))

RECURSIVE EvalPredicate(_, _, _, _, _), EvalSelector(_, _, _, _)
EvalPredicate(p, ctx, env, active, depth) ==
    LET Eval(x) == EvalPredicate(x, ctx, env, active, depth + 1)
        Select(x) == EvalSelector(x, ctx, env, depth + 1)
    IN  IF depth = MaxRecursion THEN "profile-type" ELSE
    CASE p.op \in {"true", "false"} -> Verdict(p.op = "true")
      [] p.op \in {"all", "any"} ->
             Junction(p.op, [i \in DOMAIN p.args |-> Eval(p.args[i])])
      [] p.op = "not" -> Negated(Eval(p.arg))
      [] p.op = "typeIs" ->
             IF p.binding \notin DOMAIN env THEN "profile-type"
             ELSE Verdict(\/ tree[env[p.binding]].type = p.type
                          \/ p.mode = "assignable" /\ p.type \in tree[env[p.binding]].supers)
      [] p.op = "present" -> IsPresent(EvalValue(p.value, env))
      [] p.op = "equal" -> AreEqual(EvalValue(p.left, env), EvalValue(p.right, env))
      [] p.op = "textPrefix" -> StartsWith(EvalValue(p.value, env), p)
      [] p.op = "count" -> CountVerdict(Select(p.selector), p)
      [] p.op = "boundRole" ->
             Verdict(/\ {p.binding, p.owner} \subseteq DOMAIN env
                     /\ \E b \in ctx.bindings : /\ b.ownerId = tree[env[p.owner]].id
                                                /\ b.targetId = tree[env[p.binding]].id)
      [] p.op = "recognizes" ->
             IF p.notion \notin DOMAIN ctx.notions THEN "profile-symbol"
             ELSE IF p.notion \in active THEN "profile-cycle"
             ELSE IF p.binding \notin DOMAIN env \/ ~Present(ctx.notions[p.notion]) THEN "fails"
             ELSE EvalPredicate(ctx.notions[p.notion], ctx, Bind1(env, "self", env[p.binding]),
                                active \cup {p.notion}, depth + 1)
      [] p.op = "reachable" ->
             ReachVerdict(Select(p.source), Select(p.target), p,
                          IF Present(p.maxHops) THEN p.maxHops.n ELSE Len(ctx.elements), ctx)
      [] OTHER -> "profile-symbol"

(* Selectors: a code and the handles, unique and in id order, elements     *)
(* without id last.  A where is evaluated anew: nothing is active in it.   *)
Handles(c, hs) == [code |-> c, handles |-> hs]
InIdOrder(hs) ==
    FlattenSeq([i \in DOMAIN IdOrder |-> SelectSeq(hs, LAMBDA e : tree[e].id = IdOrder[i])])
        \o SelectSeq(hs, LAMBDA e : tree[e].id = NoElement)
FirstOf(hs) == SelectSeq([i \in DOMAIN hs |-> <<i, hs[i]>>], LAMBDA h : \A j \in 1..(h[1] - 1) : hs[j] # h[2])
Distinct(hs) == [i \in DOMAIN FirstOf(hs) |-> FirstOf(hs)[i][2]]
Candidates(s, ctx, base) ==
    CASE s.via = "root" -> <<ctx.root>>
      [] s.via = "all" -> ctx.elements
      [] s.via = "owner" -> IF tree[base].parent = NoElement THEN <<>> ELSE <<tree[base].parent>>
      [] s.via = "children" -> ChildrenOf(base)
      [] s.via = "descendants" -> DescendantsOf(base)
      [] s.via = "reference" -> Resolved(Property(base, s.property), ctx)
      [] s.via = "inverseReference" -> SelectSeq(ctx.elements, LAMBDA e : PointsAt(Property(e, s.property), base))
      [] OTHER -> <<base>>
Ordered(s, handles) == IF s.order = "id" THEN InIdOrder(handles) ELSE handles
Seconds(pairs) == [i \in DOMAIN pairs |-> pairs[i][2]]
(* tested: the candidates, each with its verdict.                          *)
Selection(s, tested) ==
    IF Bad([i \in DOMAIN tested |-> tested[i][1]]) # <<>>
    THEN Handles(Head(Bad([i \in DOMAIN tested |-> tested[i][1]])), <<>>)
    ELSE Handles("ok", Ordered(s, Seconds(SelectSeq(tested, LAMBDA t : t[1] = "holds"))))
TestEach(s, ctx, env, depth, found) ==
    [i \in DOMAIN found |->
        <<IF Present(s.where) THEN EvalPredicate(s.where, ctx, Bind1(env, "self", found[i]), {}, depth + 1) ELSE "holds",
          found[i]>>]
EvalSelector(s, ctx, env, depth) ==
    IF depth = MaxRecursion THEN Handles("profile-type", <<>>)
    ELSE IF s.from \notin DOMAIN env \cup {"root"} THEN Handles("profile-symbol", <<>>)
    ELSE IF s.via \in RenderVia THEN Handles("profile-value-context", <<>>)
    ELSE Selection(s, TestEach(s, ctx, env, depth,
             Distinct(Candidates(s, ctx, IF s.from = "root" THEN ctx.root ELSE env[s.from]))))
=============================================================================
