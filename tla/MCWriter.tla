------------------------------ MODULE MCWriter ------------------------------
(* Documents of three elements for Writer: each is one of a few typed and   *)
(* generic elements with declarations that agree, conflict or shadow.      *)
EXTENDS Writer, TLC

CONSTANTS B, D, U, V, Xsi

b == <<"b">>
d == <<"d">>
c == <<"c">>
MCDefault == b :> B @@ d :> D @@ <<"xsi">> :> Xsi
MCPackages == {B, D}

Decl(prefix, uri) == [declares |-> TRUE, prefix |-> prefix, uri |-> uri, name |-> "decl"]
Other(prefix, name) == [declares |-> FALSE, prefix |-> prefix, uri |-> NoUri, name |-> name]

Prop(kind, prefix, name) ==
    [kind |-> kind, prefix |-> prefix, name |-> name, inherited |-> FALSE, virtual |-> FALSE,
     value |-> "given", serialize |-> <<>>, type |-> "t", count |-> 1, nodes |-> <<>>]
Contain(prop, nodes) == [prop EXCEPT !.nodes = nodes]

(* The declarations an element may carry.                                  *)
DeclSets ==
    {<<>>,
     <<Decl(c, B)>>,                      \* a package under another prefix
     <<Decl(NoPrefix, B)>>,               \* as the default namespace
     <<Decl(b, U)>>,                      \* a package's prefix for a foreign uri
     <<Decl(c, U), Decl(d, U)>>,          \* two prefixes for a foreign uri
     <<Decl(c, V), Decl(b, D)>>}          \* a foreign uri, a package's prefix for another package

(* The elements, without their children.                                   *)
TypedNode(prefix, props, others) ==
    [generic |-> FALSE, prefix |-> prefix, uri |-> NoUri, type |-> "u", props |-> props, attrs |-> others]
Generic(prefix, uri, others) ==
    [generic |-> TRUE, prefix |-> prefix, uri |-> uri, type |-> "any", props |-> <<>>, attrs |-> others]

Kinds ==
    {TypedNode(b, <<Prop("attr", b, "name"), Prop("value", d, "line")>>, <<Other(c, "x")>>),
     TypedNode(d, <<Prop("attr", b, "id"), [Prop("attr", b, "name") EXCEPT !.inherited = TRUE],
                [Prop("attr", d, "id") EXCEPT !.value = "default"],
                [Prop("reference", b, "in") EXCEPT !.count = 2]>>, <<Other(NoPrefix, "x")>>),
     Generic(c, U, <<Other(NoPrefix, "name"), Other(b, "name"), Other(c, "name")>>),
     Generic(d, V, <<Other(c, "x"), Other(<<"d", 1>>, "y")>>),
     [Generic(c, NoUri, <<>>) EXCEPT !.props = <<Prop("body", b, "body")>>]}

WithDecls(k, ds) == [k EXCEPT !.attrs = ds \o @]
Holding(k, prop, nodes) == [k EXCEPT !.props = Append(@, Contain(prop, nodes))]

Plain == Prop("contain", b, "child")
Inlined == {Plain, [Plain EXCEPT !.serialize = <<"property">>], [Plain EXCEPT !.serialize = <<<<"xsi">>, "type">>],
            [Plain EXCEPT !.serialize = <<<<"xsi">>, "type">>, !.type = "u"]}

Chain3(k1, k2, k3, p) == [nodes |-> <<Holding(k1, Plain, <<2>>), Holding(k2, p, <<3>>), k3>>]
Fork3(k1, k2, k3, p) == [nodes |-> <<Holding(k1, p, <<2, 3>>), k2, k3>>]

Root == {TypedNode(b, <<Prop("attr", b, "name")>>, ds) : ds \in DeclSets}
Middle == {WithDecls(k, ds) : k \in Kinds, ds \in DeclSets}
Leaf == {WithDecls(k, ds) : k \in Kinds, ds \in {<<>>, <<Decl(c, U), Decl(d, U)>>}}

MCDocuments ==
    {Chain3(k1, k2, k3, Plain) : k1 \in Root, k2 \in Middle, k3 \in Leaf}
        \cup {Fork3(k1, k2, k3, p) : k1 \in {TypedNode(b, <<>>, <<>>)}, k2 \in Middle, k3 \in Leaf, p \in Inlined}
=============================================================================
