----------------------------- MODULE MCRegistry -----------------------------
(* Libraries for Registry: a package a with a hierarchy of three types, a   *)
(* package q that extends it, and a package r that needs q.                *)
EXTENDS Registry, TLC

A == Name("", "A")
B == Name("", "B")
C == Name("", "C")
Type(name, supers, extends, props) == [name |-> name, supers |-> supers, extends |-> extends, props |-> props]
Property(local, refines) ==
    [ns |-> Name("", local), isId |-> FALSE, isBody |-> FALSE, refines |-> refines, replaces |-> FALSE]
Of(type, local) == <<type, Name("", local)>>
Package(prefix, types) == [prefix |-> prefix, uri |-> prefix \o "-uri", types |-> types]

x == Property("x", <<>>)
FirstProps == {<<x, Property("w", <<>>)>>, <<[x EXCEPT !.isId = TRUE], [Property("w", <<>>) EXCEPT !.isBody = TRUE]>>}
SecondProps ==
    {<<>>, <<Property("y", Of(A, "x"))>>, <<[Property("y", Of(A, "x")) EXCEPT !.replaces = TRUE, !.isId = TRUE]>>,
     <<[Property("x", Of(A, "x")) EXCEPT !.isId = TRUE], [Property("v", <<>>) EXCEPT !.isId = TRUE]>>}
ThirdProps == {<<Property("z", Of(A, "x"))>>, <<Property("z", Of(B, "y"))>>, <<[Property("x", Of(B, "x")) EXCEPT !.isId = TRUE]>>}
ThirdSupers == {<<A, B>>, <<B, A>>, <<Name("", "Element"), B>>}
Extends == {<<Name("a", "A")>>, <<Name("a", "B"), Name("a", "C")>>, <<Name("a", "B"), Name("r", "R")>>}
TraitProps == {<<Property("t", <<>>)>>, <<Property("y", <<>>)>>, <<Property("t", <<Name("a", "A"), Name("a", "x")>>)>>}

Library(first, second, third, supers, extends, traits) ==
    "a" :> Package("a", <<Type(A, <<>>, <<>>, first), Type(B, <<A>>, <<>>, second), Type(C, supers, <<>>, third),
                          Type(Name("", "D"), <<>>, <<Name("r", "R")>>, <<>>)>>)
    @@ "p" :> Package("a", <<Type(A, <<>>, <<>>, first), Type(B, <<A>>, <<>>, second), Type(C, supers, <<>>, third)>>)
    @@ "q" :> Package("q", <<Type(Name("", "U"), <<>>, <<>>, <<Property("u", <<>>)>>), Type(Name("", "T"), <<Name("", "U")>>, extends, traits)>>)
    @@ "r" :> Package("r", <<Type(Name("", "R"), <<Name("a", "B")>>, <<>>, <<>>),
                             Type(Name("", "S"), <<>>, <<Name("q", "T")>>, <<>>)>>)

(* Every way to refine, then every way to inherit and to extend.           *)
MCLibraries ==
    {Library(f, s, t, <<B, A>>, <<Name("a", "B"), Name("a", "C")>>, <<Property("t", <<>>)>>) :
        f \in FirstProps, s \in SecondProps, t \in ThirdProps}
    \cup {Library(<<x>>, <<>>, <<Property("z", Of(A, "x"))>>, u, e, p) : u \in ThirdSupers, e \in Extends, p \in TraitProps}
=============================================================================
