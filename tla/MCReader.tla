------------------------------ MODULE MCReader ------------------------------
(* Values for the constants of Reader: what the attributes of a tag can be. *)
EXTENDS Reader

CONSTANTS i1, i2

Plain == [id |-> None, references |-> <<>>, odd |-> FALSE]
Named(id) == [Plain EXCEPT !.id = id]
To(prop, id) == [prop |-> prop, id |-> id]

MCShapes ==
    {Plain, Named(i2), Named(Illegal),
     [id |-> i1, references |-> <<To("refs", i2), To("refs", i1), To("ref", i1)>>, odd |-> TRUE]}
=============================================================================
