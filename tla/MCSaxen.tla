------------------------------ MODULE MCSaxen ------------------------------
(* Values for the constants of Saxen. *)
EXTENDS Saxen, TLC

CONSTANTS xmlns, p, ns0, ns1, ns2, u1, u2

AllPrefixes == {xmlns, p, ns0, ns1, ns2}
AnonPrefixes == <<ns0, ns1, ns2>>
NothingKnown == [u \in Uri |-> None]
UriSymmetry == Permutations(Uri)
OneKnown == [u \in Uri |-> IF u = u1 THEN p ELSE None]
=============================================================================
