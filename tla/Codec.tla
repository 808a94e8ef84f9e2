-------------------------------- MODULE Codec --------------------------------
(* The codec package: a behaviour is either the way of one document        *)
(* through hydrate and then project or serialize_xml, or concurrent calls  *)
(* of parse_xml.  Whichever is not under way keeps still.                  *)
EXTENDS CodecJson, CodecBoundary

CONSTANTS NoDocument, NoSources   \* stand for the half that keeps still

vars == <<jsonVars, xmlVars>>
Init ==
    /\ \/ document \in Documents /\ source = NoSources
       \/ document = NoDocument /\ source \in Sources
    /\ JsonInit /\ XmlInit
Next ==
    \/ JsonNext /\ UNCHANGED xmlVars
    \/ XmlNext /\ UNCHANGED jsonVars
Spec == Init /\ [][Next]_vars
=============================================================================
