------------------------------ MODULE Session ------------------------------
(***************************************************************************)
(* What a document session promises, whatever it is made of: one document, *)
(* the documents before it, and an end.  A document is loaded, or the one  *)
(* before it comes back; nothing else changes what the session holds.      *)
(***************************************************************************)
EXTENDS Naturals, Sequences

CONSTANTS Document,   \* the documents: content and presentation
          None        \* no document loaded yet

VARIABLES document, past, open

vars == <<document, past, open>>

Init == document = None /\ past = <<>> /\ open = TRUE

Load(d) ==
    /\ open
    /\ document' = d
    /\ past' = IF document = None THEN past ELSE Append(past, document)
    /\ UNCHANGED open

Undo ==
    /\ open /\ past # <<>>
    /\ document' = past[Len(past)]
    /\ past' = SubSeq(past, 1, Len(past) - 1)
    /\ UNCHANGED open

Close ==
    /\ open' = FALSE
    /\ UNCHANGED <<document, past>>

Next == (\E d \in Document : Load(d)) \/ Undo \/ Close

Spec == Init /\ [][Next]_vars
=============================================================================
