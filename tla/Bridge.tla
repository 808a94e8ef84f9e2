------------------------------- MODULE Bridge -------------------------------
(***************************************************************************)
(* The headless bridge of bpmn_io/profile/_bridge.py: one document session *)
(* that several clients load, read and undo, guarded by revisions.         *)
(*                                                                         *)
(* A document is an identity record and a native tree; both are mutable    *)
(* containers, and what the bridge promises depends on who shares them.    *)
(* They are objects of a heap here: a client holds those it has given to   *)
(* the bridge, and the nested containers of an identity record that a      *)
(* result shares with the session (a result holds a shallow copy of the    *)
(* record).  Payloads are deep copies, and so mere values.  A revision is  *)
(* the digest of the content, taken to be free of collisions; bindings are *)
(* a part of the tree here.  The presentation found in a supplied tree is  *)
(* one value of Di.                                                        *)
(***************************************************************************)
EXTENDS Naturals, Sequences

CONSTANTS
    Client,
    Identity,   \* profile identity records
    Tree,       \* semantic trees, free of presentation
    Di,         \* presentation records
    Context,    \* descriptor contexts
    None,       \* nothing
    Tampers,    \* what clients go on to mutate: a subset of {"given", "returned"}
    MaxObjects  \* bound: objects of the heap

Content == [identity : Identity, tree : Tree]
Revision == {"sha256"} \X Content
Envelope == [ref : Nat \ {0}, revision : Revision]
Version == [envelope : Envelope, di : Di]

ASSUME NoneAssumption ==
    None \notin Envelope \cup Revision \cup Content \cup Di \cup Context
      \cup [content : Content, di : Di]
ASSUME TampersAssumption == Tampers \subseteq {"given", "returned"}
ASSUME BoundsAssumption == MaxObjects \in Nat

VARIABLES
    context,     \* descriptor_context: bound, and read by no operation
    envelope,    \* the loaded envelope, or None
    importedDi,  \* imported_di
    history,     \* history
    disposed,    \* disposed
    heap,        \* the contents of the mutable documents, as a sequence
    given,       \* references to the documents clients gave
    returned,    \* references to those whose identity record results share
    known,       \* per client: the revision of its last result, or None
    seen,        \* per client: the content of its last result, or None
    answer       \* the last result: [client, operation, expected, code]

held == <<given, returned>>
clients == <<known, seen>>
session == <<envelope, importedDi, history, disposed, context>>
vars == <<session, heap, held, clients, answer>>

-----------------------------------------------------------------------------
RevisionOf(content) == <<"sha256", content>>
EnvelopeOf(ref, content) == [ref |-> ref, revision |-> RevisionOf(content)]

(* complete_envelope copies what it is given before it keeps it.           *)
Given == Len(heap) + 1
GivenItself == Given \* mutant: the client's own document is kept
Owned == Len(heap) + 2

(* Every result carries an identity record; a successful one carries the   *)
(* document too.                                                           *)
Result(c, operation, expected, code) ==
    answer' = [client |-> c, operation |-> operation, expected |-> expected, code |-> code]
Refused(c, operation, expected, code) ==
    Result(c, operation, expected, code) /\ UNCHANGED clients
Success(c, operation, expected, e, content) ==
    /\ Result(c, operation, expected, "ok")
    /\ known' = [known EXCEPT ![c] = e.revision]
    /\ seen' = [seen EXCEPT ![c] = content]
Share(ref) == returned' = returned \cup {ref}

Init ==
    /\ context = None /\ envelope = None /\ importedDi = None
    /\ history = <<>> /\ disposed = FALSE
    /\ heap = <<>> /\ given = {} /\ returned = {}
    /\ known = [c \in Client |-> None] /\ seen = [c \in Client |-> None]
    /\ answer = None

(* create_bridge with a context, or set_descriptor_context.                *)
SetDescriptorContext(new) ==
    /\ context' = new
    /\ UNCHANGED <<envelope, importedDi, history, disposed, heap, held, clients, answer>>

-----------------------------------------------------------------------------
(* set_definitions.  What can be wrong with the candidate is the envelope  *)
(* or the presentation record given with it; without such a record the     *)
(* presentation is the one found in the tree.  expected is a revision, or  *)
(* None.                                                                   *)
Unguarded(expected) == TRUE \* mutant: the expected revision is not looked at
Guard(expected) == expected = None \/ (envelope # None /\ envelope.revision = expected)

SetRefusal(defect, expected) ==
    IF disposed THEN "canvas-disposed"
    ELSE IF defect = "envelope" THEN "profile-schema"
    ELSE IF defect = "presentation" THEN "snapshot-schema"
    ELSE IF ~Guard(expected) THEN "operation-error"
    ELSE "ok"

(* What undo goes back to: the envelope with its own presentation.         *)
WithNewDi(di) == [envelope |-> envelope, di |-> di] \* mutant: the new presentation is kept
WithOwnDi(di) == [envelope |-> envelope, di |-> importedDi]

SetDefinitions(c, content, di, defect, expected) ==
    LET code == SetRefusal(defect, expected)
        loaded == EnvelopeOf(Owned, content) IN
    /\ UNCHANGED <<disposed, context>>
    /\ IF code # "ok"
       THEN /\ Refused(c, "setDefinitions", expected, code)
            /\ UNCHANGED <<envelope, importedDi, history, heap, held>>
       ELSE /\ Given + 1 <= MaxObjects
            /\ heap' = heap \o <<content, content>>
            /\ given' = given \cup {Given}
            /\ envelope' = loaded
            /\ importedDi' = di
            /\ history' = IF envelope = None THEN history
                          ELSE Append(history, WithOwnDi(di))
            /\ Success(c, "setDefinitions", expected, loaded, content)
            /\ Share(loaded.ref)

(* get_definitions and get_snapshot.                                       *)
Loaded == IF disposed THEN "canvas-disposed"
          ELSE IF envelope = None THEN "document-not-loaded"
          ELSE "ok"

Get(c, operation) ==
    /\ IF Loaded # "ok"
       THEN Refused(c, operation, None, Loaded) /\ UNCHANGED returned
       ELSE /\ Success(c, operation, None, envelope, heap[envelope.ref])
            /\ Share(envelope.ref)
    /\ UNCHANGED <<session, heap, given>>

(* apply_commands: an empty batch against the present revision succeeds    *)
(* and changes nothing, every other one is refused.                        *)
ApplyCommands(c, base, empty) ==
    /\ IF Loaded # "ok"
       THEN Refused(c, "applyCommands", base, Loaded) /\ UNCHANGED returned
       ELSE /\ Share(envelope.ref)
            /\ IF envelope.revision = base /\ empty
               THEN Success(c, "applyCommands", base, envelope, heap[envelope.ref])
               ELSE Refused(c, "applyCommands", base, "operation-error")
    /\ UNCHANGED <<session, heap, given>>

(* undo                                                                    *)
Undo(c) ==
    /\ UNCHANGED <<disposed, context, heap, given>>
    /\ IF disposed \/ history = <<>>
       THEN /\ Refused(c, "undo", None,
                       IF disposed THEN "canvas-disposed" ELSE "operation-error")
            /\ UNCHANGED <<envelope, importedDi, history, returned>>
       ELSE LET before == history[Len(history)] IN
            /\ envelope' = before.envelope
            /\ importedDi' = before.di
            /\ history' = SubSeq(history, 1, Len(history) - 1)
            /\ Success(c, "undo", None, before.envelope, heap[before.envelope.ref])
            /\ Share(before.envelope.ref)

(* dispose: the document and its history stay, unreachable.                *)
Dispose ==
    /\ disposed' = TRUE
    /\ UNCHANGED <<envelope, importedDi, history, context, heap, held, clients, answer>>

-----------------------------------------------------------------------------
(* A client changes a document it has given, or the identity record of one *)
(* that a result shares with the session.                                  *)
Tamper ==
    /\ \/ /\ "given" \in Tampers
          /\ \E ref \in given, content \in Content : heap' = [heap EXCEPT ![ref] = content]
       \/ /\ "returned" \in Tampers
          /\ \E ref \in returned, identity \in Identity :
                heap' = [heap EXCEPT ![ref].identity = identity]
    /\ UNCHANGED <<session, held, clients, answer>>

Next ==
    \/ \E c \in Client, content \in Content, di \in Di,
          defect \in {"none", "envelope", "presentation"} :
          \E expected \in {None, known[c]} : SetDefinitions(c, content, di, defect, expected)
    \/ \E c \in Client :
          \/ Get(c, "getDefinitions") \/ Get(c, "getSnapshot") \/ Undo(c)
          \/ \E empty \in BOOLEAN : known[c] # None /\ ApplyCommands(c, known[c], empty)
    \/ \E new \in Context : SetDescriptorContext(new)
    \/ Dispose \/ Tamper

Spec == Init /\ [][Next]_vars

-----------------------------------------------------------------------------
(* Properties *)

Answer == [client : Client, expected : Revision \cup {None}, code : {"ok", "canvas-disposed", "profile-schema",
               "snapshot-schema", "operation-error", "document-not-loaded"},
           operation : {"setDefinitions", "getDefinitions", "getSnapshot",
                        "applyCommands", "undo"}]

(* Every variable has its type.                                            *)
SessionTypes ==
    /\ context \in Context \cup {None}
    /\ envelope \in Envelope \cup {None} /\ importedDi \in Di \cup {None}
    /\ envelope # None => importedDi \in Di
    /\ history \in Seq(Version) /\ disposed \in BOOLEAN
HeapTypes ==
    /\ heap \in Seq(Content)
    /\ given \subseteq DOMAIN heap /\ returned \subseteq DOMAIN heap
    /\ envelope # None => envelope.ref \in DOMAIN heap
    /\ \A i \in DOMAIN history : history[i].envelope.ref \in DOMAIN heap
ClientTypes ==
    /\ known \in [Client -> Revision \cup {None}] /\ seen \in [Client -> Content \cup {None}]
    /\ answer \in Answer \cup {None}
TypeOK == SessionTypes /\ HeapTypes /\ ClientTypes

(* Every envelope the session keeps, present or past, is the one of its    *)
(* revision: it would validate again, whatever clients did to the          *)
(* documents they gave.                                                    *)
Valid(e) == e.revision = RevisionOf(heap[e.ref])
EnvelopesValid ==
    /\ envelope # None => Valid(envelope)
    /\ \A i \in DOMAIN history : Valid(history[i].envelope)

(* An update with an expected revision replaces the document its client    *)
(* has seen last, whatever other clients loaded or undid in between.       *)
GuardedUpdate ==
    [][/\ answer' # None /\ envelope' # envelope
       /\ answer'.operation = "setDefinitions" /\ answer'.expected # None
       => envelope # None /\ heap[envelope.ref] = seen[answer'.client]]_vars

(* Only an operation of the bridge changes the document it holds: what a   *)
(* client does to a result does not (tests/profile/test_immutability_review.py). *)
ReadsIsolated ==
    [][envelope # None /\ envelope' = envelope => heap'[envelope.ref] = heap[envelope.ref]]_vars

(* The bridge implements the session.                                      *)
DocumentOf(e, di) == IF e = None THEN None ELSE [content |-> heap[e.ref], di |-> di]
PastDocuments == [i \in DOMAIN history |-> DocumentOf(history[i].envelope, history[i].di)]
Promised == INSTANCE Session WITH
    Document <- [content : Content, di : Di],
    document <- DocumentOf(envelope, importedDi),
    past <- PastDocuments,
    open <- ~disposed
Implements == Promised!Spec
=============================================================================
