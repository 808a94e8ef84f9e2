---------------------------- MODULE BridgeProofs ----------------------------
(***************************************************************************)
(* Theorems about the bridge, for every set of clients, documents and      *)
(* contexts: its types, that the envelopes it keeps stay valid whatever    *)
(* clients do to the documents they gave, that a guarded update replaces   *)
(* what its client has seen, and that it implements a document session.    *)
(* All but the first need that nobody changes an identity record a result  *)
(* shares with the session: BridgeLeak.cfg shows what happens otherwise.   *)
(***************************************************************************)
EXTENDS Bridge, TLAPS

(* A document is the session's own: no client holds it, and the revision   *)
(* kept with it is its own.                                                *)
SoundIn(e, contents, held_by_clients) ==
    /\ e \in Envelope
    /\ e.ref \in DOMAIN contents \ held_by_clients
    /\ e.revision = RevisionOf(contents[e.ref])
Sound(e) == SoundIn(e, heap, given)

SessionOwns ==
    /\ envelope # None => Sound(envelope)
    /\ \A i \in DOMAIN history : Sound(history[i].envelope)

(* What a client knows is the revision of what it has seen.                *)
Learned ==
    \A c \in Client : known[c] # None => seen[c] \in Content /\ known[c] = RevisionOf(seen[c])

IInv == TypeOK /\ SessionOwns /\ Learned

(* What clients have not given stays as it is, and stays out of their hands. *)
HeapKept == \A ref \in DOMAIN heap \ given :
                ref \in DOMAIN heap' \ given' /\ heap'[ref] = heap[ref]

-----------------------------------------------------------------------------
(* Facts about revisions and envelopes *)

LEMMA RevisionTyped ==
    ASSUME NEW content \in Content
    PROVE  RevisionOf(content) \in Revision
BY DEF RevisionOf, Revision

LEMMA RevisionInjective ==
    ASSUME NEW a, NEW b, RevisionOf(a) = RevisionOf(b)
    PROVE  a = b
BY DEF RevisionOf

LEMMA EnvelopeTyped ==
    ASSUME NEW ref \in Nat \ {0}, NEW content \in Content
    PROVE  /\ EnvelopeOf(ref, content) \in Envelope
           /\ EnvelopeOf(ref, content).ref = ref
           /\ EnvelopeOf(ref, content).revision = RevisionOf(content)
BY RevisionTyped DEF EnvelopeOf, Envelope

LEMMA EnvelopeFields ==
    ASSUME NEW e \in Envelope
    PROVE  e.ref \in Nat \ {0} /\ e.revision \in Revision
BY DEF Envelope

LEMMA NoneApart ==
    None \notin Envelope /\ None \notin Revision /\ None \notin Content
BY NoneAssumption

(* Appending to a sequence, and taking its last element.                   *)
LEMMA AppendAt ==
    ASSUME NEW S, NEW s \in Seq(S), NEW x \in S
    PROVE  /\ Append(s, x) \in Seq(S)
           /\ DOMAIN Append(s, x) = DOMAIN s \cup {Len(s) + 1}
           /\ \A i \in DOMAIN s : Append(s, x)[i] = s[i]
           /\ Append(s, x)[Len(s) + 1] = x
OBVIOUS

LEMMA PopAt ==
    ASSUME NEW S, NEW s \in Seq(S), s # <<>>
    PROVE  /\ s[Len(s)] \in S /\ Len(s) \in DOMAIN s
           /\ SubSeq(s, 1, Len(s) - 1) \in Seq(S)
           /\ DOMAIN SubSeq(s, 1, Len(s) - 1) = 1 .. Len(s) - 1
           /\ \A i \in 1 .. Len(s) - 1 :
                 i \in DOMAIN s /\ SubSeq(s, 1, Len(s) - 1)[i] = s[i]
<1>1. Len(s) \in Nat \ {0}
  OBVIOUS
<1>2. SubSeq(s, 1, Len(s) - 1) = [i \in 1 .. Len(s) - 1 |-> s[i]]
  BY <1>1
<1>3. \A i \in 1 .. Len(s) - 1 : i \in DOMAIN s /\ s[i] \in S
  BY <1>1
<1>4. [i \in 1 .. Len(s) - 1 |-> s[i]] \in Seq(S)
  BY <1>1, <1>3, Len(s) - 1 \in Nat
<1>. QED
  BY <1>1, <1>2, <1>3, <1>4

LEMMA ReplaceAt ==
    ASSUME NEW S, NEW s \in Seq(S), NEW i \in DOMAIN s, NEW x \in S
    PROVE  [s EXCEPT ![i] = x] \in Seq(S) /\ DOMAIN [s EXCEPT ![i] = x] = DOMAIN s
<1>1. Len(s) \in Nat /\ s \in [1 .. Len(s) -> S]
  OBVIOUS
<1>2. [s EXCEPT ![i] = x] \in [1 .. Len(s) -> S]
  BY <1>1
<1>. QED
  BY <1>1, <1>2

LEMMA Twice ==
    ASSUME NEW S, NEW s \in Seq(S), NEW x \in S
    PROVE  /\ s \o <<x, x>> \in Seq(S)
           /\ DOMAIN (s \o <<x, x>>) = 1 .. Len(s) + 2
           /\ \A i \in DOMAIN s : (s \o <<x, x>>)[i] = s[i]
           /\ (s \o <<x, x>>)[Len(s) + 2] = x
OBVIOUS

-----------------------------------------------------------------------------
(* Type correctness *)

LEMMA InitTypes == Init => TypeOK
<1>. SUFFICES ASSUME Init PROVE TypeOK
  OBVIOUS
<1>1. SessionTypes
  <2>1. history = <<>> /\ disposed \in BOOLEAN
    BY DEF Init
  <2>2. <<>> \in Seq(Version)
    OBVIOUS
  <2>. QED
    BY <2>1, <2>2 DEF Init, SessionTypes
<1>2. HeapTypes
  BY DEF Init, HeapTypes
<1>3. ClientTypes
  BY DEF Init, ClientTypes
<1>. QED
  BY <1>1, <1>2, <1>3 DEF TypeOK

(* A result leaves what clients know in its types.                         *)
LEMMA SuccessTypes ==
    ASSUME ClientTypes, NEW c \in Client, NEW operation, NEW expected \in Revision \cup {None},
           NEW e \in Envelope, NEW content \in Content,
           operation \in {"setDefinitions", "getDefinitions", "getSnapshot",
                         "applyCommands", "undo"},
           Success(c, operation, expected, e, content)
    PROVE  ClientTypes'
<1>1. e.revision \in Revision
  BY EnvelopeFields
<1>2. answer' \in Answer
  BY DEF Success, Result, Answer
<1>3. known' \in [Client -> Revision \cup {None}] /\ seen' \in [Client -> Content \cup {None}]
  BY <1>1 DEF Success, ClientTypes
<1>. QED
  BY <1>2, <1>3 DEF ClientTypes

LEMMA RefusedTypes ==
    ASSUME ClientTypes, NEW c \in Client, NEW operation, NEW expected \in Revision \cup {None},
           NEW code \in {"ok", "canvas-disposed", "profile-schema", "snapshot-schema",
                         "operation-error", "document-not-loaded"},
           operation \in {"setDefinitions", "getDefinitions", "getSnapshot",
                         "applyCommands", "undo"},
           Refused(c, operation, expected, code)
    PROVE  ClientTypes'
<1>1. answer' \in Answer
  BY DEF Refused, Result, Answer
<1>. QED
  BY <1>1 DEF Refused, clients, ClientTypes

(* The heap only grows, and what refers to it still does.                  *)
Grown == heap' \in Seq(Content) /\ DOMAIN heap \subseteq DOMAIN heap'

LEMMA SetDefinitionsTypes ==
    ASSUME TypeOK, NEW c \in Client, NEW content \in Content, NEW di \in Di, NEW defect,
           NEW expected \in {None, known[c]},
           SetDefinitions(c, content, di, defect, expected)
    PROVE  TypeOK'
<1>. DEFINE code == SetRefusal(defect, expected)
            loaded == EnvelopeOf(Owned, content)
<1>1. expected \in Revision \cup {None}
  BY DEF TypeOK, ClientTypes
<1>2. CASE code # "ok"
  <2>1. code \in {"canvas-disposed", "profile-schema", "snapshot-schema", "operation-error", "ok"}
    BY DEF SetRefusal
  <2>2. ClientTypes'
    BY <1>1, <1>2, <2>1, RefusedTypes DEF SetDefinitions, TypeOK
  <2>. QED
    BY <1>2, <2>2 DEF SetDefinitions, TypeOK, SessionTypes, HeapTypes, held
<1>3. CASE code = "ok"
  <2>1. /\ Owned \in Nat \ {0} /\ Given \in DOMAIN heap' /\ Owned \in DOMAIN heap'
        /\ Grown
    <3>1. heap' = heap \o <<content, content>>
      BY <1>3 DEF SetDefinitions
    <3>2. heap \in Seq(Content) /\ Len(heap) \in Nat /\ DOMAIN heap = 1 .. Len(heap)
      BY DEF TypeOK, HeapTypes
    <3>3. heap' \in Seq(Content) /\ DOMAIN heap' = 1 .. Len(heap) + 2
      BY <3>1, <3>2, Twice
    <3>. QED
      BY <3>2, <3>3 DEF Owned, Given, Grown
  <2>2. loaded \in Envelope /\ loaded.ref = Owned
    BY <2>1, EnvelopeTyped
  <2>3. ClientTypes'
    <3>1. Success(c, "setDefinitions", expected, loaded, content)
      BY <1>3 DEF SetDefinitions
    <3>. QED
      BY <1>1, <2>2, <3>1, SuccessTypes DEF TypeOK
  <2>4. envelope' = loaded /\ importedDi' = di /\ UNCHANGED <<disposed, context>>
    BY <1>3 DEF SetDefinitions
  <2>5. /\ history' \in Seq(Version)
        /\ \A i \in DOMAIN history' : history'[i].envelope.ref \in DOMAIN heap
    <3>1. CASE envelope = None
      BY <1>3, <3>1 DEF SetDefinitions, TypeOK, SessionTypes, HeapTypes
    <3>2. CASE envelope # None
      <4>1. WithOwnDi(di) \in Version /\ WithOwnDi(di).envelope.ref \in DOMAIN heap
        BY <3>2 DEF TypeOK, SessionTypes, HeapTypes, WithOwnDi, Version
      <4>2. history' = Append(history, WithOwnDi(di))
        BY <1>3, <3>2 DEF SetDefinitions
      <4>. QED
        BY <4>1, <4>2, AppendAt DEF TypeOK, SessionTypes, HeapTypes
    <3>. QED
      BY <3>1, <3>2
  <2>6. HeapTypes'
    BY <1>3, <2>1, <2>2, <2>4, <2>5 DEF SetDefinitions, TypeOK, HeapTypes, Share, Grown
  <2>. QED
    BY <2>2, <2>3, <2>4, <2>5, <2>6 DEF TypeOK, SessionTypes
<1>. QED
  BY <1>2, <1>3

(* The operations that look at the loaded document.                        *)
LEMMA ReadTypes ==
    ASSUME TypeOK, ClientTypes', envelope # None,
           UNCHANGED <<session, heap, given>>, returned' = returned \/ Share(envelope.ref)
    PROVE  TypeOK'
BY DEF TypeOK, SessionTypes, HeapTypes, Share, session

LEMMA RefusedReadTypes ==
    ASSUME TypeOK, ClientTypes', UNCHANGED <<session, heap, given, returned>>
    PROVE  TypeOK'
BY DEF TypeOK, SessionTypes, HeapTypes, session

LEMMA LoadedCodes ==
    ASSUME TypeOK
    PROVE  /\ Loaded \in {"canvas-disposed", "document-not-loaded", "ok"}
           /\ Loaded = "ok" => /\ envelope # None /\ envelope \in Envelope
                               /\ heap[envelope.ref] \in Content
BY DEF Loaded, TypeOK, SessionTypes, HeapTypes

LEMMA GetTypes ==
    ASSUME TypeOK, NEW c \in Client, NEW operation \in {"getDefinitions", "getSnapshot"},
           Get(c, operation)
    PROVE  TypeOK'
<1>1. CASE Loaded # "ok"
  <2>1. ClientTypes'
    BY <1>1, LoadedCodes, RefusedTypes DEF Get, TypeOK
  <2>. QED
    BY <1>1, <2>1, RefusedReadTypes DEF Get
<1>2. CASE Loaded = "ok"
  <2>1. ClientTypes'
    BY <1>2, LoadedCodes, SuccessTypes DEF Get, TypeOK
  <2>. QED
    BY <1>2, <2>1, LoadedCodes, ReadTypes DEF Get
<1>. QED
  BY <1>1, <1>2

LEMMA ApplyCommandsTypes ==
    ASSUME TypeOK, NEW c \in Client, known[c] # None, NEW empty \in BOOLEAN,
           ApplyCommands(c, known[c], empty)
    PROVE  TypeOK'
<1>1. known[c] \in Revision \cup {None}
  BY DEF TypeOK, ClientTypes
<1>2. CASE Loaded # "ok"
  <2>1. ClientTypes'
    BY <1>1, <1>2, LoadedCodes, RefusedTypes DEF ApplyCommands, TypeOK
  <2>. QED
    BY <1>2, <2>1, RefusedReadTypes DEF ApplyCommands
<1>3. CASE Loaded = "ok"
  <2>1. ClientTypes'
    <3>1. CASE envelope.revision = known[c] /\ empty
      <4>1. Success(c, "applyCommands", known[c], envelope, heap[envelope.ref])
        BY <1>3, <3>1 DEF ApplyCommands
      <4>. QED
        BY <1>1, <1>3, <4>1, LoadedCodes, SuccessTypes DEF TypeOK
    <3>2. CASE ~(envelope.revision = known[c] /\ empty)
      <4>1. Refused(c, "applyCommands", known[c], "operation-error")
        BY <1>3, <3>2 DEF ApplyCommands
      <4>. QED
        BY <1>1, <4>1, RefusedTypes DEF TypeOK
    <3>. QED
      BY <3>1, <3>2
  <2>. QED
    BY <1>3, <2>1, LoadedCodes, ReadTypes DEF ApplyCommands
<1>. QED
  BY <1>2, <1>3
LEMMA UndoTypes ==
    ASSUME TypeOK, NEW c \in Client, Undo(c)
    PROVE  TypeOK'
<1>1. CASE disposed \/ history = <<>>
  <2>. DEFINE code == IF disposed THEN "canvas-disposed" ELSE "operation-error"
  <2>1. Refused(c, "undo", None, code)
    BY <1>1 DEF Undo
  <2>2. code \in {"canvas-disposed", "operation-error"}
    OBVIOUS
  <2>3. ClientTypes'
    BY <2>1, <2>2, RefusedTypes DEF TypeOK
  <2>. QED
    BY <1>1, <2>3, RefusedReadTypes DEF Undo, session
<1>2. CASE ~(disposed \/ history = <<>>)
  <2>. DEFINE before == history[Len(history)]
  <2>1. history \in Seq(Version) /\ history # <<>>
    BY <1>2 DEF TypeOK, SessionTypes
  <2>2. before \in Version /\ before.envelope.ref \in DOMAIN heap
    BY <2>1, PopAt DEF TypeOK, HeapTypes
  <2>3. /\ before.envelope \in Envelope /\ before.di \in Di
        /\ heap[before.envelope.ref] \in Content
    BY <2>2 DEF Version, TypeOK, HeapTypes
  <2>4. /\ envelope' = before.envelope /\ importedDi' = before.di
        /\ history' = SubSeq(history, 1, Len(history) - 1)
        /\ Success(c, "undo", None, before.envelope, heap[before.envelope.ref])
        /\ Share(before.envelope.ref)
        /\ UNCHANGED <<disposed, context, heap, given>>
    BY <1>2 DEF Undo
  <2>5. ClientTypes'
    BY <2>3, <2>4, SuccessTypes DEF TypeOK
  <2>6. /\ history' \in Seq(Version)
        /\ \A i \in DOMAIN history' : history'[i].envelope.ref \in DOMAIN heap
    BY <2>1, <2>4, PopAt DEF TypeOK, HeapTypes
  <2>7. SessionTypes'
    BY <2>3, <2>4, <2>6 DEF TypeOK, SessionTypes
  <2>8. HeapTypes'
    BY <2>2, <2>4, <2>6 DEF TypeOK, HeapTypes, Share
  <2>. QED
    BY <2>5, <2>7, <2>8 DEF TypeOK
<1>. QED
  BY <1>1, <1>2

LEMMA TamperTypes ==
    ASSUME TypeOK, Tamper
    PROVE  TypeOK'
<1>1. heap \in Seq(Content)
  BY DEF TypeOK, HeapTypes
<1>2. heap' \in Seq(Content) /\ DOMAIN heap' = DOMAIN heap
  <2>1. CASE \E ref \in given, content \in Content : heap' = [heap EXCEPT ![ref] = content]
    <3>1. PICK ref \in given, content \in Content : heap' = [heap EXCEPT ![ref] = content]
      BY <2>1
    <3>2. ref \in DOMAIN heap
      BY DEF TypeOK, HeapTypes
    <3>. QED
      BY <1>1, <3>1, <3>2, ReplaceAt
  <2>2. CASE \E ref \in returned, identity \in Identity :
                 heap' = [heap EXCEPT ![ref].identity = identity]
    <3>1. PICK ref \in returned, identity \in Identity :
              heap' = [heap EXCEPT ![ref].identity = identity]
      BY <2>2
    <3>. DEFINE changed == [heap[ref] EXCEPT !.identity = identity]
    <3>2. ref \in DOMAIN heap
      BY DEF TypeOK, HeapTypes
    <3>3. heap[ref] \in Content
      BY <1>1, <3>2
    <3>4. changed \in Content
      BY <3>3 DEF Content
    <3>5. heap' = [heap EXCEPT ![ref] = changed]
      BY <3>1, Zenon
    <3>. HIDE DEF changed
    <3>. QED
      BY <1>1, <3>2, <3>4, <3>5, ReplaceAt
  <2>. QED
    BY <2>1, <2>2 DEF Tamper
<1>. QED
  BY <1>2 DEF Tamper, TypeOK, SessionTypes, HeapTypes, ClientTypes, session, held, clients

LEMMA TypesStep == TypeOK /\ [Next]_vars => TypeOK'
<1>. SUFFICES ASSUME TypeOK, [Next]_vars PROVE TypeOK'
  OBVIOUS
<1>1. ASSUME NEW c \in Client, NEW content \in Content, NEW di \in Di, NEW defect,
             NEW expected \in {None, known[c]},
             SetDefinitions(c, content, di, defect, expected)
      PROVE  TypeOK'
  BY <1>1, SetDefinitionsTypes
<1>2. ASSUME NEW c \in Client, NEW operation \in {"getDefinitions", "getSnapshot"},
             Get(c, operation)
      PROVE  TypeOK'
  BY <1>2, GetTypes
<1>3. ASSUME NEW c \in Client, Undo(c)
      PROVE  TypeOK'
  BY <1>3, UndoTypes
<1>4. ASSUME NEW c \in Client, NEW empty \in BOOLEAN, known[c] # None,
             ApplyCommands(c, known[c], empty)
      PROVE  TypeOK'
  BY <1>4, ApplyCommandsTypes
<1>5. ASSUME NEW new \in Context, SetDescriptorContext(new)
      PROVE  TypeOK'
  BY <1>5 DEF SetDescriptorContext, TypeOK, SessionTypes, HeapTypes, ClientTypes, held, clients
<1>6. CASE Dispose
  BY <1>6 DEF Dispose, TypeOK, SessionTypes, HeapTypes, ClientTypes, held, clients
<1>7. CASE Tamper
  BY <1>7, TamperTypes
<1>8. CASE UNCHANGED vars
  BY <1>8 DEF vars, TypeOK, SessionTypes, HeapTypes, ClientTypes, session, held, clients
<1>. QED
  BY <1>1, <1>2, <1>3, <1>4, <1>5, <1>6, <1>7, <1>8 DEF Next

(* Every variable keeps its type, whatever clients do.                     *)
THEOREM TypeCorrect == Spec => []TypeOK
<1>. QED
  BY InitTypes, TypesStep, PTL DEF Spec
-----------------------------------------------------------------------------
(* The documents of the session, as long as results are left alone *)

LEMMA GivenKept ==
    ASSUME TypeOK, NEW content \in Content,
           heap' = heap \o <<content, content>>, given' = given \cup {Given}
    PROVE  /\ HeapKept
           /\ Owned \in DOMAIN heap' \ given' /\ heap'[Owned] = content
<1>1. heap \in Seq(Content) /\ Len(heap) \in Nat /\ DOMAIN heap = 1 .. Len(heap)
      /\ given \subseteq DOMAIN heap
  BY DEF TypeOK, HeapTypes
<1>2. /\ DOMAIN heap' = 1 .. Len(heap) + 2
      /\ \A i \in DOMAIN heap : heap'[i] = heap[i]
      /\ heap'[Len(heap) + 2] = content
  BY <1>1, Twice
<1>. QED
  BY <1>1, <1>2 DEF HeapKept, Given, Owned

LEMMA TamperKeeps ==
    ASSUME TypeOK, "returned" \notin Tampers, Tamper
    PROVE  HeapKept
<1>1. PICK ref \in given, content \in Content : heap' = [heap EXCEPT ![ref] = content]
  BY DEF Tamper
<1>. QED
  BY <1>1 DEF Tamper, HeapKept, held

LEMMA KeptSound ==
    ASSUME NEW e, Sound(e), HeapKept
    PROVE  SoundIn(e, heap', given')
BY DEF Sound, SoundIn, HeapKept

LEMMA SessionOwnsKept ==
    ASSUME SessionOwns, HeapKept, UNCHANGED <<envelope, history>>
    PROVE  SessionOwns'
BY KeptSound DEF SessionOwns, Sound

(* A result about a sound envelope teaches its client its content.         *)
LEMMA SuccessLearned ==
    ASSUME TypeOK, Learned, NEW c \in Client, NEW operation, NEW expected,
           NEW e, NEW content \in Content, e.revision = RevisionOf(content),
           Success(c, operation, expected, e, content)
    PROVE  Learned'
BY DEF Success, Learned, TypeOK, ClientTypes

LEMMA LearnedKept ==
    ASSUME Learned, UNCHANGED clients
    PROVE  Learned'
BY DEF Learned, clients

LEMMA SetDefinitionsInv ==
    ASSUME IInv, NEW c \in Client, NEW content \in Content, NEW di \in Di, NEW defect,
           NEW expected \in {None, known[c]},
           SetDefinitions(c, content, di, defect, expected)
    PROVE  SessionOwns' /\ Learned'
<1>. DEFINE code == SetRefusal(defect, expected)
            loaded == EnvelopeOf(Owned, content)
<1>1. CASE code # "ok"
  BY <1>1, SessionOwnsKept, LearnedKept
     DEF SetDefinitions, Refused, IInv, held, HeapKept
<1>2. CASE code = "ok"
  <2>1. /\ heap' = heap \o <<content, content>> /\ given' = given \cup {Given}
        /\ envelope' = loaded
        /\ history' = IF envelope = None THEN history ELSE Append(history, WithOwnDi(di))
        /\ Success(c, "setDefinitions", expected, loaded, content)
    BY <1>2 DEF SetDefinitions
  <2>2. HeapKept /\ Owned \in DOMAIN heap' \ given' /\ heap'[Owned] = content
    BY <2>1, GivenKept DEF IInv
  <2>3. Owned \in Nat \ {0}
    BY DEF Owned, IInv, TypeOK, HeapTypes
  <2>4. SoundIn(loaded, heap', given') /\ loaded.revision = RevisionOf(content)
    BY <2>2, <2>3, EnvelopeTyped DEF SoundIn
  <2>5. Learned'
    BY <2>1, <2>4, SuccessLearned DEF IInv
  <2>6. \A i \in DOMAIN history' : SoundIn(history'[i].envelope, heap', given')
    <3>1. \A i \in DOMAIN history : SoundIn(history[i].envelope, heap', given')
      BY <2>2, KeptSound DEF IInv, SessionOwns
    <3>2. CASE envelope = None
      BY <2>1, <3>1, <3>2
    <3>3. CASE envelope # None
      <4>1. SoundIn(WithOwnDi(di).envelope, heap', given') /\ WithOwnDi(di) \in Version
        BY <2>2, <3>3, KeptSound
           DEF IInv, SessionOwns, WithOwnDi, TypeOK, SessionTypes, Version
      <4>2. history' = Append(history, WithOwnDi(di)) /\ history \in Seq(Version)
        BY <2>1, <3>3 DEF IInv, TypeOK, SessionTypes
      <4>. QED
        BY <3>1, <4>1, <4>2, AppendAt
    <3>. QED
      BY <3>2, <3>3
  <2>. QED
    BY <2>1, <2>4, <2>5, <2>6 DEF SessionOwns, Sound
<1>. QED
  BY <1>1, <1>2

LEMMA ReadInv ==
    ASSUME IInv, NEW c \in Client, NEW operation, NEW expected,
           UNCHANGED <<session, heap, given>>,
           \/ UNCHANGED clients
           \/ envelope # None /\ Success(c, operation, expected, envelope, heap[envelope.ref])
    PROVE  SessionOwns' /\ Learned'
<1>1. SessionOwns'
  BY SessionOwnsKept DEF session, HeapKept, IInv
<1>2. CASE envelope # None /\ Success(c, operation, expected, envelope, heap[envelope.ref])
  <2>1. heap[envelope.ref] \in Content /\ envelope.revision = RevisionOf(heap[envelope.ref])
    BY <1>2 DEF IInv, TypeOK, HeapTypes, SessionOwns, Sound, SoundIn
  <2>. QED
    BY <1>1, <1>2, <2>1, SuccessLearned DEF IInv
<1>. QED
  BY <1>1, <1>2, LearnedKept DEF IInv
LEMMA UndoInv ==
    ASSUME IInv, NEW c \in Client, Undo(c)
    PROVE  SessionOwns' /\ Learned'
<1>1. CASE disposed \/ history = <<>>
  BY <1>1, SessionOwnsKept, LearnedKept DEF Undo, Refused, IInv, HeapKept
<1>2. CASE ~(disposed \/ history = <<>>)
  <2>. DEFINE before == history[Len(history)]
  <2>1. history \in Seq(Version) /\ history # <<>>
    BY <1>2 DEF IInv, TypeOK, SessionTypes
  <2>2. Sound(before.envelope)
    BY <2>1, PopAt DEF IInv, SessionOwns
  <2>3. /\ envelope' = before.envelope
        /\ history' = SubSeq(history, 1, Len(history) - 1)
        /\ Success(c, "undo", None, before.envelope, heap[before.envelope.ref])
        /\ UNCHANGED <<heap, given>>
    BY <1>2 DEF Undo
  <2>4. /\ heap[before.envelope.ref] \in Content
        /\ before.envelope.revision = RevisionOf(heap[before.envelope.ref])
    BY <2>2 DEF Sound, SoundIn, IInv, TypeOK, HeapTypes
  <2>5. Learned'
    BY <2>3, <2>4, SuccessLearned DEF IInv
  <2>6. \A i \in DOMAIN history' : Sound(history'[i].envelope)
    BY <2>1, <2>3, PopAt DEF IInv, SessionOwns
  <2>. QED
    BY <2>2, <2>3, <2>5, <2>6 DEF SessionOwns, Sound
<1>. QED
  BY <1>1, <1>2

LEMMA InitInv == Init => IInv
BY InitTypes DEF Init, IInv, SessionOwns, Learned

LEMMA InvStep ==
    ASSUME "returned" \notin Tampers, IInv, [Next]_vars
    PROVE  IInv'
<1>1. TypeOK'
  BY TypesStep DEF IInv
<1>2. SessionOwns' /\ Learned'
  <2>1. ASSUME NEW c \in Client, NEW content \in Content, NEW di \in Di, NEW defect,
               NEW expected \in {None, known[c]},
               SetDefinitions(c, content, di, defect, expected)
        PROVE  SessionOwns' /\ Learned'
    BY <2>1, SetDefinitionsInv
  <2>2. ASSUME NEW c \in Client, NEW operation, Get(c, operation)
        PROVE  SessionOwns' /\ Learned'
    BY <2>2, ReadInv DEF Get, Refused, Loaded
  <2>3. ASSUME NEW c \in Client, Undo(c)
        PROVE  SessionOwns' /\ Learned'
    BY <2>3, UndoInv
  <2>4. ASSUME NEW c \in Client, NEW empty \in BOOLEAN, ApplyCommands(c, known[c], empty)
        PROVE  SessionOwns' /\ Learned'
    BY <2>4, ReadInv DEF ApplyCommands, Refused, Loaded
  <2>5. ASSUME NEW new \in Context, SetDescriptorContext(new)
        PROVE  SessionOwns' /\ Learned'
    BY <2>5, SessionOwnsKept, LearnedKept DEF SetDescriptorContext, IInv, HeapKept, held
  <2>6. CASE Dispose
    BY <2>6, SessionOwnsKept, LearnedKept DEF Dispose, IInv, HeapKept, held
  <2>7. CASE Tamper
    <3>1. HeapKept
      BY <2>7, TamperKeeps DEF IInv
    <3>. QED
      BY <2>7, <3>1, SessionOwnsKept, LearnedKept DEF Tamper, IInv, session
  <2>8. CASE UNCHANGED vars
    BY <2>8, SessionOwnsKept, LearnedKept DEF vars, IInv, HeapKept, session, held
  <2>. QED
    BY <2>1, <2>2, <2>3, <2>4, <2>5, <2>6, <2>7, <2>8 DEF Next
<1>. QED
  BY <1>1, <1>2 DEF IInv

(* The session owns what it keeps, and clients know what they have seen.   *)
THEOREM Invariance ==
    ASSUME "returned" \notin Tampers
    PROVE  Spec => []IInv
<1>1. IInv /\ [Next]_vars => IInv'
  BY InvStep
<1>. QED
  BY <1>1, InitInv, PTL DEF Spec

(* Whatever clients do to the documents they gave, every envelope of the   *)
(* session, present or past, is still the one of its revision.             *)
THEOREM EnvelopesStayValid ==
    ASSUME "returned" \notin Tampers
    PROVE  Spec => []EnvelopesValid
<1>1. IInv => EnvelopesValid
  BY DEF IInv, SessionOwns, Sound, SoundIn, EnvelopesValid, Valid
<1>. QED
  BY <1>1, Invariance, PTL

-----------------------------------------------------------------------------
(* Guarded updates *)

Replaced ==
    answer' # None /\ envelope' # envelope
      /\ answer'.operation = "setDefinitions" /\ answer'.expected # None
    => envelope # None /\ heap[envelope.ref] = seen[answer'.client]

LEMMA SetDefinitionsReplaces ==
    ASSUME IInv, NEW c \in Client, NEW content \in Content, NEW di \in Di, NEW defect,
           NEW expected \in {None, known[c]},
           SetDefinitions(c, content, di, defect, expected)
    PROVE  Replaced
<1>. DEFINE code == SetRefusal(defect, expected)
<1>1. CASE code # "ok"
  BY <1>1 DEF SetDefinitions, Replaced
<1>2. CASE code = "ok"
  <2>1. Guard(expected)
    BY <1>2 DEF SetRefusal
  <2>2. answer' = [client |-> c, operation |-> "setDefinitions",
                   expected |-> expected, code |-> "ok"]
    BY <1>2 DEF SetDefinitions, Success, Result
  <2>3. SUFFICES ASSUME expected # None
                 PROVE  envelope # None /\ heap[envelope.ref] = seen[c]
    BY <2>2 DEF Replaced
  <2>4. envelope # None /\ envelope.revision = known[c] /\ known[c] # None
    BY <2>1, <2>3 DEF Guard
  <2>5. RevisionOf(heap[envelope.ref]) = RevisionOf(seen[c])
    BY <2>4 DEF IInv, SessionOwns, Sound, SoundIn, Learned
  <2>. QED
    BY <2>4, <2>5, RevisionInjective
<1>. QED
  BY <1>1, <1>2

(* An update with an expected revision replaces the document its client    *)
(* has seen last.                                                          *)
THEOREM UpdatesGuarded ==
    ASSUME "returned" \notin Tampers
    PROVE  Spec => GuardedUpdate
<1>1. IInv /\ [Next]_vars => Replaced \/ UNCHANGED vars
  <2>. SUFFICES ASSUME IInv, Next PROVE Replaced
    OBVIOUS
  <2>1. ASSUME NEW c \in Client, NEW content \in Content, NEW di \in Di, NEW defect,
               NEW expected \in {None, known[c]},
               SetDefinitions(c, content, di, defect, expected)
        PROVE  Replaced
    BY <2>1, SetDefinitionsReplaces
  <2>2. ASSUME NEW c \in Client, Undo(c)
        PROVE  Replaced
    BY <2>2 DEF Undo, Success, Refused, Result, Replaced
  <2>3. CASE UNCHANGED envelope
    BY <2>3 DEF Replaced
  <2>. QED
    BY <2>1, <2>2, <2>3
       DEF Next, Get, ApplyCommands, SetDescriptorContext, Dispose, Tamper, session
<1>. QED
  BY <1>1, Invariance, PTL DEF GuardedUpdate, Replaced, Spec
-----------------------------------------------------------------------------
(* The bridge implements the session *)

Documents == [content : Content, di : Di]
DocumentIn(e, di, contents) == [content |-> contents[e.ref], di |-> di]

LEMMA SequenceEqual ==
    ASSUME NEW S, NEW s \in Seq(S), NEW t \in Seq(S), DOMAIN s = DOMAIN t,
           \A i \in DOMAIN s : s[i] = t[i]
    PROVE  s = t
OBVIOUS

(* The past documents follow the history.                                  *)
Follows ==
    /\ PastDocuments \in Seq(Documents)
    /\ DOMAIN PastDocuments = DOMAIN history /\ Len(PastDocuments) = Len(history)
    /\ \A i \in DOMAIN history : PastDocuments[i] =
          DocumentIn(history[i].envelope, history[i].di, heap)

LEMMA PastFollows == TypeOK /\ SessionOwns => Follows
<1>. SUFFICES ASSUME TypeOK, SessionOwns PROVE Follows
  OBVIOUS
<1>1. history \in Seq(Version) /\ Len(history) \in Nat /\ DOMAIN history = 1 .. Len(history)
  BY DEF TypeOK, SessionTypes
<1>2. ASSUME NEW i \in DOMAIN history
      PROVE  /\ DocumentOf(history[i].envelope, history[i].di) =
                   DocumentIn(history[i].envelope, history[i].di, heap)
             /\ DocumentIn(history[i].envelope, history[i].di, heap) \in Documents
  <2>1. history[i] \in Version
    BY <1>1
  <2>2. history[i].envelope \in Envelope /\ history[i].di \in Di
    BY <2>1 DEF Version
  <2>3. heap[history[i].envelope.ref] \in Content
    BY DEF TypeOK, HeapTypes
  <2>. QED
    BY <2>2, <2>3, NoneApart DEF DocumentOf, DocumentIn, Documents
<1>3. PastDocuments \in [1 .. Len(history) -> Documents]
  BY <1>1, <1>2 DEF PastDocuments
<1>. QED
  BY <1>1, <1>2, <1>3 DEF PastDocuments, Follows

LEMMA FollowsInv == IInv => Follows
BY PastFollows DEF IInv

LEMMA FollowsNext == IInv' => Follows'
BY FollowsInv, PTL

LEMMA PresentDocument ==
    ASSUME TypeOK
    PROVE  /\ envelope = None => DocumentOf(envelope, importedDi) = None
           /\ envelope # None =>
                /\ DocumentOf(envelope, importedDi) = DocumentIn(envelope, importedDi, heap)
                /\ DocumentOf(envelope, importedDi) \in Documents
                /\ DocumentOf(envelope, importedDi) # None
<1>1. envelope # None => DocumentIn(envelope, importedDi, heap) \in Documents
  BY DEF TypeOK, SessionTypes, HeapTypes, DocumentIn, Documents
<1>2. None \notin Documents
  BY NoneAssumption DEF Documents
<1>. QED
  BY <1>1, <1>2 DEF DocumentOf, DocumentIn

LEMMA KeptDocument ==
    ASSUME NEW e, Sound(e), NEW di, HeapKept
    PROVE  DocumentIn(e, di, heap') = DocumentIn(e, di, heap)
BY DEF Sound, SoundIn, HeapKept, DocumentIn

(* Steps that keep the envelopes and the heap beneath them are stutters.   *)
LEMMA Stutters ==
    ASSUME IInv, IInv', HeapKept, UNCHANGED <<envelope, importedDi, history>>
    PROVE  UNCHANGED <<DocumentOf(envelope, importedDi), PastDocuments>>
<1>1. UNCHANGED DocumentOf(envelope, importedDi)
  BY KeptDocument DEF IInv, SessionOwns, DocumentOf, DocumentIn
<1>2. /\ PastDocuments \in Seq(Documents) /\ PastDocuments' \in Seq(Documents)
      /\ DOMAIN PastDocuments = DOMAIN PastDocuments'
      /\ DOMAIN PastDocuments = DOMAIN history
  BY FollowsInv, FollowsNext DEF Follows
<1>3. \A i \in DOMAIN history : PastDocuments[i] = PastDocuments'[i]
  BY FollowsInv, FollowsNext, KeptDocument DEF Follows, IInv, SessionOwns
<1>. QED
  BY <1>1, <1>2, <1>3, SequenceEqual

LEMMA InitRefines == Init => Promised!Init
<1>. SUFFICES ASSUME Init PROVE Promised!Init
  OBVIOUS
<1>1. PastDocuments = <<>>
  <2>1. history = <<>> /\ TypeOK /\ SessionOwns
    BY InitInv DEF Init, IInv
  <2>2. PastDocuments \in Seq(Documents) /\ Len(PastDocuments) = 0
    BY <2>1, PastFollows DEF Follows
  <2>. QED
    BY <2>2
<1>. QED
  BY <1>1 DEF Init, Promised!Init, DocumentOf

LEMMA SetDefinitionsRefines ==
    ASSUME IInv, IInv', NEW c \in Client, NEW content \in Content, NEW di \in Di, NEW defect,
           NEW expected \in {None, known[c]},
           SetDefinitions(c, content, di, defect, expected)
    PROVE  Promised!Next \/ UNCHANGED Promised!vars
<1>. DEFINE code == SetRefusal(defect, expected)
            loaded == EnvelopeOf(Owned, content)
            new == [content |-> content, di |-> di]
<1>1. CASE code # "ok"
  BY <1>1, Stutters DEF SetDefinitions, held, HeapKept, Promised!vars
<1>2. CASE code = "ok"
  <2>1. /\ heap' = heap \o <<content, content>> /\ given' = given \cup {Given}
        /\ envelope' = loaded /\ importedDi' = di
        /\ history' = IF envelope = None THEN history ELSE Append(history, WithOwnDi(di))
        /\ UNCHANGED disposed /\ ~disposed
    BY <1>2 DEF SetDefinitions, SetRefusal
  <2>2. HeapKept /\ heap'[Owned] = content
    BY <2>1, GivenKept DEF IInv
  <2>3. loaded \in Envelope /\ loaded.ref = Owned
    BY EnvelopeTyped DEF Owned, IInv, TypeOK, HeapTypes
  <2>4. DocumentOf(envelope, importedDi)' = new /\ new \in Documents
    BY <2>1, <2>2, <2>3, NoneApart DEF DocumentOf, Documents
  <2>5. PastDocuments' = IF envelope = None THEN PastDocuments
                         ELSE Append(PastDocuments, DocumentOf(envelope, importedDi))
    <3>1. /\ PastDocuments \in Seq(Documents) /\ PastDocuments' \in Seq(Documents)
          /\ DOMAIN PastDocuments = DOMAIN history /\ Len(PastDocuments) = Len(history)
          /\ DOMAIN PastDocuments' = DOMAIN history'
          /\ \A i \in DOMAIN history' : PastDocuments'[i] =
                DocumentIn(history'[i].envelope, history'[i].di, heap')
      BY FollowsInv, FollowsNext DEF Follows
    <3>2. \A i \in DOMAIN history : PastDocuments[i] =
             DocumentIn(history[i].envelope, history[i].di, heap')
      BY <2>2, FollowsInv, KeptDocument DEF Follows, IInv, SessionOwns
    <3>3. CASE envelope = None
      <4>1. history' = history
        BY <2>1, <3>3
      <4>2. \A i \in DOMAIN history : PastDocuments'[i] = PastDocuments[i]
        BY <3>1, <3>2, <4>1
      <4>3. PastDocuments' = PastDocuments
        BY <3>1, <4>1, <4>2, SequenceEqual
      <4>. QED
        BY <3>3, <4>3
    <3>4. CASE envelope # None
      <4>. DEFINE last == DocumentOf(envelope, importedDi)
      <4>1. last \in Documents /\ last = DocumentIn(envelope, importedDi, heap')
        BY <2>2, <3>4, PresentDocument, KeptDocument DEF IInv, SessionOwns
      <4>2. WithOwnDi(di) \in Version /\ WithOwnDi(di).envelope = envelope
            /\ WithOwnDi(di).di = importedDi
        BY <3>4 DEF IInv, TypeOK, SessionTypes, WithOwnDi, Version
      <4>3. /\ history \in Seq(Version) /\ history' = Append(history, WithOwnDi(di))
        BY <2>1, <3>4 DEF IInv, TypeOK, SessionTypes
      <4>4. /\ DOMAIN history' = DOMAIN history \cup {Len(history) + 1}
            /\ \A i \in DOMAIN history : history'[i] = history[i]
            /\ history'[Len(history) + 1] = WithOwnDi(di)
        BY <4>2, <4>3, AppendAt
      <4>. DEFINE longer == Append(PastDocuments, last)
      <4>5. /\ longer \in Seq(Documents)
            /\ DOMAIN longer = DOMAIN history'
            /\ \A i \in DOMAIN history : longer[i] = PastDocuments[i]
            /\ longer[Len(history) + 1] = last
        BY <3>1, <4>1, <4>4, AppendAt
      <4>6. \A i \in DOMAIN history' : PastDocuments'[i] = longer[i]
        BY <3>1, <3>2, <4>1, <4>2, <4>4, <4>5
      <4>. HIDE DEF longer
      <4>7. PastDocuments' = longer
        BY <3>1, <4>5, <4>6, SequenceEqual
      <4>. QED
        BY <3>4, <4>7 DEF longer
    <3>. QED
      BY <3>3, <3>4
  <2>6. Promised!Load(new)
    BY <2>1, <2>4, <2>5, PresentDocument DEF Promised!Load, IInv
  <2>. QED
    BY <2>4, <2>6 DEF Promised!Next, Documents
<1>. QED
  BY <1>1, <1>2

LEMMA UndoRefines ==
    ASSUME IInv, IInv', NEW c \in Client, Undo(c)
    PROVE  Promised!Next \/ UNCHANGED Promised!vars
<1>1. CASE disposed \/ history = <<>>
  BY <1>1, Stutters DEF Undo, HeapKept, Promised!vars
<1>2. CASE ~(disposed \/ history = <<>>)
  <2>. DEFINE before == history[Len(history)]
  <2>1. history \in Seq(Version) /\ history # <<>>
    BY <1>2 DEF IInv, TypeOK, SessionTypes
  <2>2. /\ envelope' = before.envelope /\ importedDi' = before.di
        /\ history' = SubSeq(history, 1, Len(history) - 1)
        /\ UNCHANGED <<disposed, heap, given>> /\ ~disposed
    BY <1>2 DEF Undo
  <2>3. /\ PastDocuments \in Seq(Documents) /\ PastDocuments # <<>>
        /\ Len(PastDocuments) = Len(history) /\ DOMAIN PastDocuments = DOMAIN history
    BY <2>1, FollowsInv DEF Follows
  <2>4. before \in Version /\ Len(history) \in DOMAIN history
    BY <2>1, PopAt
  <2>5. DocumentOf(envelope, importedDi)' = PastDocuments[Len(PastDocuments)]
    <3>1. before.envelope \in Envelope
      BY <2>4 DEF Version
    <3>. QED
      BY <2>2, <2>3, <2>4, <3>1, FollowsInv, NoneApart DEF Follows, DocumentOf, DocumentIn
  <2>6. PastDocuments' = SubSeq(PastDocuments, 1, Len(PastDocuments) - 1)
    <3>1. /\ PastDocuments' \in Seq(Documents) /\ DOMAIN PastDocuments' = DOMAIN history'
          /\ \A i \in DOMAIN history' : PastDocuments'[i] =
                DocumentIn(history'[i].envelope, history'[i].di, heap)
      BY <2>2, FollowsNext DEF Follows
    <3>2. DOMAIN history' = 1 .. Len(history) - 1
          /\ \A i \in 1 .. Len(history) - 1 : i \in DOMAIN history /\ history'[i] = history[i]
      BY <2>1, <2>2, PopAt
    <3>. DEFINE shorter == SubSeq(PastDocuments, 1, Len(PastDocuments) - 1)
    <3>3. /\ shorter \in Seq(Documents) /\ DOMAIN shorter = 1 .. Len(history) - 1
          /\ \A i \in 1 .. Len(history) - 1 : shorter[i] = PastDocuments[i]
      BY <2>3, PopAt
    <3>4. \A i \in DOMAIN history' : PastDocuments'[i] = shorter[i]
      BY <3>1, <3>2, <3>3, FollowsInv DEF Follows
    <3>. HIDE DEF shorter
    <3>5. PastDocuments' = shorter
      BY <3>1, <3>2, <3>3, <3>4, SequenceEqual
    <3>. QED
      BY <3>5 DEF shorter
  <2>7. Promised!Undo
    BY <2>2, <2>3, <2>5, <2>6 DEF Promised!Undo
  <2>. QED
    BY <2>7 DEF Promised!Next
<1>. QED
  BY <1>1, <1>2

(* The bridge is a document session: every step of it loads a document,    *)
(* brings the one before back, closes the session, or leaves it alone.     *)
THEOREM Refinement ==
    ASSUME "returned" \notin Tampers
    PROVE  Spec => Implements
<1>1. ASSUME IInv, IInv', [Next]_vars
      PROVE  Promised!Next \/ UNCHANGED Promised!vars
  <2>1. ASSUME NEW c \in Client, NEW content \in Content, NEW di \in Di, NEW defect,
               NEW expected \in {None, known[c]},
               SetDefinitions(c, content, di, defect, expected)
        PROVE  Promised!Next \/ UNCHANGED Promised!vars
    BY <1>1, <2>1, SetDefinitionsRefines
  <2>2. ASSUME NEW c \in Client, Undo(c)
        PROVE  Promised!Next \/ UNCHANGED Promised!vars
    BY <1>1, <2>2, UndoRefines
  <2>3. CASE Dispose
    <3>1. UNCHANGED <<DocumentOf(envelope, importedDi), PastDocuments>>
      BY <1>1, <2>3, Stutters DEF Dispose, HeapKept, held
    <3>2. Promised!Close
      BY <2>3, <3>1 DEF Dispose, Promised!Close
    <3>. QED
      BY <3>2 DEF Promised!Next
  <2>4. CASE Tamper
    <3>1. HeapKept
      BY <1>1, <2>4, TamperKeeps DEF IInv
    <3>. QED
      BY <1>1, <2>4, <3>1, Stutters DEF Tamper, session, Promised!vars
  <2>5. CASE UNCHANGED <<envelope, importedDi, history, disposed, heap, given>>
    BY <1>1, <2>5, Stutters DEF HeapKept, Promised!vars
  <2>. QED
    BY <1>1, <2>1, <2>2, <2>3, <2>4, <2>5
       DEF Next, Get, ApplyCommands, SetDescriptorContext, session, held, vars
<1>. QED
  BY <1>1, InitRefines, Invariance, PTL DEF Spec, Implements, Promised!Spec
=============================================================================
