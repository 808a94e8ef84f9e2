----------------------------- MODULE Documents -----------------------------
(***************************************************************************)
(* What is done with documents around a profile: the profile lint command  *)
(* (cli.py) accepts an envelope, or makes one of an XML text, before any   *)
(* rule runs; the headless bridge loads envelopes into a session; a host   *)
(* asks whether a document and a profile are compatible.                   *)
(*                                                                         *)
(* A document says where it comes from (source).  The codec and the parser *)
(* are modelled elsewhere: here a document has their answers.              *)
(***************************************************************************)
EXTENDS Compat

CONSTANT MaxLoads  \* bound: envelopes loaded into a session

VARIABLES
    document,  \* the input
    accepted,  \* the envelope accepted for lint and what the codec made of it, or nothing
    session,   \* the envelopes loaded and the presentation kept with each, in order
    decision   \* the compatibility verdict a host asked for
documentVars == <<document, accepted, session, decision>>

NoDocument == [source |-> "native"]   \* lint is called on a tree
Commanded == document.source \in {"envelope", "xml", "unknown"}
Standalone == document.source \in {"session", "question"}

-----------------------------------------------------------------------------
(* The command.  Its runtime is fixed, and it holds the exact profile.     *)
LintRuntime ==
    [mechanisms |-> {"1"}, schemas |-> {"1.0.0"}, assets |-> {},
     capabilities |-> {"predicates/1", "selectors/1", "recipes/1", "profile-lint/1", "render-data/1", "export-ir/1"}]
QuestionOfItself(identity, other, version) == \* mutant: the profile is compared with itself
    [runtime |-> LintRuntime, injected |-> identity, document |-> identity, documentVersion |-> version, host |-> Absent,
     snapshot |-> Absent, available |-> TRUE, capabilities |-> {"profile-lint/1"}, assets |-> {}, valid |-> TRUE]
Question(identity, other, version) ==
    [runtime |-> LintRuntime, injected |-> identity, document |-> other, documentVersion |-> version, host |-> Absent,
     snapshot |-> Absent, available |-> TRUE, capabilities |-> {"profile-lint/1"}, assets |-> {}, valid |-> TRUE]
Compatible(identity, e) == CheckCompatibility(Question(identity, e.profileIdentity, e.documentVersion))

(* Nothing is loaded unless the files can be read, the schema is the       *)
(* pinned one and the input is an envelope or has an XML text.             *)
Invoked == document.source # "unknown" /\ document.pinnedSchema

(* The descriptors file is checked, byte for byte, against the first pin   *)
(* of its id.                                                              *)
DescriptorCode(pinned) ==
    LET same == SelectSeq(pinned.items, LAMBDA pin : pin.id = document.descriptors.id)
    IN  Unless(same # <<>> /\ Head(same).sha256 = document.descriptors.sha256, "descriptor-mismatch")

(* _profile_identity leaves the versions of the descriptor pins out.       *)
LintIdentity(declared, digest) ==
    [mechanismVersion |-> "1", schemaVersion |-> "1.0.0", profile |-> declared.profile, version |-> declared.version,
     sha256 |-> digest, base |-> [sha256 |-> declared.base],
     descriptors |-> List([i \in DOMAIN declared.descriptors.items |->
                              [id |-> declared.descriptors.items[i].id, sha256 |-> declared.descriptors.items[i].sha256]])]

(* _tree_from_envelope and _tree_from_xml: the XML is parsed a second time *)
(* for the tree that is linted.                                            *)
Imported(identity) == ImportedEnvelope(document.xml, identity)
Accepting(e, identity, answer) == \* the code, and the envelope accepted
    IF ValidateEnvelope(e, TRUE) # "ok" THEN ValidateEnvelope(e, TRUE)
    ELSE IF Compatible(identity, e) # "ok" THEN Compatible(identity, e) ELSE answer
AcceptCode(identity) ==
    IF document.source = "envelope"
    THEN Accepting(document.envelope, identity, Unless(document.hydrates, "document-not-loaded"))
    ELSE IF ImportCode(document.xml) # "ok" THEN ImportCode(document.xml)
    ELSE Accepting(Imported(identity), identity, Unless(document.reparsed = "definitions", "operation-error"))
Acceptance(identity) ==
    IF document.source = "envelope"
    THEN [envelope |-> document.envelope, base |-> document.envelope.semanticRevision, warnings |-> 0]
    ELSE [envelope |-> Imported(identity), base |-> InitialBaseRevision("bpmn-xml", document.text), warnings |-> document.warnings]
Supports(e) == {[ownerId |-> e.bindings.items[i].ownerId, targetId |-> e.bindings.items[i].targetId] : i \in DOMAIN e.bindings.items}
Accept(identity) == accepted' = <<Acceptance(identity)>> /\ UNCHANGED <<document, session, decision>>

-----------------------------------------------------------------------------
(* set_definitions of the bridge (its refusals, revisions and history are  *)
(* in Bridge): an envelope need not be committable; what is stored is its  *)
(* projection, with the presentation found in the tree.  A client loads    *)
(* the document it has, then the payload of the load before.               *)
Offered == IF session = <<>> THEN document.envelope ELSE Last(session).envelope
Stored(e) == [envelope |-> CompleteEnvelope(e.profileIdentity, e.tree, e.bindings.items), importedDi |-> ImportedDi(e.tree)]
LoadDefinitions ==
    /\ document.source = "session" /\ Len(session) < MaxLoads
    /\ ValidateEnvelope(Offered, FALSE) = "ok" /\ Extractable(Offered.tree)
    /\ session' = Append(session, Stored(Offered))
    /\ UNCHANGED <<document, accepted, decision>>

Decide ==
    /\ document.source = "question" /\ decision = "none"
    /\ decision' = CheckCompatibility(document.question)
    /\ UNCHANGED <<document, accepted, session>>

DocumentsInit == accepted = <<>> /\ session = <<>> /\ decision = "none"

-----------------------------------------------------------------------------
RECURSIVE ListInList(_), Leaves(_, _)
ListInList(v) ==
    \E i \in DOMAIN Parts(v) : (IsList(v) /\ IsList(Parts(v)[i])) \/ ListInList(Parts(v)[i])
(* The scalars outside presentation, each under the keys that lead to it.  *)
KeyAt(v, i) == IF IsDict(v) THEN <<v.members[i].key>> ELSE <<>>
Leaves(v, path) ==
    IF IsText(v) THEN <<<<path, v.text>>>> ELSE IF Presentational(v) THEN <<>>
    ELSE FlattenSeq([i \in DOMAIN Parts(v) |-> Leaves(Parts(v)[i], path \o KeyAt(v, i))])
RECURSIVE Presentations(_)
Presentations(v) == \* in source order
    IF Presentational(v) THEN <<v>> ELSE FlattenSeq([i \in DOMAIN Parts(v) |-> Presentations(Parts(v)[i])])
SameBag(s, t) == Len(s) = Len(t) /\ \A x \in Range(s) : Times(x, s) = Times(x, t)

(* Nothing of a document is lost or doubled when a session loads it: every *)
(* scalar outside presentation is where it was in the stored tree, every   *)
(* presentation value is in the record kept with it, and what is stored is *)
(* an envelope that could be committed again, revision included.  Left out *)
(* are trees with a list in a list, whose lists are doubled, and a root    *)
(* that is presentation itself, which stays in the tree.  (A presentation  *)
(* record the client gives along is kept as it is: only the one made of    *)
(* the tree is meant.)                                                     *)
LoadedTree(i) == IF i = 1 THEN document.envelope.tree ELSE session[i - 1].envelope.tree
ProjectionConserves ==
    \A i \in DOMAIN session : ~ListInList(LoadedTree(i)) /\ ~Presentational(LoadedTree(i)) =>
        LET s == session[i] IN
        /\ SameBag(Leaves(LoadedTree(i), <<>>), Leaves(s.envelope.tree, <<>>))
        /\ SameBag(Presentations(LoadedTree(i)), s.importedDi.diagrams)
        /\ ValidateEnvelope(s.envelope, TRUE) = "ok"

(* "project_semantic(envelope.tree) == envelope.tree"                      *)
(* (tests/profile/test_envelope_review.py:78), whatever the tree.          *)
ProjectionStable ==
    \A i \in DOMAIN session : ProjectSemantic(session[i].envelope.tree) = session[i].envelope.tree

(* The verdict is fair to both sides.  A document is taken only under the  *)
(* identity it was written with, unless the digest of the injected         *)
(* identity is malformed: that one is compared with no other, and "exact   *)
(* and valid" (row 19) is then said of identities that differ in it.  A    *)
(* host or snapshot identity is exact always.  A source package that is    *)
(* not available hides nothing but a migration; and the profile and the    *)
(* document that change places get the opposite step, up or down as their  *)
(* versions are.                                                           *)
Ahead(v, w) == LET a == Versions[v] b == Versions[w] IN a[2] > b[2] \/ (a[2] = b[2] /\ a[3] > b[3])
Ups == {"profile-patch-migration-required", "profile-minor-migration-required"}
Downs == {"profile-patch-downgrade-required", "profile-minor-downgrade-required"}
Swapped(q) == [q EXCEPT !.injected = q.document, !.document = q.injected]
Symmetric(q) ==
    /\ q.documentVersion = "1" /\ Given(q.injected) /\ Given(q.document) /\ q.host = Absent /\ q.snapshot = Absent
    /\ KnownDocument(q.injected) /\ KnownDocument(q.document) /\ Supported(q) = "ok" /\ Supported(Swapped(q)) = "ok"
CompatibilityFair ==
    decision # "none" =>
        LET q == document.question
            known == CheckCompatibility([q EXCEPT !.available = TRUE])
            other == CheckCompatibility(Swapped(q)) IN
        /\ decision = "ok" => /\ q.injected.sha256 \in Digests => SameIdentity(q.injected, q.document)
                              /\ \A x \in {q.host, q.snapshot} : Given(x) => SameIdentity(x, q.document)
        /\ decision \in {known, "profile-source-unavailable"} /\ (decision = "ok" => q.available)
        /\ Symmetric(q) =>
              /\ decision \in Ups => other \in Downs /\ Ahead(q.injected.version, q.document.version)
              /\ decision \in Downs => other \in Ups /\ Ahead(q.document.version, q.injected.version)
              /\ decision \notin Ups \cup Downs => other = decision
=============================================================================
