------------------------------ MODULE Envelope ------------------------------
(***************************************************************************)
(* Document envelopes (profile/_envelope.py): the semantic projection of a *)
(* native tree, the presentation it leaves out, support bindings, and the  *)
(* checks and the revision of an envelope.                                 *)
(*                                                                         *)
(* A JSON value is [text |-> ...], [items |-> sequence] or [members |->    *)
(* sequence of key and value]; a record of the code with known keys is a   *)
(* function of those keys.  A digest is the value digested: two are equal  *)
(* for equal values only.                                                  *)
(***************************************************************************)
EXTENDS Integers, Sequences, SequencesExt, FiniteSetsExt

CONSTANTS
    PresentationTypes,    \* the $types of the bpmndi, di, dc and bioc namespaces
    NotText,              \* values of record keys that are no strings
    Digests,              \* well-formed digests
    BindingOrder,         \* names of bindings in UTF-16 order
    MaxProjectionDepth,   \* _MAX_PROJECTION_DEPTH
    MaxProjectionNodes    \* _MAX_PROJECTION_NODES

IsText(v) == "text" \in DOMAIN v
IsList(v) == "items" \in DOMAIN v
IsDict(v) == "members" \in DOMAIN v
List(items) == [items |-> items]
Dict(members) == [members |-> members]
MemberOf(v, key) == SelectSeq(v.members, LAMBDA m : m.key = key)
TypeOf(v) == LET m == MemberOf(v, "$type") IN IF m # <<>> /\ IsText(m[1].value) THEN m[1].value.text ELSE "none"
Presentational(v) == IsDict(v) /\ TypeOf(v) \in PresentationTypes
Kept(items) == SelectSeq(items, LAMBDA v : ~Presentational(v))
Parts(v) == IF IsList(v) THEN v.items ELSE IF IsDict(v) THEN [i \in DOMAIN v.members |-> v.members[i].value] ELSE <<>>

-----------------------------------------------------------------------------
(* project_semantic.  A list is copied before its containers are walked;   *)
(* the containers of a member are filled in place, but a list walked as a  *)
(* container of its own is appended to its copy.                           *)
RECURSIVE Copied(_), Projected(_)
Copied(items) ==
    [i \in DOMAIN Kept(items) |-> LET v == Kept(items)[i] IN
        IF IsDict(v) THEN Dict(<<>>) ELSE IF IsList(v) THEN List(Copied(v.items)) ELSE v]
Walked(items) ==
    [i \in DOMAIN Kept(items) |-> LET v == Kept(items)[i] IN IF IsText(v) THEN v ELSE Projected(v)]
InPlace(items) ==
    [i \in DOMAIN Kept(items) |-> LET v == Kept(items)[i] IN
        IF IsList(v) THEN List(Copied(v.items) \o Walked(v.items)) ELSE IF IsDict(v) THEN Projected(v) ELSE v]
DropsDiagrams(key, v) == key = "diagrams" \* mutant: the property goes whatever else it holds
Drops(key, v) == key = "diagrams" /\ IsList(v) /\ Kept(v.items) = <<>>
Projected(v) == \* a dict, or a list among the members or items filled in place
    IF IsList(v) THEN List(InPlace(v.items))
    ELSE LET kept == SelectSeq(v.members, LAMBDA m : ~Presentational(m.value) /\ ~Drops(m.key, m.value))
         IN  Dict([i \in DOMAIN kept |->
                 IF IsText(kept[i].value) THEN kept[i] ELSE [kept[i] EXCEPT !.value = Projected(@)]])

ProjectSemantic(tree) ==
    IF IsList(tree) THEN List(Copied(tree.items) \o Walked(tree.items))
    ELSE IF IsDict(tree) THEN Projected(tree) ELSE tree

(* The containers queued while v is filled; beyond the bounds the          *)
(* projection raises.                                                      *)
Queued(v) ==
    FlattenSeq([i \in DOMAIN Kept(Parts(v)) |-> LET w == Kept(Parts(v))[i] IN
        IF IsDict(w) THEN <<w>> ELSE SelectSeq(Kept(Parts(w)), LAMBDA x : ~IsText(x))])
RECURSIVE Depth(_), Nodes(_)
Depth(v) == IF Queued(v) = <<>> THEN 0 ELSE 1 + Max({Depth(Queued(v)[i]) : i \in DOMAIN Queued(v)})
Nodes(v) == FoldLeft(LAMBDA n, w : n + Nodes(w), Len(Parts(v)), Queued(v))
Bounded(tree) == Depth(tree) <= MaxProjectionDepth /\ Nodes(tree) <= MaxProjectionNodes

(* extract_presentation: what a container holds itself, then what is       *)
(* inside, the last container first.                                       *)
Opened(v) == SelectSeq(Parts(v), LAMBDA w : ~IsText(w) /\ ~Presentational(w))
RECURSIVE Extracted(_)
Extracted(v) ==
    SelectSeq(Parts(v), Presentational)
        \o FlattenSeq([i \in DOMAIN Opened(v) |-> Extracted(Reverse(Opened(v))[i])])

(* The bounds of the extraction are its own: a list is a level like a      *)
(* dict, and every value met outside presentation is counted.  Beyond      *)
(* them it raises.                                                         *)
RECURSIVE Levels(_), Visits(_)
Levels(v) == IF Opened(v) = <<>> THEN 0 ELSE 1 + Max({Levels(w) : w \in Range(Opened(v))})
Visits(v) == FoldLeft(LAMBDA n, w : n + Visits(w), Len(Parts(v)), Opened(v))
Extractable(tree) == Levels(tree) <= MaxProjectionDepth /\ Visits(tree) <= MaxProjectionNodes

(* make_imported_di                                                        *)
ImportedDi(tree) == [descriptorDigest |-> "", diagrams |-> Extracted(tree)]

-----------------------------------------------------------------------------
(* Bindings                                                                *)
BindingKeys == <<"ownerId", "role", "targetId">>
NameAt(b, key) == IF key \in DOMAIN b THEN b[key] ELSE ""
RankOf(name) == IF name = "" THEN 0 ELSE CHOOSE i \in DOMAIN BindingOrder : BindingOrder[i] = name
SortsBefore(a, b) ==
    \E k \in 1..3 : /\ RankOf(NameAt(a, BindingKeys[k])) < RankOf(NameAt(b, BindingKeys[k]))
                    /\ \A j \in 1..(k - 1) : NameAt(a, BindingKeys[j]) = NameAt(b, BindingKeys[j])
SortBindings(bindings) == SortSeq(bindings, SortsBefore)

WellFormed(b) == DOMAIN b = Range(BindingKeys) /\ \A key \in DOMAIN b : b[key] \notin NotText \cup {""}
SameRole(a, b) == a.ownerId = b.ownerId /\ a.role = b.role
ValidateBindings(bindings) == \* the first binding that is malformed or a conflict decides
    LET malformed == {i \in DOMAIN bindings : ~WellFormed(bindings[i])}
        conflicting == {i \in DOMAIN bindings \ malformed :
                            \E j \in 1..(i - 1) : j \notin malformed /\ SameRole(bindings[i], bindings[j])}
    IN  IF malformed \cup conflicting = {} THEN "ok"
        ELSE IF Min(malformed \cup conflicting) \in malformed THEN "profile-schema" ELSE "support-binding-conflict"

-----------------------------------------------------------------------------
(* Envelopes                                                               *)
IdentityKeys == {"mechanismVersion", "schemaVersion", "profile", "version", "sha256", "base", "descriptors"}
ValidIdentity(p) ==
    /\ DOMAIN p = IdentityKeys
    /\ p.profile \notin NotText /\ p.version \notin NotText
    /\ p.mechanismVersion = "1" /\ p.schemaVersion = "1.0.0" /\ p.sha256 \in Digests
    /\ ~IsText(p.base) /\ IsList(p.descriptors)
ValidTree(tree) == IsDict(tree) /\ TypeOf(tree) # "none"

SemanticRevision(tree, identity, bindings) ==
    [tree |-> ProjectSemantic(tree), profileIdentity |-> identity, bindings |-> SortBindings(bindings)]

CompleteEnvelope(identity, tree, bindings) ==
    [documentVersion |-> "1", profileIdentity |-> identity, tree |-> ProjectSemantic(tree),
     bindings |-> List(SortBindings(bindings)),
     semanticRevision |-> SemanticRevision(ProjectSemantic(tree), identity, SortBindings(bindings))]

EnvelopeKeys == {"documentVersion", "profileIdentity", "tree", "bindings", "semanticRevision"}
ValidateEnvelope(e, committed) ==
    IF DOMAIN e # EnvelopeKeys THEN "profile-schema"
    ELSE IF e.documentVersion # "1" THEN "document-version-unsupported"
    ELSE IF ~ValidIdentity(e.profileIdentity) \/ ~ValidTree(e.tree) \/ ~IsList(e.bindings) THEN "profile-schema"
    ELSE IF ValidateBindings(e.bindings.items) # "ok" THEN ValidateBindings(e.bindings.items)
    ELSE IF ~Bounded(e.tree) THEN "resource-limit" \* raised, as a ValueError
    ELSE IF committed /\ ProjectSemantic(e.tree) # e.tree THEN "profile-schema"
    ELSE IF e.semanticRevision # SemanticRevision(e.tree, e.profileIdentity, e.bindings.items) THEN "profile-schema"
    ELSE "ok"

(* import_envelope: a source that does not decode to an object is refused; *)
(* a tree becomes an envelope without bindings.  (What JSON cannot hold    *)
(* does not come out of the codec.)                                        *)
ImportCode(source) ==
    IF source.decoded # "value" THEN "document-not-loaded"
    ELSE IF ~IsDict(source.tree) THEN "document-not-loaded"
    ELSE IF ~Bounded(source.tree) THEN "resource-limit" ELSE "ok"
ImportedEnvelope(source, identity) == CompleteEnvelope(identity, source.tree, <<>>)

(* initial_base_revision                                                   *)
InitialBaseRevision(format, source) ==
    [domain |-> "profile-import/1", format |-> format, sourceDigest |-> source]
=============================================================================
