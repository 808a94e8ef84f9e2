------------------------------- MODULE Reader -------------------------------
(***************************************************************************)
(* The XML reader of bpmn_io/moddle_xml/read.py: one call of from_xml.     *)
(*                                                                         *)
(* The parser calls back for every opening tag, closing tag and text.  The *)
(* reader keeps a stack of handlers, one per open tag above the root       *)
(* handler, builds the elements, indexes them by id, and records the       *)
(* references, which it resolves once the document is read.  In strict     *)
(* mode a node it cannot handle ends the parse; in lax mode the node is    *)
(* skipped with its subtree, and a warning is collected.                   *)
(*                                                                         *)
(* A meta-model is abstracted to what the reader does with a property: an  *)
(* element has a many-valued and a single containment, a many-valued and a *)
(* single reference, and simple values; how a tag relates to its parent is *)
(* one of Relations.  Names, attribute values and body texts are left out, *)
(* except the texts that are ids.                                          *)
(***************************************************************************)
EXTENDS Naturals, Sequences, SequencesExt

CONSTANTS
    Id,           \* legal ids
    Illegal,      \* a text that is not a legal id
    None,         \* no id, no text, nothing
    Shapes,       \* the attributes opening tags can have: a set of Shape
    MaxTags,      \* bound: opening tags
    MaxTexts,     \* bound: texts, cdata sections and xml preambles
    MaxWarnings   \* MAX_WARNINGS

Text == Id \cup {Illegal}
Reference == [prop : {"ref", "refs"}, id : Text]
Shape == [id : Text \cup {None}, references : Seq(Reference), odd : BOOLEAN]

ASSUME IdAssumption == Illegal \notin Id /\ None \notin Text
ASSUME ShapesAssumption == Shapes \subseteq Shape
ASSUME BoundsAssumption == MaxTags \in Nat /\ MaxTexts \in Nat /\ MaxWarnings \in Nat

(* What a tag is to the element around it.                                 *)
Relations == {"children", "child", "refs", "ref", "value", "any", "unknown"}

VARIABLES
    pc,          \* "reading", "resolving", "done" or "failed"
    lax,         \* the reader is lenient
    stack,       \* the handlers
    depth,       \* the open tags, as the parser counts them
    root,        \* the element of the root handler, or 0
    elements,    \* all elements created, in document order
    byId,        \* elements_by_id, 0 for an id not indexed
    references,  \* the references recorded
    resolved,    \* how many of them are resolved
    warnings,    \* the warnings collected
    cause,       \* why the parse failed
    tags, texts  \* how many were read (bounds)

treeVars == <<root, elements, byId>>
vars == <<pc, lax, stack, depth, treeVars, references, resolved, warnings, cause, tags, texts>>

-----------------------------------------------------------------------------
Kinds == {"root", "element", "generic", "value", "reference", "noop", "none"}
Handler(kind, at) == [kind |-> kind, at |-> at, body |-> None]
Noop == Handler("noop", 0)

Top == Last(stack)
Owner(h) == IF h.kind = "root" THEN root ELSE h.at

(* What a property holds: an element, or the placeholder of a reference.   *)
Entry(to, at) == [to |-> to, at |-> at]
Unset == Entry("nothing", 0)

NewElement(typed, id, parent) ==
    [typed |-> typed, id |-> id, parent |-> parent,
     children |-> <<>>, child |-> Unset, refs |-> <<>>, ref |-> Unset]

Many == {"children", "refs"}
Put(e, prop, entry) ==
    IF prop \in Many THEN [e EXCEPT ![prop] = Append(@, entry)]
                     ELSE [e EXCEPT ![prop] = entry]

-----------------------------------------------------------------------------
(* ParseContext.add_warning                                                *)
AddWarning(ws, w) ==
    IF Len(ws) > MaxWarnings THEN ws
    ELSE Append(ws, IF Len(ws) = MaxWarnings THEN "truncated" ELSE w)

(* ParseContext.add_element accepts no id, or a legal id not yet taken.    *)
AcceptTaken(id) == id # Illegal \* mutant: a duplicate id takes the place of the first
Accepts(id) == id = None \/ (id \in Id /\ byId[id] = 0)

(* _handle_open, once the handler is found or the node refused.            *)
Push(h, ws) ==
    /\ stack' = Append(stack, h)
    /\ warnings' = ws
    /\ UNCHANGED <<pc, cause>>

RefuseUnsaid(ws) == \* mutant: the sink is pushed, and nothing is said
    IF lax THEN Push(Noop, ws)
           ELSE pc' = "failed" /\ cause' = "node" /\ warnings' = ws /\ UNCHANGED stack
RefuseQuietly(ws) == \* mutant: the sink is forgotten
    IF lax THEN warnings' = AddWarning(ws, "node") /\ UNCHANGED <<pc, cause, stack>>
           ELSE pc' = "failed" /\ cause' = "node" /\ warnings' = ws /\ UNCHANGED stack
Refuse(ws) ==
    IF lax THEN Push(Noop, AddWarning(ws, "node"))
           ELSE pc' = "failed" /\ cause' = "node" /\ warnings' = ws /\ UNCHANGED stack

(* Every opening tag.                                                      *)
Opening ==
    /\ pc = "reading" /\ tags < MaxTags
    /\ tags' = tags + 1 /\ depth' = depth + 1
    /\ UNCHANGED <<lax, resolved, texts>>

(* ElementHandler.create_element: the references among the attributes are  *)
(* recorded while the element is built, before its id is looked at.        *)
AttributeReferences(e, shape) ==
    [i \in DOMAIN shape.references |->
        [element |-> e, prop |-> shape.references[i].prop,
         id |-> shape.references[i].id, child |-> FALSE]]
AttributeWarnings(shape) ==
    IF shape.odd THEN AddWarning(warnings, "attribute") ELSE warnings

(* A typed element is created, indexed, and only then attached: when its   *)
(* id is refused, the element and its references stay behind.              *)
CreateTyped(shape, attached, parent, handler) ==
    LET e == Len(elements) + 1
        ok == Accepts(shape.id) IN
    /\ references' = references \o AttributeReferences(e, shape)
    /\ elements' = Append(IF ok THEN attached ELSE elements,
                          NewElement(TRUE, shape.id, IF ok THEN parent ELSE 0))
    /\ byId' = IF ok /\ shape.id # None THEN [byId EXCEPT ![shape.id] = e] ELSE byId
    /\ IF ok THEN Push(handler, AttributeWarnings(shape))
             ELSE Refuse(AttributeWarnings(shape))

(* RootElementHandler: the first tag of the expected type.                 *)
OpenRoot(shape) ==
    /\ Opening
    /\ Top.kind = "root" /\ root = 0
    /\ root' = Len(elements) + 1
    /\ CreateTyped(shape, elements, 0, Handler("root", 0))

OpenWrongRoot ==
    /\ Opening
    /\ Top.kind = "root" /\ root = 0
    /\ Refuse(warnings)
    /\ UNCHANGED <<treeVars, references>>

(* ElementHandler.handle_child, by the property the tag stands for.  The   *)
(* root handler takes a second top-level tag for a child of the first.     *)
InElement == Top.kind = "element" \/ (Top.kind = "root" /\ root # 0)

OpenContained(prop, shape) ==
    /\ Opening /\ InElement
    /\ LET e == Len(elements) + 1
           owner == Owner(Top) IN
       CreateTyped(shape,
                   [elements EXCEPT ![owner] = Put(@, prop, Entry("element", e))],
                   owner, Handler("element", e))
    /\ UNCHANGED root

OpenAny ==
    /\ Opening /\ (InElement \/ Top.kind = "generic")
    /\ LET e == Len(elements) + 1
           owner == Owner(Top) IN
       /\ elements' = Append([elements EXCEPT ![owner] = Put(@, "children", Entry("element", e))],
                             NewElement(FALSE, None, owner))
       /\ Push(Handler("generic", e), warnings)
    /\ UNCHANGED <<root, byId, references>>

OpenReference(prop) ==
    /\ Opening /\ InElement
    /\ LET r == Len(references) + 1
           owner == Owner(Top) IN
       /\ references' = Append(references,
              [element |-> owner, prop |-> prop, id |-> None, child |-> TRUE])
       /\ elements' = [elements EXCEPT ![owner] = Put(@, prop, Entry("placeholder", r))]
       /\ Push(Handler("reference", r), warnings)
    /\ UNCHANGED <<root, byId>>

OpenValue ==
    /\ Opening /\ InElement
    /\ Push(Handler("value", Owner(Top)), warnings)
    /\ UNCHANGED <<treeVars, references>>

(* An unrecognized element; a node within a reference; a node within what  *)
(* has no handler at all.                                                  *)
OpenRefused ==
    /\ Opening /\ (InElement \/ Top.kind \in {"reference", "none"})
    /\ Refuse(warnings)
    /\ UNCHANGED <<treeVars, references>>

(* A node within a simple value: the handler returned for it is None, and  *)
(* is pushed.  A node within a skipped one is skipped.                     *)
OpenIgnored ==
    /\ Opening /\ Top.kind \in {"value", "noop"}
    /\ Push(IF Top.kind = "value" THEN Handler("none", 0) ELSE Noop, warnings)
    /\ UNCHANGED <<treeVars, references>>

-----------------------------------------------------------------------------
(* _handle_close: pop the handler and end it.                              *)
TakeId(r, body) == [references EXCEPT ![r].id = body]

Close ==
    /\ pc = "reading" /\ depth > 0
    /\ depth' = depth - 1
    /\ stack' = Front(stack)
    /\ references' = IF Top.kind = "reference" THEN TakeId(Top.at, Top.body) ELSE references
    /\ IF Top.kind = "none"
       THEN pc' = "failed" /\ cause' = "close"
       ELSE UNCHANGED <<pc, cause>>
    /\ UNCHANGED <<lax, treeVars, resolved, warnings, tags, texts>>

(* _handle_text and _handle_cdata: text that is not blank.  A second text  *)
(* of a body is added to the first, and makes no id.                       *)
TextWarning == Top.kind \in {"none", "element", "root"}

ReadText(text, warned) ==
    /\ pc = "reading" /\ depth > 0 /\ texts < MaxTexts
    /\ texts' = texts + 1
    /\ warned => TextWarning
    /\ Top.kind = "none" => warned
    /\ warnings' = IF warned THEN AddWarning(warnings, "text") ELSE warnings
    /\ stack' = IF Top.kind = "reference"
                THEN [stack EXCEPT ![Len(stack)].body = IF @ = None THEN text ELSE Illegal]
                ELSE stack
    /\ UNCHANGED <<pc, lax, depth, treeVars, references, resolved, cause, tags>>

(* _handle_question: a preamble that names another encoding than UTF-8.    *)
Preamble ==
    /\ pc = "reading" /\ texts < MaxTexts
    /\ texts' = texts + 1
    /\ warnings' = AddWarning(warnings, "encoding")
    /\ UNCHANGED <<pc, lax, stack, depth, treeVars, references, resolved, cause, tags>>

(* The parser reports an error of the document: never lenient.             *)
XmlError ==
    /\ pc = "reading"
    /\ pc' = "failed" /\ cause' = "xml"
    /\ UNCHANGED <<lax, stack, depth, treeVars, references, resolved, warnings, tags, texts>>

EndDocument ==
    /\ pc = "reading" /\ depth = 0 /\ tags > 0
    /\ pc' = "resolving"
    /\ UNCHANGED <<lax, stack, depth, treeVars, references, resolved, warnings, cause, tags, texts>>

-----------------------------------------------------------------------------
(* _resolve_many: the placeholder is replaced, or cut out; a reference of  *)
(* an attribute has none, and is added at the end.                         *)
Position(seq, entry) == {i \in DOMAIN seq : seq[i] = entry}
AppendTarget(seq, r, target) == \* mutant: the target is moved to the end
    LET cut == SelectSeq(seq, LAMBDA entry : entry # Entry("placeholder", r)) IN
    IF target = 0 THEN cut ELSE Append(cut, Entry("element", target))
ResolveMany(seq, r, target) ==
    LET at == Position(seq, Entry("placeholder", r)) IN
    IF at = {} THEN IF target = 0 THEN seq ELSE Append(seq, Entry("element", target))
    ELSE IF target = 0 THEN RemoveAt(seq, CHOOSE i \in at : TRUE)
    ELSE [seq EXCEPT ![CHOOSE i \in at : TRUE] = Entry("element", target)]

Indexed(index, id) == IF id \in Id THEN index[id] ELSE 0
Target(id) == Indexed(byId, id)

(* The property of an element once its reference r is resolved.            *)
Fill(e, prop, r, target) ==
    IF prop = "refs" THEN [e EXCEPT !.refs = ResolveMany(@, r, target)]
    ELSE [e EXCEPT !.ref = IF target = 0 THEN Unset ELSE Entry("element", target)]

(* One round of _resolve_references.                                       *)
Resolve ==
    /\ pc = "resolving" /\ resolved < Len(references)
    /\ resolved' = resolved + 1
    /\ LET r == resolved + 1
           ref == references[r]
           target == Target(ref.id) IN
       /\ warnings' = IF target = 0 THEN AddWarning(warnings, "unresolved") ELSE warnings
       /\ elements' = [elements EXCEPT ![ref.element] = Fill(@, ref.prop, r, target)]
    /\ UNCHANGED <<pc, lax, stack, depth, root, byId, references, cause, tags, texts>>

(* The result, or no root element to return.                               *)
Return ==
    /\ pc = "resolving" /\ resolved = Len(references)
    /\ IF root = 0 THEN pc' = "failed" /\ cause' = "root"
                   ELSE pc' = "done" /\ UNCHANGED cause
    /\ UNCHANGED <<lax, stack, depth, treeVars, references, resolved, warnings, tags, texts>>

-----------------------------------------------------------------------------
Init ==
    /\ pc = "reading" /\ lax \in BOOLEAN
    /\ stack = <<Handler("root", 0)>> /\ depth = 0
    /\ root = 0 /\ elements = <<>> /\ byId = [id \in Id |-> 0]
    /\ references = <<>> /\ resolved = 0 /\ warnings = <<>> /\ cause = None
    /\ tags = 0 /\ texts = 0

Next ==
    \/ \E shape \in Shapes :
          \/ OpenRoot(shape)
          \/ \E prop \in {"children", "child"} : OpenContained(prop, shape)
    \/ \E prop \in {"ref", "refs"} : OpenReference(prop)
    \/ OpenWrongRoot \/ OpenAny \/ OpenValue \/ OpenRefused \/ OpenIgnored
    \/ \E text \in Text, warned \in BOOLEAN : ReadText(text, warned)
    \/ Close \/ Preamble \/ XmlError \/ EndDocument \/ Resolve \/ Return

Spec == Init /\ [][Next]_vars

-----------------------------------------------------------------------------
(* Properties *)

Elements == DOMAIN elements
EntryType == [to : {"element", "placeholder", "nothing"}, at : Nat]
ElementType == [typed : BOOLEAN, id : Text \cup {None}, parent : Nat,
                children : Seq(EntryType), child : EntryType,
                refs : Seq(EntryType), ref : EntryType]
ReferenceType == [element : Nat, prop : {"ref", "refs"}, id : Text \cup {None},
                  child : BOOLEAN]
HandlerType == [kind : Kinds, at : Nat, body : Text \cup {None}]
WarningType == {"node", "attribute", "text", "encoding", "unresolved", "truncated"}

(* Every variable has its type.                                            *)
TypeOK ==
    /\ pc \in {"reading", "resolving", "done", "failed"} /\ lax \in BOOLEAN
    /\ stack \in Seq(HandlerType) /\ depth \in Nat
    /\ root \in Nat /\ elements \in Seq(ElementType) /\ byId \in [Id -> Nat]
    /\ references \in Seq(ReferenceType) /\ resolved \in 0..Len(references)
    /\ warnings \in Seq(WarningType) /\ cause \in {None, "node", "close", "xml", "root"}
    /\ tags \in Nat /\ texts \in Nat

(* There is one handler per open tag above the root handler, whatever was  *)
(* refused or skipped: a closing tag ends the handler its opening tag got. *)
StackAligned ==
    pc \in {"reading", "resolving"} => Len(stack) = depth + 1 /\ Head(stack).kind = "root"

(* The index holds every element of the tree that has a legal id, under    *)
(* its own id and once; what was refused for its id is not in the tree.    *)
InTree(e) == e = root \/ elements[e].parent # 0
IndexExact ==
    /\ \A id \in Id : byId[id] # 0 =>
          /\ byId[id] \in Elements
          /\ elements[byId[id]].id = id /\ InTree(byId[id])
    /\ \A e \in Elements :
          elements[e].id \in Id /\ InTree(e) => byId[elements[e].id] = e

(* When the document is read no placeholder is left, in the tree or        *)
(* outside it.                                                             *)
NoPlaceholderLeft ==
    pc = "done" => \A e \in Elements :
        /\ elements[e].ref.to # "placeholder"
        /\ \A i \in DOMAIN elements[e].refs : elements[e].refs[i].to = "element"

(* The references of a collection are those of the child elements that     *)
(* could be resolved, in document order, and then those of the attribute.  *)
Collect(c, targets, ref) ==
    LET target == Indexed(c.index, ref.id) IN
    IF ref.element = c.element /\ ref.prop = "refs" /\ ref.child = c.child /\ target # 0
    THEN Append(targets, Entry("element", target)) ELSE targets
Targets(e, child) ==
    LET c == [element |-> e, child |-> child, index |-> byId] IN
    FoldLeft(LAMBDA targets, ref : Collect(c, targets, ref), <<>>, references)
ReferencesInOrder ==
    pc = "done" => \A e \in Elements :
        elements[e].refs = Targets(e, TRUE) \o Targets(e, FALSE)

ReferencesResolved == NoPlaceholderLeft /\ ReferencesInOrder

(* A strict reader that succeeds has kept every element of the document.   *)
StrictComplete ==
    pc = "done" /\ ~lax =>
        /\ \A e \in Elements : InTree(e)
        /\ \A i \in DOMAIN warnings : warnings[i] # "node"

(* However many things are wrong with a document, the warnings stay within *)
(* the bound, and say that they were cut.                                  *)
WarningsBounded ==
    /\ Len(warnings) <= MaxWarnings + 1
    /\ \A i \in DOMAIN warnings : warnings[i] = "truncated" <=> i = MaxWarnings + 1

(* A node that a lenient reader passes over with its subtree has its       *)
(* warning, unless the warnings are full.                                  *)
PassesOver == Len(stack') > Len(stack) /\ Last(stack').kind = "noop" /\ Top.kind # "noop"
Says == \E i \in DOMAIN warnings' : i > Len(warnings) /\ warnings'[i] \in {"node", "truncated"}
RefusalSaid == lax /\ PassesOver => Len(warnings) > MaxWarnings \/ Says

(* What a reader passes over it has said: a strict one that returns has    *)
(* passed over nothing, and in a lenient one every outermost node skipped  *)
(* has its warning, up to the bound, or the note that warnings were cut.   *)
LossesKnown == [](TypeOK /\ StrictComplete /\ WarningsBounded) /\ [][RefusalSaid]_vars

(* A lenient reader fails only when the text is not xml or has no root     *)
(* element of the expected type: what it cannot handle becomes a warning   *)
(* (docs/naming.md).                                                       *)
LaxNeverFails == lax /\ pc = "failed" => cause \in {"xml", "root"}
=============================================================================
