--------------------------- MODULE ProfileSchema ---------------------------
(***************************************************************************)
(* The closed JSON Schema validator (profile/_schema.py): a schema is      *)
(* audited for the keywords and patterns of the closed subset before a     *)
(* document is validated against it.                                       *)
(*                                                                         *)
(* A JSON value is a record with one field: null, boolean, halves (a       *)
(* number counted in halves), text (a sequence of characters), items, or   *)
(* fields.  A schema is a record of its keywords ([holds |-> b] when it is *)
(* Boolean); properties and defs are sequences of [name, schema].  A       *)
(* reference names a document of the registry, or "#", and a definition.   *)
(***************************************************************************)
EXTENDS Naturals, Integers, Sequences, SequencesExt, FiniteSets, Functions

CONSTANTS
    Matches,       \* texts each pattern of the inventory matches
    MaxSchemaDepth \* _MAX_DEPTH

VARIABLES
    library,  \* schema documents by name, and the document values, never change
    pending,  \* schemas to audit, each with its document; the last is next
    audited,  \* schemas audited
    loading   \* "audit", then "valid", "invalid" or a code
schemaVars == <<library, pending, audited, loading>>

Keywords == {"schema", "id", "comment", "title", "defs", "ref", "type", "properties", "required",
             "additionalProperties", "items", "minItems", "maxItems", "uniqueItems", "minLength", "pattern", "enum",
             "const", "minimum", "maximum", "exclusiveMinimum", "exclusiveMaximum", "allOf", "anyOf", "oneOf", "not",
             "if", "then", "else"}
Has(record, key) == key \in DOMAIN record
IsBoolean(schema) == Has(schema, "holds")

(* _resolve_ref: an external target becomes the resource its own           *)
(* references resolve in.                                                  *)
Target(schema, doc) == [schema |-> schema, doc |-> doc]
Unresolved == [code |-> "profile-schema-ref"]
Document(ref, doc) == IF ref.uri = "#" THEN doc ELSE ref.uri
ResolveInPlace(ref, doc) == \* mutant: references of an external target resolve in the referring schema
    IF Document(ref, doc) \notin DOMAIN library.documents THEN Unresolved
    ELSE LET root == library.documents[Document(ref, doc)]
             named == IF Has(root, "defs") THEN SelectSeq(root.defs, LAMBDA d : d.name = ref.name) ELSE <<>>
         IN  IF ref.name = "" THEN Target(root, doc)
             ELSE IF named = <<>> THEN Unresolved ELSE Target(named[1].schema, doc)
Resolve(ref, doc) ==
    IF Document(ref, doc) \notin DOMAIN library.documents THEN Unresolved
    ELSE LET root == library.documents[Document(ref, doc)]
             named == IF Has(root, "defs") THEN SelectSeq(root.defs, LAMBDA d : d.name = ref.name) ELSE <<>>
         IN  IF ref.name = "" THEN Target(root, Document(ref, doc))
             ELSE IF named = <<>> THEN Unresolved ELSE Target(named[1].schema, Document(ref, doc))

-----------------------------------------------------------------------------
(* _audit_keywords: a worklist of schemas.  A reference is resolved even   *)
(* when no document reaches it; only the target of an external one is      *)
(* audited, local definitions are met where they stand.  (The size limit   *)
(* of the audit is out of reach of the instances and left out.)            *)
KeyCodes(s) ==
    {"profile-schema-keyword" : k \in DOMAIN s \ Keywords}
    \cup {"profile-schema-keyword" : x \in {y \in {"additionalProperties"} : Has(s, y) /\ ~IsBoolean(s[y])}}
    \cup {"profile-schema-pattern" : x \in {y \in {"pattern"} : Has(s, y) /\ s[y] \notin DOMAIN Matches}}
Listed(s, key) == IF Has(s, key) THEN s[key] ELSE <<>>
Named(s, key) == [i \in DOMAIN Listed(s, key) |-> Listed(s, key)[i].schema]
Single(s, key) == IF Has(s, key) THEN <<s[key]>> ELSE <<>>
Branches(s) ==
    Named(s, "properties") \o Named(s, "defs") \o Single(s, "items") \o Single(s, "not") \o Single(s, "if")
    \o Single(s, "then") \o Single(s, "else") \o Listed(s, "allOf") \o Listed(s, "anyOf") \o Listed(s, "oneOf")

SchemaStop(code) == loading' = code /\ UNCHANGED <<library, pending, audited>>
AuditNext ==
    LET top == Last(pending)
        s == top.schema
        target == IF Has(s, "ref") THEN Resolve(s.ref, top.doc) ELSE top
        external == target # Unresolved /\ target.doc # top.doc /\ target \notin audited
        branches == [i \in DOMAIN Branches(s) |-> Target(Branches(s)[i], top.doc)]
    IN  /\ loading = "audit" /\ pending # <<>>
        /\ IF IsBoolean(s) \/ top \in audited
           THEN pending' = Front(pending) /\ UNCHANGED <<library, audited, loading>>
           ELSE IF KeyCodes(s) # {} THEN \E c \in KeyCodes(s) : SchemaStop(c)
           ELSE IF target = Unresolved THEN SchemaStop("profile-schema-ref")
           ELSE /\ pending' = Front(pending) \o (IF external THEN <<target>> ELSE <<>>) \o branches
                /\ audited' = audited \cup {top} /\ UNCHANGED <<library, loading>>

-----------------------------------------------------------------------------
(* _validate_at: checks in order, each "valid", "invalid" or a code; the   *)
(* first that is not "valid" decides.                                      *)
IsValid(b) == IF b THEN "valid" ELSE "invalid"
Decide(checks) ==
    LET failed == SelectSeq(checks, LAMBDA c : c # "valid") IN IF failed = <<>> THEN "valid" ELSE failed[1]
OfType(name, v) ==
    CASE name = "null" -> Has(v, "null")
      [] name = "boolean" -> Has(v, "boolean")
      [] name = "integer" -> Has(v, "halves") /\ v.halves % 2 = 0
      [] name = "number" -> Has(v, "halves")
      [] name = "string" -> Has(v, "text")
      [] name = "array" -> Has(v, "items")
      [] name = "object" -> Has(v, "fields")
      [] OTHER -> FALSE
Holds(s, key, Test(_)) == ~Has(s, key) \/ Test(s[key])
NumberHolds(s, n) ==
    /\ Holds(s, "minimum", LAMBDA m : n >= m) /\ Holds(s, "maximum", LAMBDA m : n <= m)
    /\ Holds(s, "exclusiveMinimum", LAMBDA m : n > m) /\ Holds(s, "exclusiveMaximum", LAMBDA m : n < m)
ListHolds(s, items) ==
    /\ Holds(s, "minItems", LAMBDA m : Len(items) >= m) /\ Holds(s, "maxItems", LAMBDA m : Len(items) <= m)
    /\ Holds(s, "uniqueItems", LAMBDA u : u => IsInjective(items))
TextChecks(s, text) ==
    <<IsValid(Holds(s, "minLength", LAMBDA m : Len(text) >= m)),
      IF Has(s, "pattern") /\ s.pattern \notin DOMAIN Matches THEN "profile-schema-pattern"
      ELSE IsValid(Holds(s, "pattern", LAMBDA p : text \in Matches[p]))>>
Closed(s, fields) ==
    Has(s, "additionalProperties") /\ ~s.additionalProperties.holds /\ Has(s, "properties")
        => DOMAIN fields \subseteq {s.properties[i].name : i \in DOMAIN s.properties}

(* any() over branches stops at the first that holds or refuses.           *)
AnyOf(results) ==
    LET found == SelectSeq(results, LAMBDA r : r # "invalid") IN IF found = <<>> THEN "invalid" ELSE found[1]
OneOf(results) ==
    LET refused == SelectSeq(results, LAMBDA r : r \notin {"valid", "invalid"})
    IN  IF refused # <<>> THEN refused[1] ELSE IsValid(Len(SelectSeq(results, LAMBDA r : r = "valid")) = 1)
Negate(r) == CASE r = "valid" -> "invalid" [] r = "invalid" -> "valid" [] OTHER -> r

RECURSIVE ValidateAt(_, _, _, _)
ValidateAt(s, v, doc, depth) ==
    LET Under(sub, x) == ValidateAt(sub, x, doc, depth + 1)
        Each(key) == [i \in DOMAIN Listed(s, key) |-> Under(Listed(s, key)[i], v)]
        target == Resolve(s.ref, doc)
        present == SelectSeq(Listed(s, "properties"), LAMBDA p : p.name \in DOMAIN v.fields)
        condition == Under(s["if"], v)
        branch == IF condition = "valid" THEN "then" ELSE "else"
    IN  IF depth > MaxSchemaDepth THEN "invalid"
        ELSE IF IsBoolean(s) THEN IsValid(s.holds)
        ELSE Decide(<<
            IF ~Has(s, "ref") THEN "valid" ELSE IF target = Unresolved THEN "profile-schema-ref"
            ELSE ValidateAt(target.schema, v, target.doc, depth + 1),
            IsValid(Holds(s, "type", LAMBDA names : \E i \in DOMAIN names : OfType(names[i], v))),
            IsValid(Holds(s, "enum", LAMBDA e : v \in Range(e))),
            IsValid(Holds(s, "const", LAMBDA c : v = c))>>
          \o (IF Has(v, "text") THEN TextChecks(s, v.text) ELSE <<>>)
          \o (IF Has(v, "halves") THEN <<IsValid(NumberHolds(s, v.halves))>> ELSE <<>>)
          \o (IF Has(v, "items")
              THEN <<IsValid(ListHolds(s, v.items))>>
                   \o (IF Has(s, "items") THEN [i \in DOMAIN v.items |-> Under(s.items, v.items[i])] ELSE <<>>)
              ELSE <<>>)
          \o (IF Has(v, "fields")
              THEN <<IsValid(Holds(s, "required", LAMBDA r : Range(r) \subseteq DOMAIN v.fields))>>
                   \o [i \in DOMAIN present |-> Under(present[i].schema, v.fields[present[i].name])]
                   \o <<IsValid(Closed(s, v.fields))>>
              ELSE <<>>)
          \o Each("allOf")
          \o <<IF Has(s, "anyOf") THEN AnyOf(Each("anyOf")) ELSE "valid",
               IF Has(s, "oneOf") THEN OneOf(Each("oneOf")) ELSE "valid",
               IF Has(s, "not") THEN Negate(Under(s["not"], v)) ELSE "valid",
               IF ~Has(s, "if") THEN "valid" ELSE IF condition \notin {"valid", "invalid"} THEN condition
               ELSE IF Has(s, branch) THEN Under(s[branch], v) ELSE "valid">>)

Validate ==
    /\ loading = "audit" /\ pending = <<>>
    /\ SchemaStop(ValidateAt(library.documents["schema"], library.document, "schema", 0))

SchemaInit == pending = <<Target(library.documents["schema"], "schema")>> /\ audited = {} /\ loading = "audit"
CheckSchema == AuditNext \/ Validate

-----------------------------------------------------------------------------
(* What a reference means where it stands: a definition of the document it *)
(* names, or of its own document.                                          *)
Defined(ref, doc) ==
    LET home == IF ref.uri = "#" THEN doc ELSE ref.uri
        root == library.documents[home]
    IN  {Target(s, home) : s \in IF ref.name = "" THEN {root}
                                 ELSE {root.defs[i].schema : i \in {j \in DOMAIN root.defs : root.defs[j].name = ref.name}}}

(* The schema with its references replaced by what they mean, k deep.      *)
RECURSIVE Inlined(_, _, _)
Inlined(s, doc, k) ==
    LET Inline(sub) == Inlined(sub, doc, k - 1)
        target == CHOOSE x \in Defined(s.ref, doc) : TRUE
        plain == [x \in DOMAIN s \ {"ref", "defs"} |->
            CASE x = "properties" -> [i \in DOMAIN s[x] |-> [s[x][i] EXCEPT !.schema = Inline(@)]]
              [] x \in {"items", "not", "if", "then", "else"} -> Inline(s[x])
              [] x \in {"allOf", "anyOf", "oneOf"} -> [i \in DOMAIN s[x] |-> Inline(s[x][i])]
              [] OTHER -> s[x]]
    IN  IF IsBoolean(s) THEN s ELSE IF k = 0 THEN [holds |-> FALSE]
        ELSE IF Has(s, "ref") THEN [allOf |-> <<Inlined(target.schema, target.doc, k - 1), plain>>] ELSE plain

(* A document is valid exactly when it satisfies the schema whose          *)
(* references are written out: an external definition keeps its own        *)
(* document (schemas that do not recur without consuming the document).    *)
ResourcesClosed ==
    loading \in {"valid", "invalid"} =>
        loading = ValidateAt(Inlined(library.documents["schema"], "schema", MaxSchemaDepth \div 2), library.document,
                             "schema", 0)

(* "an external $ref target is audited once under its own root so its      *)
(* patterns and nested references face the same closed checks"             *)
(* (_schema.py:241): whatever a validated schema reaches is closed.        *)
RECURSIVE ReachedSchemas(_, _)
ReachedSchemas(frontier, seen) ==
    LET next == UNION {{Target(Branches(x.schema)[i], x.doc) : i \in DOMAIN Branches(x.schema)}
                       \cup (IF Has(x.schema, "ref") THEN Defined(x.schema.ref, x.doc) ELSE {}) : x \in frontier} \ seen
    IN  IF next = {} THEN seen ELSE ReachedSchemas(next, seen \cup next)
AuditCloses ==
    loading \in {"valid", "invalid"} =>
        LET start == {Target(library.documents["schema"], "schema")}
        IN  \A x \in ReachedSchemas(start, start) : IsBoolean(x.schema) \/ KeyCodes(x.schema) = {}
=============================================================================
