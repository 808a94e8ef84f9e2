---------------------------- MODULE CodecBoundary ----------------------------
(***************************************************************************)
(* bpmn_io/codec/xml_boundary.py and codec/_scan.py: parse_xml, for calls  *)
(* of several threads at once.                                             *)
(*                                                                         *)
(* A call decodes its bytes and checks their size, scans the markup with a *)
(* stack of namespace scopes, counts elements with the tokenizer, builds   *)
(* its model, and then runs the native reader with its warning sink, a     *)
(* method of the class ParseContext, replaced for the time of the call.    *)
(* The diagnostics are the scan's observations and the native warnings.    *)
(*                                                                         *)
(* A source is a record: how it decodes, its sizes, whether its            *)
(* descriptors are acceptable, and its tokens.  The native reader and the  *)
(* tokenizer are external: their outcomes are chosen.  Coordinates,        *)
(* details and character classes are left out.                             *)
(***************************************************************************)
EXTENDS Naturals, Sequences, SequencesExt, FiniteSets, TLC

CONSTANTS
    Calls,        \* calls of parse_xml
    Sources,      \* possible sources of all the calls: functions on Calls
    Natives,      \* possible outcomes of the native reader
    XmlLimits,    \* [raw, decoded, elements, depth, attrs, name, value, warnings]
    XmlUri, ReservedAttributes

VARIABLES
    source,       \* source[c], never changes
    step,         \* step[c]: see Steps
    scan,         \* scan[c]: the scanner's state
    native,       \* native[c]: the outcome of the native reader, once begun
    given,        \* given[c]: how many of its warnings were given to the sink
    sink,         \* ParseContext.add_warning: "native", or the call recording
    saved,        \* saved[c]: the sink the call replaced
    recorded,     \* recorded[c]: <<call, n>> of the warnings recorded
    kept,         \* kept[c]: the n of those the reader of c itself kept
    result        \* result[c]: its diagnostics
xmlVars == <<source, step, scan, native, given, sink, saved, recorded, kept, result>>

Steps == {"decode", "scan", "count", "patch", "construct", "restore", "report", "done", "refused"}
First(codes) == <<[code |-> Head(codes), of |-> <<>>]>>
When(condition, code) == IF condition THEN <<code>> ELSE <<>>
Over(seq, op(_)) == FlattenSeq([i \in DOMAIN seq |-> op(i)])

Become(c, next) == step' = [step EXCEPT ![c] = next]
Stop(c, codes) == Become(c, "refused") /\ result' = [result EXCEPT ![c] = First(codes)]

-----------------------------------------------------------------------------
(* decode_source and _check_input_sizes                                    *)
DecodeCodes(s) ==
    CASE ~s.bytes \/ s.declared = "latin" -> <<>>
      [] s.bytes /\ s.declared \in {"none", "utf-8"} -> When(~s.utf8, "invalid-encoding")
      [] OTHER -> <<"unsupported-encoding">>
SizeCodes(s) ==
    When(s.raw > XmlLimits.raw, "xml-input-size-limit") \o When(s.decoded > XmlLimits.decoded, "xml-input-size-limit")
(* A marker is searched for in the whole text, inside a comment as well.   *)
Marked(s, marker) == \E i \in DOMAIN s.tokens : s.tokens[i].kind \in {marker, "commented-" \o marker}
MarkerCodes(s) ==
    When(Marked(s, "doctype"), "xml-doctype-forbidden") \o When(Marked(s, "entity"), "xml-entity-declaration-forbidden")
NewScan == [next |-> 1, scopes |-> <<[p \in {} |-> ""]>>, events |-> <<>>]
Decode(c) ==
    /\ step[c] = "decode"
    /\ LET codes == DecodeCodes(source[c]) \o SizeCodes(source[c]) \o MarkerCodes(source[c])
       IN  IF codes # <<>> THEN Stop(c, codes) ELSE Become(c, "scan") /\ UNCHANGED result
    /\ UNCHANGED <<source, scan, native, given, sink, saved, recorded, kept>>

-----------------------------------------------------------------------------
(* The scanner                                                             *)
(* _check_entity_refs; a reference over 0xFFFF is an observation.          *)
RefCodes(refs) ==
    LET bad == SelectSeq(refs, LAMBDA r : r \in {"unknown", "overlong"})
    IN  When(bad # <<>>, "xml-entity-reference-unsupported")
RefEvents(refs) == [i \in DOMAIN SelectSeq(refs, LAMBDA r : r = "wide") |-> "numeric-truncation"]

IsDeclaration(a) == a.prefix = "xmlns" \/ (a.prefix = "" /\ a.local = "xmlns")
Declared(a) == IF a.prefix = "xmlns" THEN a.local ELSE ""
MalformedName == "?"
Extended(scope, attrs) ==
    FoldLeft(LAMBDA sc, a : IF IsDeclaration(a) THEN (Declared(a) :> a.value) @@ sc ELSE sc, scope, attrs)
Bound(prefix, scope) == prefix \in {"", "xml", "xmlns"} \cup DOMAIN scope
UriOf(a, scope) == CASE a.prefix = "xml" -> XmlUri
                     [] a.prefix # "" /\ a.prefix \in DOMAIN scope -> scope[a.prefix]
                     [] OTHER -> ""
DeclarationCodes(attrs, i) ==
    When(\E j \in 1..(i - 1) : IsDeclaration(attrs[j]) /\ Declared(attrs[j]) = Declared(attrs[i]), "duplicate-namespace")
    \o When(Declared(attrs[i]) = "xml" /\ attrs[i].value # XmlUri, "invalid-namespace")
SameWritten(a, b, scope) == a.prefix = b.prefix /\ a.local = b.local
SameExpanded(a, b, scope) == UriOf(a, scope) = UriOf(b, scope) /\ a.local = b.local
AttributeCodes(attrs, i, scope) ==
    LET a == attrs[i]
        earlier == {j \in 1..(i - 1) : ~IsDeclaration(attrs[j])}
    IN  When(a.prefix = "" /\ a.local \in ReservedAttributes, "reserved-name")
        \o When(a.local = MalformedName, "malformed-qname")
        \o When(~Bound(a.prefix, scope), "unbound-prefix")
        \o When(\E j \in earlier : SameExpanded(attrs[j], a, scope), "duplicate-attribute")
OpenCodes(t, scope) ==
    When(t.local = MalformedName, "malformed-qname")
    \o Over(t.attrs, LAMBDA i : When(IsDeclaration(t.attrs[i]) /\ t.attrs[i].local = MalformedName, "malformed-qname"))
    \o Over(t.attrs, LAMBDA i : RefCodes(t.attrs[i].refs)
                                \o (IF IsDeclaration(t.attrs[i]) THEN DeclarationCodes(t.attrs, i)
                                    ELSE AttributeCodes(t.attrs, i, scope)))
    \o When(~Bound(t.prefix, scope), "unbound-prefix")

(* One token.  A comment, an instruction, a section or an end tag that is  *)
(* not terminated ("cut") ends the scan, a start tag it cannot parse is    *)
(* passed over.                                                            *)
Passed(s) == [s EXCEPT !.next = @ + 1]
OpenTag(s, t) ==
    LET scope == Extended(Last(s.scopes), t.attrs)
        events == Over(t.attrs, LAMBDA i : RefEvents(t.attrs[i].refs))
    IN  [Passed(s) EXCEPT !.scopes = IF t.empty THEN @ ELSE Append(@, scope), !.events = @ \o events]
CloseTag(s) == [Passed(s) EXCEPT !.scopes = IF Len(@) > 1 THEN Front(@) ELSE @]
ScanText(s, t) == [Passed(s) EXCEPT !.events = @ \o RefEvents(t.refs)]
Observed(t) ==
    CASE t.kind \in {"comment", "instruction"} -> <<t.kind>>
      [] t.kind = "cdata" -> <<"cdata-boundary">>
      [] OTHER -> <<>>
TokenCodes(s, t) ==
    CASE t.kind = "open" -> OpenCodes(t, Extended(Last(s.scopes), t.attrs))
      [] t.kind = "text" -> RefCodes(t.refs)
      [] OTHER -> <<>>
Scanned(s, t) ==
    CASE t.kind = "open" -> OpenTag(s, t)
      [] t.kind = "close" -> CloseTag(s)
      [] t.kind = "text" -> ScanText(s, t)
      [] OTHER -> [Passed(s) EXCEPT !.events = @ \o Observed(t)]
AtEnd(c) ==
    scan[c].next \notin {i \in DOMAIN source[c].tokens : source[c].tokens[i].kind # "cut"}
ScanToken(c) ==
    /\ step[c] = "scan" /\ ~AtEnd(c)
    /\ LET t == source[c].tokens[scan[c].next]
       IN  IF TokenCodes(scan[c], t) # <<>>
           THEN Stop(c, TokenCodes(scan[c], t)) /\ UNCHANGED scan
           ELSE scan' = [scan EXCEPT ![c] = Scanned(@, t)] /\ UNCHANGED <<step, result>>
    /\ UNCHANGED <<source, native, given, sink, saved, recorded, kept>>
ScanEnds(c) ==
    /\ step[c] = "scan" /\ AtEnd(c)
    /\ Become(c, "count")
    /\ UNCHANGED <<source, scan, native, given, sink, saved, recorded, kept, result>>

-----------------------------------------------------------------------------
(* check_count_limits, with the tokenizer.  A tag the scan cannot parse is *)
(* an error to the tokenizer, which ends the count, or is tolerated.       *)
AttrSizeCodes(a) ==
    When(a.nameUnits > XmlLimits.name, "xml-attribute-length-limit")
    \o When(a.valueUnits > XmlLimits.value, "xml-attribute-length-limit")
CountOpen(n, attrs, empty) ==
    [elements |-> n.elements + 1, depth |-> IF empty THEN n.depth ELSE n.depth + 1, ended |-> n.ended,
     codes |-> n.codes \o When(n.elements + 1 > XmlLimits.elements, "xml-element-count-limit")
                       \o When(n.depth + 1 > XmlLimits.depth, "xml-depth-limit")
                       \o When(Len(attrs) > XmlLimits.attrs, "xml-attribute-count-limit")
                       \o Over(attrs, LAMBDA i : AttrSizeCodes(attrs[i]))]
CountClose(n) == [n EXCEPT !.depth = IF @ > 0 THEN @ - 1 ELSE @]
CountToken(n, t, tolerant) ==
    CASE n.ended -> n
      [] t.kind = "open" -> CountOpen(n, t.attrs, t.empty)
      [] t.kind = "close" -> CountClose(n)
      [] t.kind = "cut" \/ (t.kind = "bad" /\ ~tolerant) -> [n EXCEPT !.ended = TRUE]
      [] t.kind = "bad" /\ tolerant -> CountOpen(n, <<>>, FALSE)
      [] OTHER -> n
CountCodes(s, tolerant) ==
    FoldLeft(LAMBDA n, t : CountToken(n, t, tolerant), [elements |-> 0, depth |-> 0, ended |-> FALSE, codes |-> <<>>], s.tokens).codes
Count(c) ==
    /\ step[c] = "count"
    /\ \E tolerant \in BOOLEAN :
           LET codes == CountCodes(source[c], tolerant) \o When(~source[c].descriptors, "descriptor-mismatch")   \* build_model
           IN  IF codes # <<>> THEN Stop(c, codes) ELSE Become(c, "patch") /\ UNCHANGED result
    /\ UNCHANGED <<source, scan, native, given, sink, saved, recorded, kept>>

-----------------------------------------------------------------------------
(* _record_warnings around _construct                                      *)
Patch(c) ==
    /\ step[c] = "patch"
    /\ saved' = [saved EXCEPT ![c] = sink] /\ sink' = c
    /\ \E outcome \in Natives : native' = [native EXCEPT ![c] = outcome]
    /\ Become(c, "construct")
    /\ UNCHANGED <<source, scan, given, recorded, kept, result>>

(* The sinks a warning goes through, from the current one down.            *)
RECURSIVE SinksFrom(_)
SinksFrom(s) == IF s = "native" THEN {} ELSE {s} \cup SinksFrom(saved[s])
Warn(c) ==
    /\ step[c] = "construct" /\ given[c] < Len(native[c].warnings)
    /\ LET n == given[c] + 1
       IN  /\ given' = [given EXCEPT ![c] = n]
           /\ recorded' = [r \in Calls |-> IF r \in SinksFrom(sink) /\ Len(recorded[r]) <= XmlLimits.warnings
                                           THEN Append(recorded[r], <<c, n>>) ELSE recorded[r]]
           /\ kept' = [kept EXCEPT ![c] = IF Len(@) < XmlLimits.warnings THEN Append(@, n) ELSE @]
    /\ UNCHANGED <<source, step, scan, native, sink, saved, result>>
Constructed(c) ==
    /\ step[c] = "construct" /\ given[c] = Len(native[c].warnings)
    /\ Become(c, "restore")
    /\ UNCHANGED <<source, scan, native, given, sink, saved, recorded, kept, result>>
Restore(c) ==
    /\ step[c] = "restore"
    /\ sink' = saved[c]
    /\ Become(c, "report")
    /\ UNCHANGED <<source, scan, native, given, saved, recorded, kept, result>>

-----------------------------------------------------------------------------
(* classify_native_message: a message is the fragments it has, and those   *)
(* of its nested error.  The rules are tried in order.                     *)
Rules == <<<<"missing namespace for prefix", "unbound-prefix">>, <<"already defined", "duplicate-attribute">>,
           <<"unknown type", "invalid-xsi-type">>, <<"unknown attribute", "moddle-warning">>,
           <<"unresolved reference", "moddle-warning">>, <<"unsupported document encoding", "moddle-warning">>,
           <<"missing namespace information", "moddle-warning">>, <<"unexpected element", "moddle-content-dropped">>,
           <<"unrecognized element", "moddle-content-dropped">>, <<"unexpected body text", "moddle-content-dropped">>,
           <<"expected no sub nodes", "moddle-content-dropped">>, <<"illegal ID", "moddle-content-dropped">>,
           <<"duplicate ID", "moddle-content-dropped">>>>
Classified(m) ==
    LET inner == IF m.nested = {} THEN m.outer ELSE m.nested
        hits == SelectSeq(Rules, LAMBDA r : r[1] \in inner)
    IN  CASE hits # <<>> /\ Head(hits)[1] = "already defined" /\ "xmlns" \in inner -> "duplicate-namespace"
          [] hits # <<>> -> Head(hits)[2]
          [] "failed to parse document" \in m.outer \cup m.nested -> "xml-invalid"
          [] "unparsable content" \in m.outer -> "moddle-content-dropped"
          [] OTHER -> "moddle-unmapped-diagnostic"

EventDiagnostic(kind) ==
    [code |-> IF kind \in {"comment", "instruction"} THEN "moddle-content-dropped" ELSE "moddle-content-normalized", of |-> <<>>]
Mapped(c) ==
    [i \in DOMAIN scan[c].events |-> EventDiagnostic(scan[c].events[i])]
    \o [i \in DOMAIN kept[c] |-> [code |-> Classified(native[c].warnings[kept[c][i]]), of |-> <<c, kept[c][i]>>]]
(* _cap_parse_diagnostics: where the truncation points.                    *)
OmittedIsLast(c, mapped) ==
    CASE given[c] > XmlLimits.warnings /\ Len(recorded[c]) > XmlLimits.warnings -> recorded[c][XmlLimits.warnings]
      [] Len(mapped) > XmlLimits.warnings -> mapped[XmlLimits.warnings + 1].of
      [] OTHER -> <<>>
Omitted(c, mapped) ==
    CASE given[c] > XmlLimits.warnings /\ Len(recorded[c]) > XmlLimits.warnings -> recorded[c][XmlLimits.warnings + 1]
      [] Len(mapped) > XmlLimits.warnings -> mapped[XmlLimits.warnings + 1].of
      [] OTHER -> <<>>
Capped(c) ==
    LET mapped == Mapped(c)
    IN  IF Len(mapped) <= XmlLimits.warnings /\ given[c] <= XmlLimits.warnings THEN mapped
        ELSE Append(SubSeq(mapped, 1, XmlLimits.warnings), [code |-> "moddle-warning-truncated", of |-> Omitted(c, mapped)])
Report(c) ==
    /\ step[c] = "report"
    /\ IF native[c].fatal # {} THEN Stop(c, <<Classified([outer |-> native[c].fatal, nested |-> {}])>>)
       ELSE Become(c, "done") /\ result' = [result EXCEPT ![c] = Capped(c)]
    /\ UNCHANGED <<source, scan, native, given, sink, saved, recorded, kept>>

NotRead == [fatal |-> {}, warnings |-> <<>>]
XmlInit ==
    /\ step = [c \in Calls |-> IF source[c].tokens = <<>> THEN "done" ELSE "decode"]
    /\ scan = [c \in Calls |-> NewScan] /\ native = [c \in Calls |-> NotRead]
    /\ given = [c \in Calls |-> 0]
    /\ sink = "native" /\ saved = [c \in Calls |-> "native"]
    /\ recorded = [c \in Calls |-> <<>>] /\ kept = [c \in Calls |-> <<>>] /\ result = [c \in Calls |-> <<>>]
XmlNext ==
    \E c \in Calls : \/ Decode(c) \/ ScanToken(c) \/ ScanEnds(c) \/ Count(c) \/ Patch(c)
                     \/ Warn(c) \/ Constructed(c) \/ Restore(c) \/ Report(c)

-----------------------------------------------------------------------------
(* The start tags of c that enclose position n, by counting tags.          *)
Enclosing(c, n) ==
    LET tokens == source[c].tokens
        up == [i \in 1..n |-> IF i < n /\ tokens[i].kind = "open" /\ ~tokens[i].empty THEN 1 ELSE 0]
        Opened(i, j) == Cardinality({k \in i..j : k < n /\ tokens[k].kind = "open" /\ ~tokens[k].empty})
        Closed(i, j) == Cardinality({k \in i..j : k < n /\ tokens[k].kind = "close"})
    IN  {i \in 1..(n - 1) : up[i] = 1 /\ \A j \in i..(n - 1) : Closed(i, j) < Opened(i, j)}
Parseable(c) == \A i \in DOMAIN source[c].tokens : source[c].tokens[i].kind # "bad"
Declares(t, prefix) == \E i \in DOMAIN t.attrs : IsDeclaration(t.attrs[i]) /\ Declared(t.attrs[i]) = prefix

(* When the scan can parse all start tags, its scopes are those of the     *)
(* elements that enclose its position: each prefix bound to the value the  *)
(* innermost declaration gives it, and no prefix bound that none declares. *)
ScopesFollow ==
    \A c \in Calls : step[c] = "scan" /\ Parseable(c) =>
        LET tokens == source[c].tokens
            open == Enclosing(c, scan[c].next)
            scope == Last(scan[c].scopes)
            declaring(p) == {i \in open : Declares(tokens[i], p)}
            innermost(p) == CHOOSE i \in declaring(p) : \A j \in declaring(p) : j <= i
        IN  /\ Len(scan[c].scopes) = 1 + Cardinality(open)
            /\ DOMAIN scope = UNION {{Declared(a) : a \in {x \in Range(tokens[i].attrs) : IsDeclaration(x)}} : i \in open}
            /\ \A p \in DOMAIN scope :
                   \E a \in Range(tokens[innermost(p)].attrs) : IsDeclaration(a) /\ Declared(a) = p /\ a.value = scope[p]

(* A source whose start tags the scan passed uses only prefixes that are   *)
(* declared around their use, and no tag has one attribute under two names *)
(* or one prefix declared twice.                                           *)
ScanSound ==
    \A c \in Calls : step[c] \in {"count", "patch"} /\ Parseable(c) =>
        LET tokens == source[c].tokens
            visible(p, n) == p \in {"", "xml", "xmlns"} \/ \E i \in Enclosing(c, n) \cup {n} : Declares(tokens[i], p)
            value(p, n) == LET by == {i \in Enclosing(c, n) \cup {n} : Declares(tokens[i], p)}
                               i == CHOOSE k \in by : \A j \in by : j <= k
                           IN  (CHOOSE a \in Range(tokens[i].attrs) : IsDeclaration(a) /\ Declared(a) = p).value
            expanded(a, n) == CASE a.prefix = "xml" -> <<XmlUri, a.local>>
                                [] a.prefix = "" -> <<"", a.local>>
                                [] OTHER -> <<value(a.prefix, n), a.local>>
        IN  \A n \in 1..(scan[c].next - 1) : tokens[n].kind = "open" =>
                LET plain == {i \in DOMAIN tokens[n].attrs : ~IsDeclaration(tokens[n].attrs[i])}
                    declarations == DOMAIN tokens[n].attrs \ plain
                IN  /\ visible(tokens[n].prefix, n)
                    /\ \A i \in plain : visible(tokens[n].attrs[i].prefix, n)
                    /\ \A i, j \in plain : i # j => expanded(tokens[n].attrs[i], n) # expanded(tokens[n].attrs[j], n)
                    /\ \A i, j \in declarations : i # j => Declared(tokens[n].attrs[i]) # Declared(tokens[n].attrs[j])

(* A result has its own call's warnings, in order, after the observations; *)
(* what is over the cap is one truncation, which points at the first       *)
(* warning left out when nothing was observed and the call ran alone.      *)
TruncationPoints ==
    \A c \in Calls : step[c] = "done" =>
        LET d == result[c]
            own == Len(d) - (IF d # <<>> /\ Last(d).code = "moddle-warning-truncated" THEN 1 ELSE 0)
            events == Len(scan[c].events)
        IN  /\ \A i \in 1..own : d[i].of = IF i <= events THEN <<>> ELSE <<c, i - events>>
            /\ IF own < Len(d)
               THEN own = XmlLimits.warnings /\ (events = 0 /\ (\A o \in Calls \ {c} : source[o].tokens = <<>>)
                                                 => Last(d).of = <<c, own + 1>>)
               ELSE own = events + Len(native[c].warnings)

(* The boundary reads namespaces as a parser of namespaces does, and hands *)
(* on what both of them observed.                                          *)
BoundaryFaithful == ScopesFollow /\ ScanSound /\ TruncationPoints

(* docs/codec.md:32: each call builds its own model, so calls share        *)
(* nothing.  After the calls ParseContext has the sink it had before them. *)
SinkRestored == (\A c \in Calls : step[c] \in {"done", "refused"}) => sink = "native"
=============================================================================
