------------------------------- MODULE Saxen -------------------------------
(***************************************************************************)
(* The namespace-aware SAX parser of bpmn_io/saxen/parser.py.              *)
(*                                                                         *)
(* One parser object, used through parse(xml), write(chunk) and end().     *)
(* The text of a document is abstracted to the tags the scan loop finds in *)
(* it: a tag is its raw prefix and the xmlns declarations it carries (local*)
(* names never influence a namespace decision).  What is kept is all of    *)
(* the state the parser keeps between two tags: the stack of open tags,    *)
(* the namespace matrix with its log of changes per open tag, the map from *)
(* uris to the prefixes learned so far, the memoised names, the counter of *)
(* anonymous prefixes, the stop flag and the recorded error.               *)
(*                                                                         *)
(* The callbacks of the application may return, call stop() or raise, also *)
(* those that hear of a warning or an error in the middle of a tag.        *)
(***************************************************************************)
EXTENDS Naturals, Sequences

CONSTANTS
    Prefix,     \* the keys of the namespace matrix: prefixes, and Default
    DocPrefix,  \* those the documents use
    Default,    \* the key "xmlns": no prefix
    Anon,       \* the anonymous prefixes ns0, ns1, ... as a sequence
    Uri,        \* namespace uris
    None,       \* an absent entry
    Unset,      \* "not in the change log"
    Outcome,    \* what callbacks do: a subset of {"return", "stop", "raise"}
    Config,     \* the map given to ns(): [Uri -> Prefix \cup {None}]
    MaxDecls,   \* bound: xmlns declarations of a tag
    MaxTags,    \* bound: tags, other sections and alarms within tags, over all documents
    MaxDepth,   \* bound: open tags at any time
    MaxRuns     \* bound: documents given to the parser

(* Every error but one ends the reading of the text it was found in.       *)
WrongXml == "illegal value of xmlns:xml"
FatalErrors == {"missing namespace", "invalid tag", "missing open tag",
                "closing tag mismatch", "unclosed section",
                "unexpected end of file", "missing start tag"}
Errors == FatalErrors \cup {WrongXml}

ASSUME ConfigAssumption ==
    /\ Config \in [Uri -> (Prefix \ {Default}) \cup {None}]
    /\ \A u, v \in Uri : Config[u] = Config[v] /\ Config[u] # None => u = v
ASSUME NamesAssumption ==
    /\ Default \in DocPrefix /\ DocPrefix \subseteq Prefix
    /\ Anon \in Seq(Prefix \ {Default})
    /\ \A i, j \in DOMAIN Anon : Anon[i] = Anon[j] => i = j
    /\ None \notin Prefix \cup Uri \cup Errors
    /\ Unset \notin Prefix \cup Uri \cup {None}
ASSUME OutcomeAssumption ==
    "return" \in Outcome /\ Outcome \subseteq {"return", "stop", "raise"}
ASSUME BoundsAssumption ==
    MaxDecls \in Nat /\ MaxTags \in Nat /\ MaxDepth \in Nat /\ MaxRuns \in Nat

VARIABLES
    pc,          \* where the scan loop is (see Locations)
    streaming,   \* _streaming
    uriPrefix,   \* _ns_uri_to_prefix, as a function
    owner,       \* the last uri inserted under a prefix in _ns_uri_to_prefix
    matrix,      \* _ns_matrix
    changes,     \* _ns_changes: the log of the tag being read
    changeStack, \* _ns_changes_stack: the logs of the open tags
    nodeStack,   \* _node_stack: the raw prefixes of the open tags
    cache,       \* _el_name_cache: the memoised normalised prefixes
    anonCount,   \* _anonymous_count
    stopped,     \* _parse_stop
    error,       \* _return_error: None or the kind of the last error
    rootFound,   \* _root_found
    leftover,    \* whether _leftover holds the start of an unfinished section
    tag,         \* the tag being read: [raw, empty, decls]
    tags, runs,  \* how many sections and alarms, documents were read (bounds)
    event,       \* the last event given to the application
    scope,       \* reference: the uri each prefix is bound to here
    saved,       \* reference: what held before each open tag, innermost last
    torn         \* a callback stopped or raised in this document

docVars == <<changeStack, nodeStack, stopped, error, rootFound>>
runVars == <<changes, cache, anonCount>>
nsVars  == <<uriPrefix, owner, matrix>>
refVars == <<scope, saved, torn>>
vars == <<pc, streaming, leftover, tag, tags, runs, event,
          docVars, runVars, nsVars, refVars>>

-----------------------------------------------------------------------------
(* The namespace matrix has two entries per prefix: the normalised prefix  *)
(* it stands for, and (under the key prefix + "$uri") its uri.             *)

Alias(p)  == <<p, "alias">>
UriOf(p)  == <<p, "uri">>
Key       == Prefix \X {"alias", "uri"}
Entry     == Prefix \cup Uri \cup {None}
NoChanges == [k \in Key |-> Unset]
NoNames   == [p \in Prefix |-> None]

(* The matrix a document starts from: every known uri under its prefix.    *)
BuildMatrix(own) ==
    [k \in Key |-> IF own[k[1]] = None THEN None
                   ELSE IF k[2] = "alias" THEN k[1] ELSE own[k[1]]]

(* The first write of a key by a tag logs the value to restore.            *)
LogEveryWrite(m, log, k) == [log EXCEPT ![k] = m[k]] \* mutant: a second write logs again
LogEntry(m, log, k) == IF log[k] = Unset THEN [log EXCEPT ![k] = m[k]] ELSE log

RestoreMatrix(m, log) == [k \in Key |-> IF log[k] = Unset THEN m[k] ELSE log[k]]

(* An unprefixed name outside any default namespace stays as it is; it is  *)
(* represented by the prefix Default.  None: no namespace for the prefix.  *)
Normalize(m, p) ==
    IF p = Default /\ m[Alias(p)] = None THEN Default ELSE m[Alias(p)]

(* The memoised names do not outlive a change of the matrix.               *)
KeepNames == cache \* mutant: a stale cache
ForgetNames == NoNames

NameOf(p) == IF cache[p] # None THEN cache[p] ELSE Normalize(matrix, p)

-----------------------------------------------------------------------------
Declaration == [prefix : DocPrefix, uri : Uri]
Locations == {"idle", "scan", "resume", "final", "attrs", "empty"}
NoTag == [raw |-> Default, empty |-> FALSE, decls |-> <<>>]
NoEvent == [kind |-> "none", raw |-> Default, name |-> None]

Init ==
    /\ pc = "idle" /\ streaming = FALSE /\ leftover = FALSE
    /\ uriPrefix = Config
    /\ owner = [p \in Prefix |-> IF \E u \in Uri : Config[u] = p
                                 THEN CHOOSE u \in Uri : Config[u] = p ELSE None]
    /\ matrix = BuildMatrix(owner)
    /\ changes = NoChanges /\ changeStack = <<>> /\ nodeStack = <<>>
    /\ cache = NoNames /\ anonCount = 0
    /\ stopped = FALSE /\ error = None /\ rootFound = FALSE
    /\ tag = NoTag /\ tags = 0 /\ runs = 0 /\ event = NoEvent
    /\ scope = owner /\ saved = <<>> /\ torn = FALSE

(* reset_state: a new document starts from the uris known to the parser.   *)
ResetState ==
    /\ runs < MaxRuns
    /\ runs' = runs + 1
    /\ changeStack' = <<>> /\ nodeStack' = <<>>
    /\ matrix' = BuildMatrix(owner)
    /\ stopped' = FALSE /\ error' = None /\ rootFound' = FALSE
    /\ scope' = owner /\ saved' = <<>> /\ torn' = FALSE
    /\ event' = NoEvent
    /\ UNCHANGED <<uriPrefix, owner>>

(* _reset_run: what every call of _parse forgets, chunk after chunk.       *)
ResetRun == changes' = NoChanges /\ cache' = NoNames /\ anonCount' = 0 /\ tag' = NoTag

KeepState == UNCHANGED <<runs, docVars, nsVars, refVars, event>>

(* parse(xml): refused during a stream.                                    *)
Begin(location) ==
    /\ pc = "idle" /\ ~streaming
    /\ ResetState /\ ResetRun
    /\ pc' = location /\ leftover' = FALSE
    /\ UNCHANGED <<streaming, tags>>
Parse == Begin("scan")

(* A stream that has failed reads no further chunk.                        *)
MayReadAnything == TRUE \* mutant: an error does not end the stream
MayRead == error = None \/ ~streaming

(* write(chunk): the first chunk resets the state, a failed stream ignores *)
(* its further chunks.  A chunk is read with what the last one left over:  *)
(* it then starts at the section that was cut, which is scanned again.     *)
Write ==
    /\ pc = "idle"
    /\ MayRead
    /\ streaming' = TRUE
    /\ IF streaming THEN KeepState /\ UNCHANGED leftover
                    ELSE ResetState /\ leftover' = FALSE
    /\ ResetRun
    /\ pc' = IF streaming /\ leftover THEN "resume" ELSE "scan"
    /\ UNCHANGED tags

(* end(): the rest of the stream is read once more, now as the end of it;  *)
(* outside a stream, an empty document.                                    *)
EndNothing == Begin("final")
End ==
    /\ pc = "idle" /\ streaming
    /\ streaming' = FALSE
    /\ IF error = None
       THEN /\ ResetRun
            /\ pc' = "final"
            /\ UNCHANGED <<docVars, leftover>>
       ELSE /\ leftover' = FALSE /\ stopped' = FALSE
            /\ UNCHANGED <<pc, runVars, tag, changeStack, nodeStack, error, rootFound>>
    /\ UNCHANGED <<tags, runs, nsVars, refVars, event>>

-----------------------------------------------------------------------------
(* A callback of the application returns, stops the parser or raises.  A   *)
(* stopped run drops the rest of its text; parse() and end() clear the     *)
(* flag when they return, write() leaves it; none does when it raises.     *)
Proceeds(outcome) == outcome = "return" /\ ~stopped

Called(outcome, next) ==
    /\ pc' = IF Proceeds(outcome) THEN next ELSE "idle"
    /\ stopped' = IF outcome = "raise" THEN stopped
                  ELSE streaming /\ (stopped \/ outcome = "stop")
    /\ torn' = (torn \/ ~Proceeds(outcome))
    /\ leftover' = (leftover /\ (Proceeds(outcome) \/ outcome = "raise"))

(* A warning or an error in the attributes of a tag calls the application  *)
(* in the middle of it: stop() is only looked at after the event of the    *)
(* tag, an exception leaves the tag half read.                             *)
CalledWithin(outcome) ==
    /\ pc = "attrs" /\ tags < MaxTags
    /\ tags' = tags + 1
    /\ pc' = IF outcome = "raise" THEN "idle" ELSE pc
    /\ stopped' = (stopped \/ outcome = "stop")
    /\ torn' = (torn \/ outcome = "raise")

(* _handle_error and the abort after it: no more of this text is read,     *)
(* whether or not the error callback raises.                               *)
Fail(kind) ==
    /\ error' = kind
    /\ pc' = "idle"
    /\ leftover' = FALSE
    /\ stopped' = (streaming /\ stopped)
    /\ UNCHANGED torn

Section ==
    /\ pc \in {"scan", "resume"} /\ tags < MaxTags
    /\ tags' = tags + 1
    /\ rootFound' = TRUE
    /\ UNCHANGED <<streaming, runs>>

(* Text, cdata, comment, question or attention: an event and nothing else. *)
Misc(outcome) ==
    /\ Section
    /\ Called(outcome, "scan")
    /\ event' = [kind |-> "misc", raw |-> Default, name |-> None]
    /\ UNCHANGED <<changeStack, nodeStack, error, runVars, nsVars, scope, saved, tag>>

(* A tag whose name or ending is not one the parser accepts.               *)
BadTag ==
    /\ Section
    /\ Fail("invalid tag")
    /\ UNCHANGED <<changeStack, nodeStack, runVars, nsVars, scope, saved, tag, event>>

(* _open_tag up to its attributes.                                         *)
OpenTag(raw, empty, decls) ==
    /\ Section
    /\ empty \/ Len(nodeStack) < MaxDepth
    /\ nodeStack' = IF empty THEN nodeStack ELSE Append(nodeStack, raw)
    /\ changes' = NoChanges
    /\ tag' = [raw |-> raw, empty |-> empty, decls |-> decls]
    /\ pc' = "attrs"
    /\ saved' = Append(saved, [matrix |-> matrix, scope |-> scope, name |-> None])
    /\ UNCHANGED <<leftover, changeStack, cache, anonCount, stopped, error,
                   nsVars, scope, torn, event>>

(* _alloc_anonymous: the next ns<N> that is not a key of the matrix.       *)
FreshAnon(n) ==
    /\ n \in (anonCount + 1)..Len(Anon)
    /\ matrix[Alias(Anon[n])] = None
    /\ \A i \in (anonCount + 1)..(n - 1) : matrix[Alias(Anon[i])] # None

NeedsAnon(d) ==
    \/ d.prefix = Default
    \/ matrix[UriOf(d.prefix)] \notin {None, d.uri}

(* The prefix a declared uri is normalised to.                             *)
ChoosePrefix(d, alias) ==
    \/ /\ uriPrefix[d.uri] # None
       /\ alias = uriPrefix[d.uri]
       /\ UNCHANGED <<uriPrefix, owner, anonCount>>
    \/ /\ uriPrefix[d.uri] = None
       /\ \/ NeedsAnon(d) /\ \E n \in DOMAIN Anon : 
                FreshAnon(n) /\ alias = Anon[n] /\ anonCount' = n
          \/ ~NeedsAnon(d) /\ alias = d.prefix /\ UNCHANGED anonCount
       /\ uriPrefix' = [uriPrefix EXCEPT ![d.uri] = alias]
       /\ owner' = [owner EXCEPT ![alias] = d.uri]

(* The keys one declaration writes, and what it writes there.              *)
DeclaredUnderOwnName(d, alias, k) == \* mutant: the uri's known prefix is not used
    IF k = Alias(d.prefix) THEN d.prefix ELSE d.uri
DeclaredEntry(d, alias, k) ==
    IF k = Alias(d.prefix) THEN alias ELSE d.uri
DeclaredKeys(d, alias) ==
    {Alias(d.prefix), UriOf(d.prefix)}
      \cup (IF d.prefix = Default THEN {UriOf(alias)} ELSE {})

(* _declare_ns: one xmlns attribute of the tag.                            *)
Declare ==
    /\ pc = "attrs" /\ tag.decls # <<>>
    /\ LET d == Head(tag.decls) IN
       \E alias \in Prefix :
         /\ ChoosePrefix(d, alias)
         /\ IF matrix[Alias(d.prefix)] = alias
            THEN UNCHANGED <<matrix, changes, cache>>
            ELSE LET written == DeclaredKeys(d, alias) IN
                 /\ matrix' = [k \in Key |-> IF k \in written
                                             THEN DeclaredEntry(d, alias, k) ELSE matrix[k]]
                 /\ changes' = [k \in Key |-> IF k \in written
                                              THEN LogEntry(matrix, changes, k)[k] ELSE changes[k]]
                 /\ cache' = ForgetNames
         /\ scope' = [scope EXCEPT ![d.prefix] = d.uri]
    /\ tag' = [tag EXCEPT !.decls = Tail(@)]
    /\ UNCHANGED <<pc, streaming, leftover, tags, runs, event, docVars, saved, torn>>

(* _handle_warning in the middle of the attributes; nothing happens when   *)
(* its callback just returns.                                              *)
AttributeWarning(outcome) ==
    /\ outcome # "return"
    /\ CalledWithin(outcome)
    /\ UNCHANGED <<streaming, leftover, tag, runs, event, changeStack, nodeStack,
                   error, rootFound, runVars, nsVars, scope, saved>>

(* xmlns:xml with a value that is not its own: the error is recorded and   *)
(* the reading goes on, with the declaration as well, which is one like    *)
(* any other (unless the attribute is dropped).                            *)
AttributeError(outcome) ==
    /\ CalledWithin(outcome)
    /\ error' = WrongXml
    /\ UNCHANGED <<streaming, leftover, tag, runs, event, changeStack, nodeStack,
                   rootFound, runVars, nsVars, scope, saved>>

(* Only a tag that stays open has a log on the stack.                      *)
PushAlways == Append(changeStack, changes) \* mutant: a self-closing tag pushes one too
PushChanges == IF tag.empty THEN changeStack ELSE Append(changeStack, changes)

(* The attributes are read: the tag gets its scope, its name and its event.*)
OpenEvent(outcome) ==
    /\ pc = "attrs" /\ tag.decls = <<>>
    /\ changeStack' = PushChanges
    /\ IF NameOf(tag.raw) = None
       THEN /\ outcome = "return"
            /\ Fail("missing namespace")
            /\ UNCHANGED <<cache, event, saved>>
       ELSE /\ cache' = [cache EXCEPT ![tag.raw] = NameOf(tag.raw)]
            /\ event' = [kind |-> "open", raw |-> tag.raw, name |-> NameOf(tag.raw)]
            /\ saved' = [saved EXCEPT ![Len(saved)].name = NameOf(tag.raw)]
            /\ Called(outcome, IF tag.empty THEN "empty" ELSE "scan")
            /\ UNCHANGED error
    /\ tag' = IF tag.empty THEN tag ELSE NoTag
    /\ UNCHANGED <<streaming, tags, runs, nodeStack, rootFound,
                   changes, anonCount, nsVars, scope>>

(* _emit_close: the event, then the matrix of before the tag.              *)
EmitClose(outcome, raw, log, rest) ==
    /\ event' = [kind |-> "close", raw |-> raw, name |-> NameOf(raw)]
    /\ Called(outcome, "scan")
    /\ IF Proceeds(outcome)
       THEN /\ changeStack' = rest
            /\ IF log = NoChanges
               THEN UNCHANGED <<matrix, changes>> /\ cache' = [cache EXCEPT ![raw] = NameOf(raw)]
               ELSE matrix' = RestoreMatrix(matrix, log) /\ changes' = NoChanges /\ cache' = ForgetNames
            /\ scope' = saved[Len(saved)].scope
            /\ saved' = SubSeq(saved, 1, Len(saved) - 1)
       ELSE /\ cache' = [cache EXCEPT ![raw] = NameOf(raw)]
            /\ UNCHANGED <<changeStack, matrix, changes, scope, saved>>

(* A self-closing tag closes right after its open event.                   *)
CloseEmpty(outcome) ==
    /\ pc = "empty"
    /\ EmitClose(outcome, tag.raw, changes, changeStack)
    /\ tag' = NoTag
    /\ UNCHANGED <<streaming, tags, runs, nodeStack, error, rootFound,
                   anonCount, uriPrefix, owner>>

(* The log a closing tag takes: none when an exception in the middle of an *)
(* open tag has left that tag without one.                                 *)
InnermostLog == IF changeStack = <<>> THEN NoChanges ELSE changeStack[Len(changeStack)]

(* _close_tag: the innermost open tag, or an error.                        *)
CloseTag(raw, outcome) ==
    /\ Section
    /\ UNCHANGED <<tag, anonCount, uriPrefix, owner>>
    /\ IF nodeStack = <<>>
       THEN /\ outcome = "return"
            /\ Fail("missing open tag")
            /\ UNCHANGED <<nodeStack, changeStack, changes, cache, matrix, scope, saved, event>>
       ELSE LET top == Len(nodeStack) IN
            /\ nodeStack' = SubSeq(nodeStack, 1, top - 1)
            /\ IF nodeStack[top] # raw \/ NameOf(raw) = None
               THEN /\ outcome = "return"
                    /\ Fail(IF nodeStack[top] # raw THEN "closing tag mismatch"
                                                    ELSE "missing namespace")
                    /\ UNCHANGED <<changeStack, changes, cache, matrix, scope, saved, event>>
               ELSE /\ EmitClose(outcome, raw, InnermostLog,
                                 SubSeq(changeStack, 1, Len(changeStack) - 1))
                    /\ UNCHANGED error

(* The end of a chunk, within a section or between two; a section cut      *)
(* twice is still incomplete.                                              *)
ChunkEnd(partial) ==
    /\ pc \in {"scan", "resume"} /\ streaming
    /\ pc = "resume" => partial
    /\ pc' = "idle"
    /\ leftover' = partial
    /\ rootFound' = (rootFound \/ partial)
    /\ UNCHANGED <<streaming, tag, tags, runs, event, changeStack, nodeStack, stopped,
                   error, runVars, nsVars, refVars>>

(* The end of the document: what _parse_eof and the unclosed sections      *)
(* report, if anything.                                                    *)
EndError(partial) ==
    IF partial THEN "unclosed section"
    ELSE IF nodeStack # <<>> THEN "unexpected end of file"
    ELSE IF ~rootFound THEN "missing start tag"
    ELSE None

Eof(partial) ==
    /\ pc \in {"scan", "final"} /\ ~streaming
    /\ pc = "final" => partial = leftover
    /\ pc' = "idle"
    /\ error' = IF EndError(partial) = None THEN error ELSE EndError(partial)
    /\ rootFound' = (rootFound \/ partial)
    /\ leftover' = FALSE /\ stopped' = FALSE
    /\ UNCHANGED <<streaming, tag, tags, runs, event, changeStack, nodeStack,
                   runVars, nsVars, refVars>>

-----------------------------------------------------------------------------
(* The declarations of a tag, in order; a second declaration of a prefix is *)
(* dropped by the parser with a warning.                                   *)
Declarations ==
    {d \in UNION {[1..n -> Declaration] : n \in 0..MaxDecls} :
        \A i, j \in DOMAIN d : d[i].prefix = d[j].prefix => i = j}

Next ==
    \/ Parse \/ Write \/ End \/ EndNothing \/ Declare \/ BadTag
    \/ \E raw \in DocPrefix, empty \in BOOLEAN, decls \in Declarations :
          OpenTag(raw, empty, decls)
    \/ \E outcome \in Outcome :
          \/ Misc(outcome) \/ OpenEvent(outcome) \/ CloseEmpty(outcome)
          \/ AttributeWarning(outcome) \/ AttributeError(outcome)
          \/ \E raw \in DocPrefix : CloseTag(raw, outcome)
    \/ \E partial \in BOOLEAN : ChunkEnd(partial) \/ Eof(partial)

Spec == Init /\ [][Next]_vars

-----------------------------------------------------------------------------
(* Properties *)

Matrix == [Key -> Entry]
Log == [Key -> Entry \cup {Unset}]
Scope == [Prefix -> Uri \cup {None}]
Name == Prefix \cup Uri \cup {None}
Tag == [raw : DocPrefix, empty : BOOLEAN, decls : Seq(Declaration)]
Event == [kind : {"none", "misc", "open", "close"}, raw : DocPrefix, name : Name]
Saved == [matrix : Matrix, scope : Scope, name : Name]

ControlTypes ==
    /\ pc \in Locations /\ error \in Errors \cup {None}
    /\ streaming \in BOOLEAN /\ leftover \in BOOLEAN /\ stopped \in BOOLEAN
    /\ rootFound \in BOOLEAN /\ torn \in BOOLEAN
    /\ tags \in Nat /\ runs \in Nat
NamespaceTypes ==
    /\ uriPrefix \in [Uri -> Prefix \cup {None}] /\ owner \in Scope /\ scope \in Scope
    /\ matrix \in Matrix /\ changes \in Log /\ cache \in [Prefix -> Name]
    /\ anonCount \in 0..Len(Anon)
StackTypes ==
    /\ changeStack \in Seq(Log) /\ nodeStack \in Seq(DocPrefix) /\ saved \in Seq(Saved)
    /\ tag \in Tag /\ event \in Event

(* Every variable has its type.                                            *)
TypeOK == ControlTypes /\ NamespaceTypes /\ StackTypes

(* Nothing has ended the reading of this document early.                   *)
Healthy == ~torn /\ error \notin FatalErrors
Between == pc \in {"idle", "scan", "resume", "final"}

(* Between two tags the parser has one change log and one name per open    *)
(* tag: chunk boundaries (which reset the run) cannot shift the pairing of *)
(* closing tags with the scopes they leave.                                *)
ScopesAligned ==
    Healthy /\ Between =>
        Len(changeStack) = Len(nodeStack) /\ Len(saved) = Len(nodeStack)

(* Undoing the log of the i-th open tag, in the matrix its content started *)
(* from, gives the matrix of before that tag, whatever the tags within it  *)
(* declared; a tag being read can be undone at every declaration.          *)
MatrixWithin(i) == IF i = Len(saved) THEN matrix ELSE saved[i + 1].matrix
UndoLog ==
    Healthy =>
        /\ \A i \in DOMAIN changeStack :
              RestoreMatrix(MatrixWithin(i), changeStack[i]) = saved[i].matrix
        /\ pc \in {"attrs", "empty"} =>
              RestoreMatrix(matrix, changes) = saved[Len(saved)].matrix

(* A memoised name is the one the present matrix gives.                    *)
CacheFresh == \A p \in Prefix : cache[p] # None => cache[p] = Normalize(matrix, p)

(* A prefix in scope is normalised to the prefix its uri has been given:   *)
(* all the names of one namespace share a normalised prefix, however the   *)
(* document calls it.                                                      *)
AliasFaithful ==
    Healthy => \A p \in Prefix :
        scope[p] # None => /\ uriPrefix[scope[p]] # None
                           /\ matrix[Alias(p)] = uriPrefix[scope[p]]

(* A closing tag is reported under the name its opening tag was.           *)
ClosingName ==
    [][Healthy /\ Len(saved') < Len(saved) /\ runs' = runs =>
         event'.kind = "close" /\ event'.name = saved[Len(saved)].name]_vars

(* An error, once recorded, is there to be returned until the next document *)
(* starts, though the end of the text may put a later one in its place; no  *)
(* further chunk is read, and nothing more is reported, except that after a *)
(* wrong xmlns:xml the text at hand is read to its end.                     *)
ErrorKept ==
    [][error # None /\ runs' = runs =>
          /\ error' # None
          /\ pc = "idle" => pc' = "idle"
          /\ event' # event => pc # "idle" /\ error = WrongXml]_vars

(* Between two documents, stop() is honoured: the stopped document has no  *)
(* further event (docstring of Parser.stop).                               *)
StopHonored == [][stopped /\ event' # event => runs' # runs]_vars

(* A document starts from the namespaces the application configured        *)
(* (docstring of Parser.reset_state).                                      *)
RunsIsolated ==
    [][runs' # runs => \A u \in Uri : uriPrefix'[u] = Config[u]]_vars
=============================================================================
