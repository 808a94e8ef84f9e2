# bpmn-io-py in TLA+

`bpmn_io` (under `src/src/bpmn_io`) is a Python port of the bpmn.io stack: a
SAX parser, an XML reader and writer over a meta-model, automatic layout and a
linter; a codec between XML and a canonical JSON form; and a profile runtime,
which loads and compiles domain profiles, evaluates their rules on a document,
and keeps documents in sessions for several clients. This directory models the
parts of it that decide something, checks them with TLC, and proves what matters
most about them with TLAPS.

The program starts no threads and awaits nothing; it may be called from several
threads, and one part, the XML boundary of the codec, shares a patched method
between calls that overlap. What is hard about it is mostly of another kind:
parsers fed in chunks that may end in the middle of a section and whose callbacks
may stop or raise in the middle of a tag; undo logs, memoised names and cached descriptors
that must agree with what other code changes; stacks in place of recursion,
which must visit, refuse and undo in the order of the recursion; a graph walk
over arbitrary processes with a grid mutated by several handlers; pipelines in
which a later stage relies on what an earlier one has checked; and documents
that are shared, mutable containers.

## Inventory

Paths are relative to `src/src/bpmn_io`.

| component | files | state it keeps | operations | what makes it correct | here |
|---|---|---|---|---|---|
| SAX parser | `saxen/parser.py` | open tags, namespace matrix and one change log per open tag, map of known uris, memoised names, counter of made-up prefixes, stop flag, error, leftover text | `parse`, `write`, `end`, `stop`, one handler per section | every tag's content is read in its own scope; names of one namespace agree; cutting a stream does not matter (but see the divergences); an error is kept, and ends what is read | `Saxen`, `SaxenChunking`, `SaxenProofs` |
| entity decoding | `saxen/decode.py` | none | `decode_entities` | a pure text conversion | not modelled |
| XML reader | `moddle_xml/read.py`, `common.py` | stack of handlers, elements, index by id, references, warnings | `from_xml` with the callbacks of the parser, then the resolution of references | one handler per open tag whatever is refused, exact index, references resolved in order, losses known | `Reader`, `ReaderProofs` |
| XML writer | `moddle_xml/write.py` | per element the namespaces it owns and its memoised scope; used and declared prefixes; the tags to write | `to_xml`: build the serializers, then write the tags | every name written is read back in its namespace, no tag has anything twice, what is not written is warned about | `Writer`, `WriterProofs` |
| moddle | `moddle/` | types, packages, effective descriptors, classes made so far | `register_package`, `get_effective_descriptor`, `get_type` | the walk visits types in the order of the recursion; what is cached agrees with the registry; extensions are linked | `Registry`, `RegistryProofs` (element classes and property access are values) |
| bpmn-moddle | `bpmn_moddle/` | none (descriptors are data) | `from_xml`, `to_xml`, `create` | a facade over the three above | not modelled |
| layout: grid walk | `auto_layout/layouter.py`, `grid.py`, `element_utils.py`, `handlers/incoming_`, `outgoing_`, `attacher_handler.py` | grid, visited nodes, stack, outgoing lists reversed in place | `create_grid_layout`, `handle_grid`, three `add_to_grid` | the walk ends, every node gets one cell | `Grid`, `Layout`, `LayoutProofs` |
| layout: drawing | `auto_layout/layout_util.py`, `di_*.py`, `handlers/element_handler.py` | none | shapes and waypoints of a finished grid | arithmetic on positions | not modelled |
| linter | `lint/linter.py`, `traverse.py`, `resolver/` | caches of rules and configurations | `lint`, `resolve_rules`, `resolve_config` | cached answers are those a fresh resolution would give; a failing rule is contained | `LintNames`, `Linter`, `LinterProofs` |
| lint rules | `lint/rules`, `config`, `support`, `testers` | none beyond one traversal | some forty predicates | each is a predicate on one model | not modelled |
| codec: JSON boundary | `codec/json.py`, `serialize.py` | validation stack, native elements, index of ids, references to resolve, diagnostics | `hydrate`, `project`, the check of `serialize_xml` before it writes | what is accepted comes back unchanged, as a sound tree; nothing unclean reaches the writer | `CodecJson`, `Codec` |
| codec: XML boundary | `codec/xml_boundary.py`, `_scan.py`, `_refusal.py` | scopes of the scan, observations, the warning sink of `ParseContext` while a call runs | `parse_xml` | the scan reads namespaces as a parser does, diagnostics are complete up to the limit, calls share nothing | `CodecBoundary`, `Codec` |
| codec: canonical form | `codec/_numbers.py`, `_limits.py`, `_serialization.py`, ... | none | numbers, key order, limits | a pure text conversion; limits and sizes are in `CodecJson` | in part |
| bridge | `profile/_bridge.py` | loaded envelope, presentation, history, disposed | load, read, empty command batch, undo, dispose | envelopes stay valid, guarded updates replace what was seen, undo restores the pair | `Session`, `Bridge`, `BridgeProofs` |
| envelopes | `profile/_envelope.py` | none | complete, validate, project, extract presentation, digest | nothing is lost between what is stored and what is kept beside it | `Envelope`, `Documents` |
| compatibility | `profile/_compat.py` | none | `check_compatibility` | the rows hide no answer, no migration in the wrong direction | `Compat`, `Documents` |
| profile loading | `profile/_lexical.py`, `_schema.py`, `_loader.py` | stack of the lexer | lexical gate, schema interpreter, `load_profile` | the first fault in the text is reported; a reference is resolved in its own document | `Lexical`, `ProfileSchema`, `Profile` |
| profile compiler | `profile/_compiler.py` | scopes of aliases with their types | `compile_profile`: every check in its order | what it lets through may be written and can be evaluated | `ProfileCompiler`, `Profile` |
| profile evaluation | `profile/_evaluate.py` | environments, notions being recognized | values, predicates, selectors | never refused for a name or path the compiler has checked | `ProfileEvaluate` |
| profile results, inventories | `profile/_results.py`, `_inventory.py`, ... | none | containers, hashes, comparison | | not modelled |
| Unicode tables | `profile/_unicode*.py` | generated data | | | not modelled |
| profile lint | `profile/_lint/` | the record in force, findings, entries; cache of factories | flatten policies, evaluate the rules of a stage, merge findings into a report | every finding once, at its place, under the policy in force | `ProfileLint`, `Profile` (the resolver is modelled as the rules it enables) |
| command line | `cli.py`, `check.py` | none | arguments, files, exit codes; the acceptance of documents of `profile lint` | rules run only on what was accepted | the acceptance in `Documents`, `Profile` |
| helpers | `_min_dash.py`, `_js.py`, `_moddle_utils.py`, ... | none | | | not modelled |

How they interact: the parser calls the reader back, synchronously, for every
tag and text; the reader creates elements through moddle; the writer, layout and
linter walk those elements and, in the case of layout, write to them; the XML
boundary runs the reader, the JSON boundary builds elements through moddle and
the check before writing precedes the writer. A profile goes through loading,
compilation and, stage by stage, evaluation; profile lint merges the linter's
reports with the profile's, over a document that the command line or a session
accepted as an envelope. Hard behaviours, each at its line, are the `hazards` of
`PROJECT.json`.

## Modules

### `Saxen`: the parser

State: one variable per field of `Parser` that lives longer than a tag
(`uriPrefix` is `_ns_uri_to_prefix`, `matrix` is `_ns_matrix`, `changes` and
`changeStack` the logs, `cache` the memoised names, and so on), and `tag`, the
tag being read. `owner` is the other direction of `_ns_uri_to_prefix`, as
`_build_ns_matrix` sees it: the last uri inserted under a prefix. Three
reference variables do not influence any step: `scope` is the binding of
prefixes XML prescribes, `saved` what held before each open tag, `torn`
whether a callback has stopped or raised in this document.

A tag takes several steps, since callbacks run and chunks end between them:

- `Parse`, `Write`, `End`, `EndNothing`: the entry points, with `reset_state`
  and `_reset_run` inside them where the code calls them;
- `OpenTag`, then `Declare` once per `xmlns` attribute, `OpenEvent`, and
  `CloseEmpty` for a tag closed at once; `CloseTag`; `Misc` for text, cdata,
  comments, questions and attention; `BadTag`;
- `AttributeWarning` and `AttributeError`: the calls of `get_attrs` to the application
  while the attributes of a tag are read, between the push of its node and that of
  its change log. The error, a wrong `xmlns:xml` (`parser.py:451`), is the only one
  that is recorded without an abort: when the callback returns, reading goes on;
- `ChunkEnd`: a chunk is used up, in the middle of a section (what was read of it is
  left over, `leftover`, and scanned again with the next chunk) or between two,
  where a chunk may go on (`resume`); `Eof`.

A callback's outcome is to return, to call `stop()` or to raise; after any other
error (`FatalErrors`) the run is aborted. A callback within a tag that returns changes
nothing, so only one that stops or raises is a step, and such steps count as tags, to
be bounded with them.

Abstracted: the text is the sequence of tags found in it; local names,
attributes other than declarations, positions and entity decoding are left out.
That `xmlns:xml` is declared at all is an attribute like any other.
Not modelled: calls of `parse` and `write` from within a callback. After an
error callback that raises, `_leftover` may keep text the next reset drops
before it is read; the model drops it at once.

### `SaxenChunking`: the same document, whole and in chunks

Two instances of `Saxen` read the same tags. One is called with `parse`, the
other with `write` and `end`, and also meets the ends of its chunks, between
sections and within them. Two things are left out, and both make a difference in
the code: a cut after a `>` inside a quoted value (`_scan_tag_end` ignores a quote it
does not see closed), which no action makes, and what follows a wrong
`xmlns:xml`, of which `SameReading` says nothing.

### `Reader`: one call of `from_xml`

One action per way `_handle_open` can go: the root (`OpenRoot`,
`OpenWrongRoot`), a contained element (`OpenContained`), a generic one
(`OpenAny`), a reference child (`OpenReference`), a simple value (`OpenValue`),
what is refused (`OpenRefused`) or ignored (`OpenIgnored`); then `Close`,
`ReadText`, `Preamble`, `XmlError`, `EndDocument`, one `Resolve` per reference
and `Return`. The lookup in the meta-model is abstracted to what a tag is to its
parent, chosen freely, so that every meta-model is covered whose elements
have these six kinds of content. A refused node ends a strict parse and becomes
a `noop` handler in a lax one. Two refusals are easy to get wrong and kept
exactly: an element whose id is taken has already recorded the references of its
attributes, and a child of a simple value gets the handler `None`.

### `Grid` and `Layout`: the grid walk

`Grid` holds the operations of `grid.py` as functions of a grid. Positions count
from 1, so that the `(-1, -1)` of `find` is position 0, and, as in Python, an
index of -1 (our 0) is the last row or cell. `Layout` is `create_grid_layout`:
`Start` a round, `Take` a node from the stack and align it (`Take`, `AlignRow`
are the incoming handler), place its targets (`FanOut`, one `Target` each) and
those of its boundary events (`Attach`, one `AttachedTarget` each), push them
(`Handled`), and rescue a missing node when the stack is empty (`Drained`).
Only what the handlers ask of a node's type is kept: gateway or task, boundary
event or not. Sources and targets listed for a node are those of the sequence
flows, and no flow targets a boundary event. The `grid position` error of
`add_below` cannot be reached through these handlers. Not modelled: the
expansion of the grid for sub-processes, and drawing. The final grids of the
model were compared with those of the Python code for 5192 processes: they are
the same.

### `Session` and `Bridge`

`Session` is the promise: a document, the documents before it, and an end; a
load, an undo, a close. `Bridge` is `HeadlessBridge` with its clients. Documents
are objects of a heap, because what the bridge promises depends on who shares
them: a client keeps (a reference to) the document it gives, `complete_envelope`
copies it, and every result carries a shallow copy of the identity record whose
nested containers are the session's. A client may go on to change what it has
given (`"given" \in Tampers`) or what it got (`"returned" \in Tampers`).
`Implements` maps the bridge to the session: `document` is the content of the
envelope's object with `imported_di`, `past` the same of the history.

Assumed: digests do not collide; bindings are a part of the tree; a presentation
record is one value; a refused candidate does not reach the heap; payloads are
deep copies, as `to_json` makes them. A client passes no revision or the last
it was told.

### `LintNames` and `Linter`

`LintNames` has what `linter.py` does to names: packages with and without the
prefix `bpmnlint-plugin-`, names made absolute and normalized, joined into cache
ids; and the dicts, as sequences of pairs, since what is written last wins and
order of insertion is the order in which rules run. `Linter` is one `Linter`
asked several times: `Lint` begins a call; `Extend`, `UnknownConfig` and
`Inherit` are the recursion over `extends`, one frame for every active
`resolve_configured_rules`; `ResolveRule` and `RuleFails` the loop of
`resolve_rules`; `ApplyFirst`, `Enter`, `Leave`, `Applied` and `HookFails` are
`apply_rule` with the stack of `traverse`. A hook may report, skip a subtree or
raise at any node, and a factory may raise. The reference sides are recursive
functions that share nothing with the actions: `Writes` lists every rule a
configuration and its ancestors write, with no cache; `Visits` is the recursion
`traverse.py` replaces by a stack (what is done at a node is what is done at its
children, with the entry before and the exit after it).

Assumed (`NoCollision`): no two packages and names join to the same cache id. The
code does confuse such names (`foo` with `bar-all`, `foo-bar` with `all`), as it
gives a linter that is reused with other options for a rule the rule with the
old ones; `FreshAsConfigured` is therefore about a new linter. Names, flags and
options are written in `Texts`, and `ConfigsAssumption` says what a configuration
is; `DiagramAssumption` says that containment is a tree below its root, as it is
of what the reader or the JSON boundary builds. Normalizing a name twice is normalizing it once, except for a plugin named
`bpmnlint` or one whose name repeats the prefix; the run has none, and what is
proved does not need it. Not modelled: scopes (`@x/`),
the case of flags, `node_resolver.py`, rules that change what they walk.

### `Writer`: one call of `to_xml`

A document is a sequence of nodes with their declarations, properties and
other attributes. `heap` holds what the serializers share: the scope each owns
(its namespaces by prefix and by uri, in order), its memoised scope, the chain to
its ancestors. `Start` makes the root's serializer; `AddText`, `AddLine` (a
reference or simple value) and `AddElement` are one step of `build_tree` each,
entering an element completely: its declarations (`parse_ns_attributes`), its tag
and type, its attributes; `Exit` is the exit of a frame, with the attributes of
no descriptor. `OpenTag`, `WriteChild` and `CloseTag` are `serialize_tree`.
A prefix is a name and the numbers deconfliction appends to it, and is never
spelled out. An attribute of a tag remembers what was written into it (`from`, not
in the code), so that a value written over another can be told from one that is
there. Three outcomes of the code are left out
of the properties and named in them: a document that binds a package's prefix to
another package (the local declaration captures names of elements around it), an
attribute that loses its prefix because its namespace is the default one, and an
attribute `x` beside one `c:x` of the element's own namespace, of which only the last
is written.

### `Registry`: packages, types and descriptors

`RegisterPackage` is one call with everything in it, the refusal in the middle
included: types registered before a failing one stay. `Describe`, `EnterType`,
`VisitType`, `LeaveType` and `Finish` are the walk of
`map_types` with its explicit stack of entries, and `AddTrait` what the
descriptor builder does with each type visited: properties added, renamed,
replaced or redefined, the body and id property, the names that lead to them.
`cache` is what `get_type` keeps. A name is a pair of a prefix and a local name.
The reference sides are `Order`, the recursion over supertypes, the type and its
traits (a type that is not registered, on which it would raise, is marked), and
`Rebuilt`, the descriptor folded along it.

Assumed (`LibrariesAssumption`): a package has a prefix and declares a type once; a
name is declared in packages of one uri only; no hierarchy is circular, through
supertypes or extensions; and `none`, which marks what is not registered, is not
the name of a built-in type. The code checks none of this. A second declaration of
a name replaces the first with its traits (`registry.py:127` assigns to
`type_map`), and on a circle `map_types` never returns; the libraries of the
repository have neither.

### `CodecJson`: `hydrate`, `project`, and the check before writing

`Validate` takes the whole validation of one node from the stack and its
children onto it; `BuildTree` builds the elements depth first; `IndexNext` and
`ResolveNext` are one round each of the index and of the references; `Project`,
`Expand`, `Assemble` and `Projected` are the post-order projection;
`Serialize`, `Check`, `Checked` the walk of `serialize.py` that looks at every
element before the writer may run. `phase` orders them as `hydrate` and its
callers do; `refusal` is the first failure and ends the call. JSON objects have
an identity, since the code tells an object met twice from a repeated one. A size
counts one unit per atom, a limit is a small number, and a text is a model value
that is or is not a name, a numeral, clean. The model and the code agreed on
6,116 documents (result, refusal and its path, projection, check).

### `CodecBoundary`: `parse_xml`, for several calls at once

For each call: `Decode`, `ScanToken` and `ScanEnds` (the scan with its stack of
scopes and its observations), `Count`, `Patch` (the sink of `ParseContext` is
replaced), `Warn` (the reader runs and warns), `Constructed`, `Restore`,
`Report` (classification, order and truncation). Calls of two threads interleave
between these steps; `sink` belongs to the class and is the only thing they
share. The native reader and the tokenizer are external: which warnings they
give and whether they fail is chosen. `Codec` puts both halves side by side. The
scan and the counts agreed with the code on 3,956 texts.

### `Lexical`, `ProfileSchema`, `ProfileCompiler`: from text to a compiled profile

`Lexical` reads the sequence of tokens with the stack of frames of the code, one
action per kind of round (`ReadRoot`, `ReadValue`, `ReadKey`, `ReadColon`,
`ReadDelimiter`, ...); its verdict is compared with a recursive reader
over the same grammar. `ProfileSchema` is the closed subset of JSON Schema:
`AuditNext` audits one schema of the library (the limits on the size of an audit,
`_schema.py:251`, are left out), `Validate` is the validation of the
document (`ValidateAt` is `_validate_at`), whose references carry the document they
are resolved in; the reference definition (`Inlined`) writes all references
out first. `ProfileCompiler` has every check of `compile_profile` in its
order; the first that fails is the refusal. Expressions are records tagged with
their operator; a scope maps aliases to the types they were bound with, and
`Step` threads it through the steps of a recipe.

### `ProfileEvaluate` and `ProfileLint`: rules on a tree

`EvalValue`, `EvalPredicate` and `EvalSelector` follow `_evaluate.py`: they
answer with a code and a value, nothing is coerced, a recursion carries the
notions being recognized and its depth. `ProfileLint` flattens the record of a
stage and a policy over those it extends, evaluates the enabled rules in order,
and merges the findings with those of the linter and the adapter into entries
with a place, a provenance and a severity.

### `Envelope`, `Compat`, `Documents` and `Profile`: documents under a profile

`Envelope` has the two walks of `_envelope.py` (projection, extraction of
presentation, each with its own bounds: lists are levels of the second only), the
bindings, the checks and the revision; a digest is the value
digested. `Compat` has the rows of `check_compatibility`. `Documents` uses them
for the command, which accepts an envelope or makes one of an XML text before
any rule runs, and for a session, whose loads are repeated with the payload of the
load before. `Profile` composes everything: `PreParse`, `LoadJson`,
`ValidateSchema`, `CheckPins`, `CompileProfile` and `LintStage` are the stages of
the library, each with its refusals and in this order; `LintCommand` is the
command, `Consult` a question of compatibility or a load. The profile record, the
document its schema sees and its text are three views of one input.

## Runs

| run | property | question |
|---|---|---|
| `saxen_parser` | `ScopesAligned`, `UndoLog`, `CacheFresh`, `AliasFaithful`, `ErrorKept` | two documents, whole or in chunks, three tags with up to two declarations each, over two prefixes, three made-up ones and two uris, callbacks that return, stop or raise, within a tag too |
| `saxen_chunks` | `SameReading` | four tags, one declaration each, one uri configured: chunks, cut between sections or within one, change nothing but made-up names |
| `reader` | `StackAligned`, `IndexExact`, `ReferencesResolved`, `LossesKnown` | every document of four tags and two texts, strict and lax |
| `writer` | `MemoFresh`, `NamesResolve`, `DeclaredOnce`, `AttributesKept` | trees of three elements, in a chain or side by side, of two packages and unknown namespaces, with agreeing, conflicting and shadowing declarations |
| `registry` | `VisitOrder`, `DescriptorsFaithful`, `ExtensionsLinked` | libraries of packages registered in any order, refused and tried again, between descriptions of their types |
| `layout` | `WalkSafe`, `ForkLaidOut`, `Terminates` | any three flows between three nodes and a boundary event, and every forked process of five nodes |
| `layout_lost` | `AllPlaced` violated | with four flows a node can end in no cell |
| `linter` | `CachesFaithful`, `RulesFaithful`, `WalkOrder`, `Contained`, `Answered` | two calls of one linter, each with any of five configurations |
| `codec` | `RoundTrip`, `HydrateSound`, `GateComplete`, `BoundaryFaithful` | six thousand JSON documents of up to six nodes, and XML sources of up to five tokens for one call, or two at once |
| `codec_sink` | `SinkRestored` violated | two overlapping calls leave the recording sink of one of them installed |
| `profile` | `SourceOrder`, `ResourcesClosed`, `WriteAuthority`, `CompiledRulesRun`, `ReportFaithful`, `LintedAsAccepted`, `ProjectionConserves`, `CompatibilityFair` | texts, schemas, profiles, documents, sessions and questions, each through the stages that concern it |
| `bridge` | `EnvelopesValid`, `GuardedUpdate`, `Implements` | two clients, two trees, a heap of six documents |

A property that gathers others names them in its definition: `WalkSafe` is the
types, that a node waits in one place, that one taken up again was in no cell (the
rescue of missing elements does take up handled nodes that lost theirs,
`layouter.py:156`), and that no cell is taken twice;
`RulesFaithful` that the rules are those of the configuration and, in a new
linter, with its options; `LossesKnown` the types, that a strict reader has kept
everything, that a lenient one warns of each outermost node it passes over, and
that warnings are bounded; `HydrateSound`, `BoundaryFaithful`,
`ReportFaithful`, `CompiledRulesRun` and `DescriptorsFaithful` likewise;
`AttributesKept` that no attribute is lost unsaid, or written over by one of another
namespace, and that none is there twice. `ErrorKept` is that an error stays until
the next document, that no further chunk is read, and that nothing is reported with
it but, after a wrong `xmlns:xml`, the rest of the text at hand.

What some of them leave out, besides what their comments say of the code:
`ReportFaithful` has every finding of the profile's rules once, but does not say that
no finding of the linter is merged away (one without a place and one at the root
are one, `report.py:182`); `CompiledRulesRun` says nothing of rules that ask for a
path (`reachable`) or whose own selection starts elsewhere than at the root;
`WriteAuthority` nothing of aliases whose type the compiler misjudges, and
`CompatibilityFair` nothing of an injected identity with a malformed digest: both
are among the divergences below.

The two violated ones are disagreements between the code and what the repository
says of it; `findings` in `PROJECT.json` quotes both sides. Deadlock is not
checked: every model may stop, because an application may stop calling, a
document ends, or a bound is reached.

Bounds. *Saxen*: undo logs go wrong with one tag inside another that declares
the same prefix, and again with a second key or a tag closed at once; three tags
of depth two, two declarations each, contain these, and two documents contain
what the first leaves behind. The two uris are interchangeable there (symmetry: the
run has only safety properties, and none is configured). Three made-up prefixes are
more than such documents can need, so `FreshAnon` never lacks one. The chunked comparison has four tags,
so that a default namespace can be undone and another one declared after a
boundary. *Reader*: four tags are a root, a child, a reference in it and a node
to refuse; the shapes of `MCReader` combine absent, taken and illegal ids with
forward references, references to itself, and an attribute that warns; the limit
of warnings is 2. *Layout*: the interesting interplay (two sources, a loop, a
node placed before all its sources) needs three nodes; five nodes with one source
each show rows and columns shifted under gateways, tasks and a boundary event.
*Bridge*: six objects are three loads, that is a history of two, so that an
undo is followed by another and by a load; clients and trees are interchangeable
(symmetry), and the run has only safety properties. *Linter*: two calls are one
that fills the caches (and may be abandoned anywhere) and one that reads them;
the configurations are three deep, with a diamond, overrides in both directions
and a circle. `RecursionLimit` is 4, the frames the deepest configuration without
a circle needs; the diagram has a skipped kind of property, a generic element,
and siblings with and without children. *Writer*: a root, a child and a grandchild are needed for a declaration between a use and its
scope; six sets of declarations contain a package under another prefix, as the
default, a package's prefix for a foreign uri, and two prefixes for one; an element
may have an attribute `name` without a prefix beside one of its own namespace.
*Registry*: a diamond of supertypes, a trait, a refinement of a refinement and a
failing type need a hierarchy of three types, one that extends them and one that
needs a package not there yet, one of them after it was linked to another type; the
libraries have three packages, and one of them in two forms under one uri; `MaxAttempts` is 3, that is every
package once or one of them again, and one type is described, at any moment
(`MaxDescribed`), since no descriptor is built from another. *Codec*: a process, a task and a flow, the task with any two of
a pool of members, are enough for references forwards, backwards, to the wrong
type and to nothing; limits are set just under the largest documents (`MCLimits`),
so that there are documents on both sides. A scan goes wrong with one element inside
another and a declaration undone; five tokens contain both, and two diagnostics are
allowed, so that truncation happens. *Profile*: texts are all sequences of up to
two tokens, all of four that start with a bracket, and every replacement, deletion
and prefix of three longer ones, with `MaxDepth` 3; two dozen kinds of schema meet
fourteen documents through local and external references; profiles are a small complete
one with one or two places changed to alternatives the compiler tells apart, and
recipes that write through an alias taken from another one, or tested on it;
a session loads a document three times (`MaxLoads`: the loaded one, its
payload, and the payload of that); questions combine presence, identity, versions
and availability. `MaxRecursion`, `MaxSchemaDepth`, `MaxProjectionDepth` and
`MaxProjectionNodes` stand for the limits of the code.

Fairness is assumed in `Layout` (`WF_vars(Next)`) and in `Linter`
(`WF_vars(Step)`, the steps of a call; nobody has to make another call). Both
are calls that run until they return, so they take a step whenever they have one.

## Theorems

TLC answers for a small instance; the following hold for every value of the
constants. They assume what the modules state about them (the `ASSUME`s): in the parser, names,
uris and the absent values are distinct, the configured map is injective, the
made-up prefixes are distinct, callbacks may at least return; in the others, that
inputs are of the shapes the code accepts (`ShapesAssumption`, `DocumentsAssumption`,
`TextsAssumption`, `ConfigsAssumption`, `DiagramAssumption`, `LibrariesAssumption`,
`NodeAssumption`, `ProcessesAssumption`).

*Induction over data* (`Folding`). A library theorem with an operator among its
parameters cannot be used by the provers, but a module that declares the operators
as constants can be instantiated with those of a model. `Folding` proves by
the least element of a set of numbers that a fold of a sequence keeps what its
operator keeps (`FoldKeeps`, `FoldCounts` with the position reached), that two folds
are the same when no element tells their contexts apart (`FoldSame`), and that a
recursion over a well-founded relation has one solution (`RecursionExists`,
`SolutionsAgree`). What the modules below say about sequences of declarations,
references, rules, types or attributes rests on instances of it.

*Parser* (`SaxenProofs`), for any prefixes, uris, depth,
number of tags and documents, chunks that end between sections or within one, and any
callbacks. The
invariant grows in layers, and each is needed by the next:

1. `SafeTypes` (`TypeCorrect`): the types, and how many scopes are saved
   at least. The bounds are needed for types, since closing a tag takes one;
   they hold after errors and interrupted callbacks too.
2. `Reading`: a parser that is not idle has no error, or the one that does not end
   a run. Gives `ErrorKept` (`ErrorsKept`): no step that reads takes an error away
   (`ErrorStep`), and an idle parser with an error stays idle until the next document
   (`IdleStep`).
3. `CacheFresh`, inductive with the types: a step changes the matrix or keeps
   memoised names, never both. `Owners`: the map of known uris and its inverse
   agree.
4. `Depths`: the exact lengths of the stacks in every state of a healthy
   document, also within a tag. Gives `ScopesAligned`.
5. `UndoLog` with `Names`. Closing a tag replaces the matrix by what its log
   gives, which by the invariant is the matrix saved before it, which is what the
   log of the tag around it was about (`Frame`); a declaration does not change what
   a log gives, since only the first write of a key is logged
   (`DeclareRestores`). `Names` adds the name each open tag would be given.
   Together with the fresh cache they give `ClosingName`.
6. `Aliases`: bindings are faithful in the present scope and in every saved one,
   since a uri keeps the prefix it has been given. Gives `AliasFaithful`.

Lemma `Steps` says what a step does to the scopes of a healthy document: it
starts one, leaves them alone, or is one of five steps of a tag. The later layers
are proved by these cases and not by actions.

*Bridge* (`BridgeProofs`), for any clients, documents and length of history:
`TypeCorrect`; then, as long as nobody changes an identity record shared by a
result (`"returned" \notin Tampers`; without it `EnvelopesValid` does not hold), the
invariant `IInv` (`Invariance`): the objects the session refers to are held by no
client and match their revisions (`SessionOwns`), and what a client knows is the
revision of what it has seen (`Learned`). It gives `EnvelopesValid`
(`EnvelopesStayValid`), `GuardedUpdate` (`UpdatesGuarded`, with the injectivity
of revisions), and the step simulation of `Session` (`Refinement`): initial states
are initial, and every step is a load, an undo, a close or a stutter.

*Linter* (`LinterProofs`), for any resolver, callers and diagram without
colliding keys:

- `CachesTrusted`, the invariant `CachesFaithful`. It is inductive
  as it stands: asking for a configuration or a rule either finds what is cached or
  stores what the resolver serves, and since keys do not collide it stores it under
  a key no other one reads (`ConfigsKept`, `RulesKept`); no other step, an exception
  included, touches a cache.
- `FailuresContained`, that is `Contained`, from `LInv`: the definitions left have
  different names (they come from a dict, whatever is overridden or normalized on
  the way, `EnabledAsked`), and every report stands under the name of a rule
  applied already, so a rule that fails can neither lose nor overwrite the reports
  of another.
- `TraversalRecurses`, that is `WalkOrder`, from `WalkInv`: what the hooks were called
  with so far, followed by what the recursion would do for each entry of the stack,
  the top first, is what the recursion does for the root. It holds for every set of
  subtrees skipped that agrees with the answers given so far, since the hooks
  still to be called may answer anything; that a node is asked once needs a tree.

*Reader* (`ReaderProofs`), for any document, meta-model, set of ids and limit of
warnings, strict or lax. The invariant is `IInv` (`Invariance`): the types, the
warnings (`Warned`), one handler per open tag and an element behind every
handler of one (`StackOK`), and a tree whose index is exact (`TreeOK`). They need
each other: the element a handler refers to is where a child is attached, and the
index is exact only because what is attached is in the tree and what is refused is
not; `Rooted` says that nothing is indexed before the root. Elements keep their
ids and parents when a property is filled (`PutKeeps`, `FillKeeps`), so only the
step that creates one touches the index (`Indexing`). It gives `StackAligned`
(`HandlersAligned`), `IndexExact` (`IndexStaysExact`), and, with the layer
`Strict`, that a strict reader that has not failed has refused nothing,
`LossesKnown` (`LossesStayKnown`), whose last part is about steps: what pushes a
`noop` handler under one that is none adds a warning, or finds them full. `ReferencesStayResolved` is `ReferencesResolved`:
`RInv` says of every moment of the resolution what a collection contains, the
placeholders of the references still to come included, and that the single
reference of an element waits for the last one of it.

*Writer* (`WriterProofs`), for any documents. The invariant `WInv` is about the heap
the serializers share. `MemosStayFresh` is `MemoFresh`, that a memoised scope is
the one the chain of ancestors would give now. It does not hold because memoised
scopes are reset, which they are not, but because nothing is memoised too early:
every serializer that has been entered is `Settled`, it owns a scope or has
memoised one of an ancestor, and a scope is given to a serializer only
while it is entered, when it has no children yet. `AttributesStayKept` is
`AttributesKept`: while attributes are parsed, each is written, or warned about,
or still to come (a fold), and the frames that are closed have none to come. What is
written stays: a value goes over another only when the serializer takes them for the
same attribute, and then both are of one namespace, or of none and the element's own
(`Sound`, `OverKeeps`).

*Registry* (`RegistryProofs`), for any well-formed libraries and any order of
registrations and descriptions:

- `ExtensionsStayLinked`, that is `ExtensionsLinked`, from `RegistryInv`: every
  registered type comes from a declaration of a package attempted (`Sound`), and is
  a trait of what it extends unless the uri of that was attempted twice (`Linked`).
  `Linked` says nothing of types that were refused, but their names stay among
  the traits, so `Sound` must. It is kept by every prefix of the types of a package
  and of the names they extend, as a failure may come after any of them.
- `WalkVisitsInOrder`, that is `VisitOrder`, from `WalkInv`: what was visited, followed
  by what the frames of the stack stand for, each in its phase, is what the
  recursion gives for the target. The recursion itself exists because no hierarchy
  is circular (`WalkGrounded`), and a refusal can only concern a type not yet
  visited.
- `DescriptorsStayFaithful`, that is `DescriptorsFaithful`, from these and two more
  invariants. `BuildInv`: the builder is what `AddTrait` makes of the types visited,
  in order, and `Live`: it lists a property once, a listed property answers to its
  two names, and a name leads to a listed property or to a refinement, its own
  unless it leads to a refinement. The last part is needed when a property is
  replaced: the names it gives up are its own. `CacheInv`: an entry is such a
  builder, and its types are those met on the way from it, all of them known, or one
  of them was touched. They lead to one another only (`OrderCovers`), so when a
  package is registered either one of them is declared anew or extended (`Kept`,
  `MetAgain`), which touches the entry for good (`TouchedKept`), or all of them are
  what they were, and are met in the same order and folded to the same descriptor
  (`OrderAlike`, `RebuiltAlike`).

*Layout* (`LayoutProofs`), for any nodes, flows with any loops, and boundary events.
`WalkStaysSafe` is `WalkSafe`: a node that waits for its handlers waits in one place,
one that is taken up again was in no cell (`TakenAnew`), what is placed or waits is
visited, and the cell the attacher handler chooses is free, so the `LayoutError` for an occupied cell is not reached from there. The
invariant `IInv` draws the cells of the grid and the lists from the visited nodes
by their types, so that a grid operation, wherever `find` points it, has to
keep a type only (`AddBelowIs`, `MoveIs`, ...); it adds that a grid with
something to handle has rows (`Walking`), without which the first cell of all,
for which `add` makes a row as well, could be taken (`RoomFound`).

`ForksLaidOut` is `ForkLaidOut`: where the paths of a process only part, every node
reached is in exactly one cell at every step, none is left out at the end, and
without loops no target is above its source or the host of its source. What is
placed where is said by two relations of a grid: an element is `In` one row, in one
cell, and one element is `Above` another. The grid operations keep both, whatever
rows they insert and cells they shift (`RowGains`, `RowCreated`, `RowsStep`), and
each says how what it adds lies to what it was given (`AddAfterStep`,
`AddBelowStep`, `AddAtStep`). On `IInv`, the invariant `WInv` adds: visited nodes are
`Alone` in their cells, flows lead `Downward`, the targets before `index` are visited
(`Progress`), so that what `Place` goes after or below is in the grid
(`TargetPlaced`), the targets left to the attacher handler are those of the
boundary events of the node (`Hosted`), and a node whose handlers have run leaves no
target behind (`Covering`). `Rooted` adds that the nodes nobody leads to are visited.
From these two, in a process without loops, an empty stack means that
everything is visited: the nodes that are not would all follow one another
(`AllReached`, `NoCycle`), and so the rescue of a missing node, whose row goes below
all others, never runs there (`WDrainedStep`). That there is an end is `Terminates`,
which only TLC checks.

Checked by TLC only:

- `NamesResolve` and `DeclaredOnce` of the writer; the second does not hold for
  every document, see below;
- `RulesFaithful` of the linter, which needs that normalizing a name twice is
  normalizing it once, and that is true of the names of the run only;
- all of `CodecJson`, `CodecBoundary` and the profile pipeline, most of
  whose functions are RECURSIVE operators, beyond this prover;
- the comparison of two parsers (`SameReading`);
- liveness (`Terminates` and `Answered` need fairness, which this prover does not
  handle); and what the findings show, on instances.

## Observed divergences

What follows was met while modelling and is not the subject of a run. The code was
run on the cases of the codec, the envelopes, the writer and the linter.
Where a definition states what would be expected, it is named; no run checks it.

- Parser: a chunk that ends after a `>` within a quoted value ends the tag there, so
  that `<a b="1>2"/>` is read otherwise in such chunks than as a whole
  (`parser.py:767`; `tests/saxen/test_stream.py:333` has the same result "regardless of
  chunking"); after a wrong `xmlns:xml` a whole text is read to its end with its
  events, whereas a stream ends with its chunk (`parser.py:324`, `parser.py:451`);
  a made-up prefix depends on where the chunks are cut (`SameNames`);
  `stop()` is forgotten by the next `write()` (`StopHonored`); a document
  inherits the aliases of the one before (`RunsIsolated`).
- Reader: a lax reader raises on a child of a simple value (`LaxNeverFails`;
  `read.py` pushes the handler `None`).
- Writer: of an attribute `x` and an attribute `c:x` of the element's own namespace only
  the last is written, and nothing is said of the other (`write.py:464`,
  `write.py:764`); an attribute of the default namespace on an element of another one
  loses its prefix; a document's redeclaration of a prefix for another registered
  package captures names outside it. A prefix made up to avoid a conflict may be one
  the element itself declares: inside `xmlns:c="urn:V"`, an element with
  `xmlns:c="urn:U"` and `xmlns:c_1` bound to a package is written with `xmlns:c_1`
  twice (`write.py:713`), which is why `DeclaredOnce` is not a theorem.
- Registry: a descriptor's package is that of the last type that extends it
  (`OwnPackage`); after a chain of refinements a name leads to the property in
  the middle; a circle of supertypes never ends; a registration tried again links
  extensions twice. A type that extends a known and then an unknown one is refused
  after it was linked to the first, which cannot be described any more
  (`unknown type`) unless it is cached already (`Extended`).
- Bridge: a result shares containers with the session (`ReadsIsolated`).
- Codec, XML: a start tag the scan cannot read pops the scope of its parent; the
  place of truncation counts native warnings only; `parse_xml` leaves a recording
  sink behind when calls overlap (`codec_sink`).
- Codec, JSON: the check before writing follows references, so that a chain of
  150 tasks is refused for its depth (`DepthIsContainment`); a member of `$attrs`
  that names a property replaces it unchecked; a text in a number slot
  hydrates to a value `project` refuses; attributes and foreign members exceed
  the limit only when projected.
- Profiles: a rule that recognizes a notion is refused, because lint evaluates
  without notions (`RulesEvaluate`, `_lint/evaluate.py:80`); `fallbacks` of rules
  are not evaluated; an optional alias that found nothing is refused as unbound;
  one refused rule costs the findings of all later ones; definitions reached
  through an external reference are not audited (`AuditCloses`, `_schema.py:241`);
  a selector over children sees four properties only; writes through an
  assignable supertype escape authorization, and so do writes to an alias selected
  by a type test of another binding, which gets the type tested whatever it is
  (`_compiler.py:340`: `bind b := self`, `bind a := all where typeIs(b, Task)`,
  `set a.name` is authorized as a write to a task).
- Command: `_profile_identity` (`cli.py:683`) drops the version of descriptor
  pins, which the comparison of identities includes: an envelope written with the
  pins of the profile is refused by `profile lint`. An XML document is
  linted on a second parse, not on the projected tree its revision names.
- Envelopes: the items of a list in a list are doubled by the projection
  (`ProjectionStable`), so that such a tree is never its own projection; a root
  that is presentation itself is kept whole; presentation is extracted with the
  last container first; a limit exceeded escapes as a `ValueError`, and a tree within
  the limits of the projection may exceed those of the extraction; reloading a
  session's own payload empties its presentation.
- Compatibility: when the digest of the injected identity is malformed it is compared
  with no other (`_compat.py:262`), and the question is answered as row 19, "exact
  and valid", although the identities differ.
- Layout: `layout_lost`. Linter: names that join to one cache id are confused,
  and a reused linter runs rules with the options it first met.

## Not modelled

- `saxen/decode.py`, `profile/_unicode*.py`, the canonical text of numbers,
  `_results.py` and `_inventory.py`: conversions and tables without control of
  their own. A reference definition of them would be a second copy.
- `auto_layout` drawing and the expansion of the grid for sub-processes: arithmetic
  on finished grids.
- `lint/rules` and its configurations: independent predicates, each tested by
  cases, with no state between elements. `lint/resolver/node_resolver.py` and
  `profile/_lint/resolver.py` import Python modules; what they serve is a constant
  of the models.
- `bpmn_moddle` and the element classes of `moddle`: a facade and property access,
  modelled where the components use them.
- `cli.py` but for the acceptance of documents, and `scripts/`: arguments, files
  and output.
- Calls of the parser from within its callbacks; Python's recursion limit, which
  `hydrate` meets at some 250 levels.

## Plan

Done: the parser and the comparison of its two ways of reading, the reader, the
writer, the registry, the walk, the linter, the codec, the profile pipeline with
its documents, the session; the theorems above. In order of importance, next:

1. Proofs of the codec: that the sink is what it was whenever calls do not overlap,
   for any number of calls.
2. `ReaderOverSaxen`: parser and reader composed through their callbacks, with a
   reader that raises while the parser is in a tag.
3. `WriterOverReader`: what the writer writes, read back, is the tree.

