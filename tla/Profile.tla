------------------------------ MODULE Profile ------------------------------
(***************************************************************************)
(* A profile on its way from bytes to a lint report: the lexical pre-parse *)
(* (Lexical), load_profile (profile/_loader.py) with the schema validator  *)
(* (ProfileSchema), compile_profile (ProfileCompiler) and, for a compiled  *)
(* profile, one stage of profile lint (ProfileLint).  Each part refuses    *)
(* with a code, and nothing after it runs.  The profile lint command       *)
(* (cli.py) goes the same way with an envelope or an XML text (Documents). *)
(*                                                                         *)
(* The profile record, the document its schema sees and its text are three *)
(* views of one input.                                                     *)
(***************************************************************************)
EXTENDS ProfileLint

CONSTANTS Decoded, LoneTokens, BrokenTokens, SafeNumbers, UnsafeNumbers, Words, MaxDepth, Matches, MaxSchemaDepth,
          PresentationTypes, NotText, Digests, BindingOrder, MaxProjectionDepth, MaxProjectionNodes, Versions, MaxLoads,
          Inputs  \* the inputs considered

VARIABLES text, pos, frames, verdict, library, pending, audited, loading,
          document, accepted, session, decision,
          pins   \* what the loader is given to check the profile against

Lexical == INSTANCE Lexical
Schema == INSTANCE ProfileSchema
Source == INSTANCE Documents
lexicalVars == <<text, pos, frames, verdict>>
schemaVars == <<library, pending, audited, loading>>
sourceVars == <<document, accepted, session, decision>>
vars == <<compilerVars, lintVars, tree, pins, lexicalVars, schemaVars, sourceVars>>
Input == <<tree, call, pins>>
LintState == <<policy, raw, entries>>

-----------------------------------------------------------------------------
(* load_profile.  A pin is "none" when the caller does not check it; bytes *)
(* stand for their digest.                                                 *)
Supplied(x) == x # "none"
PinCodes ==
    FirstCode(<<Require(Supplied(pins.base) => pins.base = pins.declared.base, "profile-pin"),
                Require(Source!Given(pins.descriptors) => pins.descriptors = pins.declared.descriptors, "profile-pin"),
                Require(pins.checkCapabilities => Range(profile.capabilities) \subseteq pins.capabilities,
                        "profile-capability"),
                Require(pins.checkAssets => \A i \in DOMAIN pins.declared.resources :
                            /\ pins.declared.resources[i].key \in DOMAIN pins.assets
                            /\ pins.assets[pins.declared.resources[i].key] = pins.declared.resources[i].digest,
                        "profile-pin")>>)
PreParse ==
    /\ stage = "lexical" /\ Lexical!CheckLexical
    /\ UNCHANGED <<compilerVars, LintState, Input, schemaVars, sourceVars>>
LoadJson ==
    /\ stage = "lexical" /\ Lexical!LexicalDone
    /\ IF verdict # "ok" THEN Refuse(verdict)
       ELSE IF ~Schema!Has(library.document, "fields") \/ pins.schema = "none" THEN Refuse("profile-schema")
       ELSE IF pins.schema = "unreadable" THEN Refuse("profile-schema-keyword")
       ELSE Section("ok", "schema")
    /\ UNCHANGED <<LintState, Input, lexicalVars, schemaVars, sourceVars>>
ValidateSchema ==
    /\ stage = "schema" /\ Schema!CheckSchema
    /\ UNCHANGED <<compilerVars, LintState, Input, lexicalVars, sourceVars>>
DescriptorCode == IF Source!Commanded THEN Source!DescriptorCode(pins.declared.descriptors) ELSE "ok"
CheckPins ==
    /\ stage = "schema" /\ loading # "audit"
    /\ IF loading = "valid" THEN Section(FirstCode(<<PinCodes, DescriptorCode>>), "header")
       ELSE Refuse(IF loading = "invalid" THEN "profile-schema" ELSE loading)
    /\ UNCHANGED <<LintState, Input, lexicalVars, schemaVars, sourceVars>>

CompileProfile == Compile /\ UNCHANGED <<LintState, Input, lexicalVars, schemaVars, sourceVars>>
LintStage ==
    /\ call.phase # "none" /\ ~(stage = "compiled" /\ Source!Commanded /\ accepted = <<>>)
    /\ Lint
    /\ UNCHANGED <<pins, lexicalVars, schemaVars, sourceVars>>

-----------------------------------------------------------------------------
(* The profile lint command: json.loads meets the profile before the       *)
(* lexical gate does, the document is accepted once the profile is         *)
(* compiled, and the warnings of an import join the report at its end.     *)
Invoke ==
    /\ stage = "invoked"
    /\ Section(Require(Source!Invoked /\ text.json /\ Schema!Has(library.document, "fields"), "invalid-invocation"), "lexical")
    /\ UNCHANGED <<LintState, Input, lexicalVars, schemaVars, sourceVars>>
Identity == Source!LintIdentity(pins.declared, profile.digest)
AcceptDocument ==
    /\ stage = "compiled" /\ Source!Commanded /\ accepted = <<>>
    /\ \E c \in {Source!AcceptCode(Identity)} :
          IF c # "ok" THEN Refuse(c) /\ UNCHANGED <<call, sourceVars>>
          ELSE /\ Source!Accept(Identity)
               /\ call' = [call EXCEPT !.bindings = Source!Supports(accepted'[1].envelope)]
               /\ UNCHANGED compilerVars
    /\ UNCHANGED <<LintState, tree, pins, lexicalVars, schemaVars>>
AttachWarnings ==
    /\ stage = "reported" /\ accepted # <<>> /\ accepted[1].warnings > 0
    /\ entries' = entries \o [i \in 1..accepted[1].warnings |-> AdapterEntry("adapter")]
    /\ Section("ok", "warned")
    /\ UNCHANGED <<policy, raw, Input, lexicalVars, schemaVars, sourceVars>>
LintCommand == Invoke \/ AcceptDocument \/ AttachWarnings

Consult ==
    /\ stage = "documents" /\ (Source!LoadDefinitions \/ Source!Decide)
    /\ UNCHANGED <<compilerVars, LintState, Input, lexicalVars, schemaVars>>

Init ==
    /\ \E c \in Inputs : /\ text = c.text /\ library = c.library /\ pins = c.pins
                        /\ profile = c.profile /\ tree = c.tree /\ call = c.call /\ document = c.document
    /\ stage = IF Source!Standalone THEN "documents" ELSE IF Source!Commanded THEN "invoked" ELSE "lexical"
    /\ CompileInit /\ LintInit /\ Lexical!LexicalInit /\ Schema!SchemaInit /\ Source!DocumentsInit
Next == PreParse \/ LoadJson \/ ValidateSchema \/ CheckPins \/ CompileProfile \/ LintStage \/ LintCommand \/ Consult
Spec == Init /\ [][Next]_vars

-----------------------------------------------------------------------------
Compiled == stage \in {"compiled", "evaluating", "reported"}
AllElements == Range(WalkTree(Root))

(* A text is refused for the failure a recursive reader would meet first.  *)
SourceOrder == Lexical!SourceOrder
(* An external definition keeps its own document.                          *)
ResourcesClosed == Schema!ResourcesClosed
(* "nested references face the same closed checks" (_schema.py:241).       *)
AuditCloses == Schema!AuditCloses

-----------------------------------------------------------------------------
(* Write authority.  A recipe is run in the mind on the tree: the types an *)
(* alias may really have are those of the elements its selectors find.     *)
(* Left out are the aliases whose type the compiler misjudges: those       *)
(* typed by an assignable test (a subtype is authorized as its supertype), *)
(* by fallbacks (typed as the first selector), by a type test on another   *)
(* binding than the candidate's own, self (the candidate gets the type     *)
(* tested whatever it is), and those taken from one of these.              *)
Firm(sel) ==
    /\ sel.op = "selector"
    /\ sel.where.op = "typeIs" => sel.where.mode = "exact" /\ sel.where.binding = "self"
Found(sel, env) ==
    LET s == EvalSelector(sel, [LintContext EXCEPT !.notions = [i \in Ids(profile.notions) |-> NotionById(profile, i).recognition]],
                          env, 0)
    IN  IF s.code = "ok" THEN Range(s.handles) ELSE {}
Executed(r) == \* environments at each step: every choice of bound elements
    LET Without(v, alias) == [n \in DOMAIN v \ {alias} |-> v[n]]
        Bindings(a, v) ==
            IF ~Firm(a.select) \/ a.fallbacks # <<>> \/ a.select.from \notin DOMAIN v THEN {Without(v, a.as)}
            ELSE {Bind1(v, a.as, e) : e \in Found(a.select, v)}
        Extend(envs, a) ==
            CASE a.op = "bind" -> UNION {Bindings(a, v) : v \in envs}
              [] a.op = "create" -> {Without(v, a.as) : v \in envs}
              [] OTHER -> envs
        start == IF Firm(r.select) THEN {Bind1(RootEnv, "self", e) : e \in Found(r.select, RootEnv)} ELSE {RootEnv}
    IN  [i \in DOMAIN r.steps |-> FoldLeft(Extend, start, SubSeq(r.steps, 1, i - 1))]

(* No write of a compiled recipe, run on the tree, reaches an element of a *)
(* described type whose field the actor of the phase may not produce.      *)
WriteAuthority ==
    Compiled /\ HasContext =>
        \A i \in DOMAIN profile.recipes : LET r == profile.recipes[i] IN
            \A k \in DOMAIN r.steps : LET a == r.steps[k] IN
                a.op \in {"set", "unset", "assignRef"} =>
                    \A env \in Executed(r)[k] : a.target \in DOMAIN env =>
                        LET type == tree[env[a.target]].type
                        IN  type \in DOMAIN Descriptors /\ HasField(Descriptors[type], a.path[1]) =>
                                Actor(r.phase) \in RightOf(type, a.path[1])

-----------------------------------------------------------------------------
(* A rule of a compiled profile is refused on a tree only for the kind of  *)
(* an operand, or for a cardinality: every name it uses is bound, every    *)
(* path and operator known.  Left out: notions (RulesEvaluate), an         *)
(* optional alias that found nothing, the owner of a binding, rules that   *)
(* ask for a path (reachable, whose interval may be wider than the tree)   *)
(* and rules whose own selection starts anywhere but at the root.          *)
Names(node) ==
    CASE node.op \in {"read", "id", "outputId", "typeIs", "recognizes"} -> {node.binding}
      [] node.op = "boundRole" -> {node.binding, node.owner}
      [] node.op = "selector" -> {node.from}
      [] OTHER -> {}
RuleNodes(r) == NodesOf(RuleAsts(r))
Optional(r) == {r.bindings[i].as : i \in {j \in DOMAIN r.bindings : r.bindings[j].cardinality # "one"}}
Covered(r) ==
    /\ ~\E n \in RuleNodes(r) : n.op \in {"recognizes", "reachable"}
    /\ UNION {Names(n) : n \in RuleNodes(r)} \cap (Optional(r) \cup {"bindingOwner"}) = {}
    /\ r.select.from = "root"
RulesRun ==
    stage = "evaluating" => \A i \in DOMAIN EnabledRules :
        Covered(EnabledRules[i]) => RuleCode(EnabledRules[i]) \in {"ok", "profile-type", "cardinality"}

(* "``notions`` maps compiled notion IDs to their records for              *)
(* notions-aware operators" (_lint/evaluate.py:80): a rule that recognizes *)
(* a notion of the profile is evaluated.                                   *)
RulesEvaluate ==
    stage = "evaluating" => \A i \in DOMAIN EnabledRules :
        (\E n \in RuleNodes(EnabledRules[i]) : n.op = "recognizes") => RuleCode(EnabledRules[i]) # "profile-symbol"

(* Recognition of a compiled profile ends: no notion but one that tests    *)
(* itself meets itself again while it is being recognized.                 *)
RecognitionEnds ==
    LET ctx == [LintContext EXCEPT !.notions = [i \in Ids(profile.notions) |-> NotionById(profile, i).recognition]]
        selfish == {i \in Ids(profile.notions) : i \in Recognized(NotionById(profile, i).recognition)}
    IN  Compiled /\ selfish = {} =>
            \A i \in Ids(profile.notions), e \in AllElements :
                Present(NotionById(profile, i).recognition) =>
                    EvalPredicate(NotionById(profile, i).recognition, ctx, Bind1(RootEnv, "self", e), {i}, 0)
                        # "profile-cycle"

(* What the compiler lets through, the evaluator can evaluate.             *)
CompiledRulesRun == RulesRun /\ RecognitionEnds

-----------------------------------------------------------------------------
(* The report.  Every candidate that fails an evaluated rule has an entry  *)
(* of its own at its own place, with the severity of the record, whichever *)
(* other findings share the report; two elements with one id are left out  *)
(* (the entry of the second becomes an adapter error).                     *)
Aborted == \E i \in DOMAIN raw : raw[i].rule = "none"
ReachedRules == {i \in DOMAIN EnabledRules : \A j \in 1..i : RuleCode(EnabledRules[j]) = "ok"}
FindingsComplete ==
    stage = "reported" =>
        /\ \A i \in ReachedRules : \A e \in Range(FailingOf(EnabledRules[i])) :
               Len(WithId(tree[e].id)) = 1 \/ tree[e].id = NoElement =>
                   Cardinality({k \in DOMAIN entries :
                       /\ entries[k].rule = SettingOf(EnabledRules[i].id)
                       /\ entries[k].target = tree[e].id /\ entries[k].pointer = PointerOf(e)}) = 1
        /\ Aborted <=> (\E i \in DOMAIN EnabledRules : RuleCode(EnabledRules[i]) # "ok")
        /\ Aborted => \E k \in DOMAIN entries : entries[k].code = "lint-rule-error"

(* The severity of an entry is the last one set for its rule in the        *)
(* validation record of this stage and policy, inherited or travelled      *)
(* severities notwithstanding.                                             *)
LastSetting(rule) ==
    LET s == Matching(profile.records)[1].settings IN Last(SelectSeq(s, LAMBDA x : x.rule = rule))
EffectivePolicy ==
    stage = "reported" => \A k \in DOMAIN entries :
        entries[k].rule[1] # "adapter" =>
            /\ entries[k].severity = LastSetting(entries[k].rule).severity
            /\ entries[k].classification = LastSetting(entries[k].rule).classification

(* An exact place is a place of the tree at or under the element reported. *)
ExactPlaces ==
    stage = "reported" => \A k \in DOMAIN entries : entries[k].provenance = "exact" =>
        \E e \in AllElements : /\ IsPrefix(PointerOf(e), entries[k].pointer)
                               /\ tree[e].id = entries[k].target

(* The report has every finding of the profile's rules once, and every     *)
(* entry is at its place and under the policy.  That no finding of the     *)
(* standard rules is merged away is not said.                              *)
ReportFaithful == FindingsComplete /\ EffectivePolicy /\ ExactPlaces

-----------------------------------------------------------------------------
(* The command reports on what it accepted.  When rules run on a document, *)
(* it was written under the very profile that judges it, its revision      *)
(* names its tree, in which there is no presentation, and the bindings     *)
(* the rules see, an owner having one target in a role; and an XML text    *)
(* that decodes is never refused by the checks meant for envelopes that    *)
(* others wrote.                                                           *)
LintedAsAccepted ==
    /\ accepted # <<>> =>
          LET e == accepted[1].envelope b == e.bindings.items IN
          /\ Source!SameIdentity(e.profileIdentity, Identity)
          /\ e.semanticRevision = Source!SemanticRevision(e.tree, e.profileIdentity, b) /\ e.semanticRevision.tree = e.tree
          /\ Source!Extracted(e.tree) = <<>>
          /\ \A i, j \in DOMAIN b : Source!SameRole(b[i], b[j]) => i = j
          /\ call.bindings = Source!Supports(e)
    /\ Compiled /\ document.source = "xml" /\ Source!ImportCode(document.xml) = "ok" =>
          Source!AcceptCode(Identity) \in {"ok", "operation-error"}

(* Nothing of a document is lost when a session loads it.                  *)
ProjectionConserves == Source!ProjectionConserves
(* A verdict is fair to the profile and to the document.                   *)
CompatibilityFair == Source!CompatibilityFair
=============================================================================
