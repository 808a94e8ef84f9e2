---------------------------- MODULE ProfileLint ----------------------------
(***************************************************************************)
(* Profile lint (profile/_lint): the validation record of a stage and      *)
(* policy is flattened over the configs it extends, the compiled rules of  *)
(* the stage are evaluated on the tree one after the other, and their      *)
(* findings and those of the standard rules become the entries of one      *)
(* report.                                                                 *)
(*                                                                         *)
(* The standard linter is modelled in Linter; here its raw findings are    *)
(* part of the call.  A setting is <<"standard", name>> or <<"profile",    *)
(* id>>.  Severities are numbers as in the documents (0 off, 1 warn, 2     *)
(* error, 3 info; words fold to them); a pointer is its segments.          *)
(***************************************************************************)
EXTENDS ProfileEvaluate

CONSTANTS
    Recommended,  \* severities of the pinned recommended config
    Canonical,    \* the canonical key of each config name
    RuleOrder,    \* settings in UTF-16 order of their names
    NameOrder     \* codes, ids and pointer segments in UTF-16 order

VARIABLES
    call,     \* phase, policy, registry, support bindings, raw standard findings
    policy,   \* the flattened policy: severity and classification by rule
    raw,      \* raw findings of the profile rule
    entries   \* the entries of the report
lintVars == <<call, policy, raw, entries>>

Pinned == DOMAIN Recommended
PinnedConfig == "bpmnlint:recommended"
NoPolicy == [r \in {} |-> [severity |-> 0, classification |-> "none"]]
Row(severity, classification) == [severity |-> severity, classification |-> classification]
Set(flat, rule, row) == [r \in DOMAIN flat \cup {rule} |-> IF r = rule THEN row ELSE flat[r]]
ValidSeverity(n) == n \in 0..3

-----------------------------------------------------------------------------
(* _inherit: parents depth first, left to right, before the config's own   *)
(* rules; what is inherited has no classification.                         *)
Inherited(flat, rules) ==
    [r \in DOMAIN flat \cup DOMAIN rules |-> IF r \in DOMAIN rules THEN Row(rules[r], "none") ELSE flat[r]]
LookUp(registry, name) ==
    IF name \in DOMAIN registry THEN <<registry[name]>>
    ELSE IF Canonical[name] \in DOMAIN registry THEN <<registry[Canonical[name]]>> ELSE <<>>
SameConfig(a, b) == a = b \/ Canonical[a] = Canonical[b]
Stopped(acc, c) == [acc EXCEPT !.code = c]

Overridden(acc, rules) == IF acc.code # "ok" THEN acc ELSE [acc EXCEPT !.flat = Inherited(@, rules)]
RECURSIVE Inherit(_, _, _, _)
InheritOne(acc, name, registry, stack) ==
    LET found == LookUp(registry, name)
    IN  IF acc.code # "ok" THEN acc
        ELSE IF \E i \in DOMAIN stack : SameConfig(stack[i], name) THEN Stopped(acc, "lint-config-cycle")
        ELSE IF name = PinnedConfig
        THEN IF {name, Canonical[name]} \cap DOMAIN registry # {} THEN Stopped(acc, "profile-schema")
             ELSE [acc EXCEPT !.flat = Inherited(@, Recommended)]
        ELSE IF found = <<>> THEN Stopped(acc, "lint-config-unknown")
        ELSE IF \E r \in DOMAIN found[1].rules : ~ValidSeverity(found[1].rules[r]) THEN Stopped(acc, "profile-schema")
        ELSE Overridden(Inherit(found[1].extends, acc, registry, Append(stack, name)), found[1].rules)
Inherit(extends, acc, registry, stack) ==
    FoldLeft(LAMBDA a, name : InheritOne(a, name, registry, stack), acc, extends)

(* flatten_policy: a setting replaces what is inherited; every pinned rule *)
(* and every rule inherited needs a classified setting.                    *)
ApplySettings(flat, settings) ==
    FoldLeft(LAMBDA f, s : Set(f, s.rule, Row(s.severity, s.classification)), flat, settings)
Classified(acc) ==
    IF acc.code = "ok" /\ (~(Pinned \subseteq DOMAIN acc.flat) \/ \E r \in DOMAIN acc.flat : acc.flat[r].classification = "none")
    THEN Stopped(acc, "lint-config-incomplete") ELSE acc
FlattenPolicy(record, registry) ==
    Classified([Inherit(record.extends, [code |-> "ok", flat |-> NoPolicy], registry, <<>>)
                    EXCEPT !.flat = ApplySettings(@, record.settings)])

(* select_record                                                           *)
Matching(records) == SelectSeq(records, LAMBDA r : r.id = call.phase /\ r.policy = call.policy)
RecordCode(records) ==
    IF records = <<>> THEN "profile-schema"
    ELSE IF Matching(records) = <<>> THEN "lint-config-incomplete"
    ELSE Require(/\ Len(Matching(records)) = 1
                 /\ \A i \in DOMAIN Matching(records)[1].settings : ValidSeverity(Matching(records)[1].settings[i].severity),
                 "profile-schema")

(* _check_stage_rules and _preresolve: the rules of the stage and the      *)
(* settings of profile rules are the same, other settings are pinned.      *)
SettingOf(id) == <<"profile", id>>
StageRules == SelectSeq(profile.rules, LAMBDA r : r.phase = call.phase)
ProfileSettings(flat) == {r \in DOMAIN flat : r[1] = "profile"}
StageCode(flat) ==
    IF {SettingOf(StageRules[i].id) : i \in DOMAIN StageRules} # ProfileSettings(flat) THEN "lint-config-incomplete"
    ELSE Require(DOMAIN flat \ ProfileSettings(flat) \subseteq Pinned, "lint-rule-unknown")

SelectPolicy ==
    /\ stage = "compiled"
    /\ IF RecordCode(profile.records) # "ok" THEN Refuse(RecordCode(profile.records)) /\ UNCHANGED policy
       ELSE \E flattened \in {FlattenPolicy(Matching(profile.records)[1], call.registry)} :
            \E c \in {IF flattened.code # "ok" THEN flattened.code ELSE StageCode(flattened.flat)} :
               IF c # "ok" THEN Refuse(c) /\ UNCHANGED policy
               ELSE policy' = flattened.flat /\ Section("ok", "evaluating")
    /\ UNCHANGED <<tree, call, raw, entries>>

-----------------------------------------------------------------------------
(* evaluate_rule                                                           *)
Root == "root"
WithId(id) == SelectSeq(WalkTree(Root), LAMBDA e : tree[e].id = id)
LintContext ==
    [root |-> Root, elements |-> WalkTree(Root),
     byId |-> [id \in {tree[e].id : e \in Range(WalkTree(Root))} \ {NoElement} |-> Last(WithId(id))],
     bindings |-> call.bindings,
     notions |-> [n \in {} |-> None]]

(* Bindings are declared in order; a selection under first or zeroOrOne    *)
(* that is empty leaves its alias unbound.                                 *)
Cardinalities(c) == CASE c = "one" -> {1} [] c = "zeroOrOne" -> {0, 1} [] OTHER -> Nat
BindSelected(acc, b, s) ==
    IF s.code # "ok" THEN Stopped(acc, s.code)
    ELSE IF Len(s.handles) \notin Cardinalities(b.cardinality) THEN Stopped(acc, "cardinality")
    ELSE IF s.handles = <<>> THEN acc
    ELSE [acc EXCEPT !.env = Bind1(@, b.as, s.handles[1])]
BindOne(acc, b) ==
    IF acc.code # "ok" THEN acc ELSE BindSelected(acc, b, EvalSelector(b.select, LintContext, acc.env, 0))
RootEnv == [n \in {"root"} |-> Root]
BindRuleAt(rule, e) ==
    FoldLeft(BindOne, [code |-> "ok", env |-> Bind1(RootEnv, "self", e)], rule.bindings)
VerdictIn(bound, rule, e) ==
    IF bound.code # "ok" THEN bound.code
    ELSE EvalPredicate(rule.assert, LintContext, Bind1(bound.env, "self", e), {}, 0)
VerdictAt(rule, e) == VerdictIn(BindRuleAt(rule, e), rule, e)

RECURSIVE PointerOf(_)
PointerOf(e) ==
    IF e = Root THEN <<>>
    ELSE LET owner == tree[e].parent
             slot == CHOOSE i \in DOMAIN tree[owner].parts : tree[owner].parts[i].element = e
         IN  PointerOf(owner) \o <<tree[owner].parts[slot].attr, tree[owner].parts[slot].index>>
RawFinding(rule, e) ==
    [rule |-> rule.id, code |-> rule.code, message |-> rule.message, pointer |-> PointerOf(e), target |-> tree[e].id]
RawError == [rule |-> "none", code |-> "none", message |-> "none", pointer |-> <<>>, target |-> NoElement]

(* The transport evaluates the enabled rules of the stage in order; the    *)
(* first error ends it, the findings of that rule are dropped.             *)
EnabledRules == SelectSeq(StageRules, LAMBDA r : policy[SettingOf(r.id)].severity # 0)
SelectionOf(rule) == EvalSelector(rule.select, LintContext, RootEnv, 0)
(* evaluate_rule: its code and the candidates that fail.                   *)
Judged(code, verdicts, hs) ==
    [code |-> IF code # "ok" THEN code ELSE IF Bad(verdicts) # <<>> THEN Head(Bad(verdicts)) ELSE "ok",
     failing |-> Seconds(SelectSeq([i \in DOMAIN hs |-> <<verdicts[i], hs[i]>>], LAMBDA v : v[1] = "fails"))]
JudgeSelected(rule, s) == Judged(s.code, [i \in DOMAIN s.handles |-> VerdictAt(rule, s.handles[i])], s.handles)
EvaluatedRule(rule) == JudgeSelected(rule, SelectionOf(rule))
RuleCode(rule) == EvaluatedRule(rule).code
FailingOf(rule) == EvaluatedRule(rule).failing
EvaluateRule ==
    /\ stage = "evaluating" /\ at <= Len(EnabledRules)
    /\ \E rule \in {EnabledRules[at]} : \E judged \in {EvaluatedRule(rule)} :
           IF judged.code # "ok" THEN raw' = Append(raw, RawError) /\ at' = Len(EnabledRules) + 1
           ELSE /\ raw' = raw \o [i \in DOMAIN judged.failing |-> RawFinding(rule, judged.failing[i])]
                /\ at' = at + 1
    /\ UNCHANGED <<profile, stage, step, scope, demands, refusal, tree, call, policy, entries>>

-----------------------------------------------------------------------------
(* The unified report                                                      *)
FirstWithId(id) == Head(WithId(id))
Indexed(id) == id # NoElement /\ WithId(id) # <<>>
Place(pointer, provenance) == [pointer |-> pointer, provenance |-> provenance]
NoPlace == Place(<<"none">>, "unavailable")
KnownPointers == {PointerOf(e) : e \in Range(WalkTree(Root))}

(* resolve_pointer: an absolute pointer must be in the tree and at or under *)
(* the element reported; a relative path is appended to it.                *)
ResolvePointer(id, path) ==
    IF path.absolute
    THEN IF /\ path.segments \in KnownPointers
            /\ id # NoElement => Indexed(id) /\ IsPrefix(PointerOf(FirstWithId(id)), path.segments)
         THEN Place(path.segments, "exact") ELSE NoPlace
    ELSE IF Indexed(id) THEN Place(PointerOf(FirstWithId(id)) \o path.segments, "exact") ELSE NoPlace

Entry(origin, rule, c, row, place, target) ==
    [origin |-> origin, rule |-> rule, code |-> c, severity |-> row.severity, classification |-> row.classification,
     pointer |-> place.pointer, provenance |-> place.provenance, target |-> target]
AdapterEntry(origin) == Entry(origin, <<"adapter", "lint">>, "lint-rule-error", Row(2, "integrity"), NoPlace, NoElement)

(* Metadata of a profile finding must be those of the compiled rule, and   *)
(* its pointer the one the id is indexed at.                               *)
ProfileEntry(f) ==
    LET place == IF f.target = NoElement \/ Indexed(f.target) THEN Place(f.pointer, "exact") ELSE NoPlace
    IN  IF f.rule = "none" THEN AdapterEntry("profile")
        ELSE IF f.target # NoElement /\ PointerOf(FirstWithId(f.target)) # f.pointer THEN AdapterEntry("profile")
        ELSE Entry("profile", SettingOf(f.rule), f.code, policy[SettingOf(f.rule)], place, f.target)
StandardEntry(f) ==
    IF f.category = "rule-error" \/ f.rule \notin DOMAIN policy THEN AdapterEntry("adapter")
    ELSE Entry("standard", f.rule, f.rule[2], policy[f.rule], ResolvePointer(f.id, f.path), f.id)

(* merge_key: an unknown place and the document root have the same key.    *)
KeyPointer(e) == IF e.pointer = <<"none">> THEN <<>> ELSE e.pointer
MergeUnplaced(e) == <<e.origin, e.rule, e.code>> \* mutant: the place and element are no part of the key
MergeKey(e) == <<e.origin, e.rule, e.code, e.target, KeyPointer(e)>>
Dedupe(es) ==
    LET kept == SelectSeq([i \in DOMAIN es |-> <<i, es[i]>>],
                          LAMBDA k : \A j \in 1..(k[1] - 1) : MergeKey(es[j]) # MergeKey(k[2]))
    IN  [i \in DOMAIN kept |-> kept[i][2]]

(* sort_entries: by rule, pointer, target and code.                        *)
Rank(order, name) == CHOOSE i \in DOMAIN order : order[i] = name
Ranks(names) == [i \in DOMAIN names |-> Rank(NameOrder, names[i])]
SortKey(e) == <<<<Rank(RuleOrder, e.rule)>>, Ranks(KeyPointer(e)), Ranks(<<e.target>>), Ranks(<<e.code>>)>>
RECURSIVE Before(_, _)
Before(a, b) == \* lexicographic order of sequences of numbers
    IF a = <<>> \/ b = <<>> THEN Len(a) < Len(b)
    ELSE Head(a) < Head(b) \/ (Head(a) = Head(b) /\ Before(Tail(a), Tail(b)))
Precedes(e, f) ==
    \E k \in 1..4 : Before(SortKey(e)[k], SortKey(f)[k]) /\ \A j \in 1..(k - 1) : SortKey(e)[j] = SortKey(f)[j]

BuildUnified ==
    /\ stage = "evaluating" /\ at > Len(EnabledRules)
    /\ entries' = SortSeq(Dedupe([i \in DOMAIN call.raw |-> StandardEntry(call.raw[i])]
                                 \o [i \in DOMAIN raw |-> ProfileEntry(raw[i])]), Precedes)
    /\ stage' = "reported"
    /\ UNCHANGED <<profile, at, step, scope, demands, refusal, tree, call, policy, raw>>

LintInit == policy = NoPolicy /\ raw = <<>> /\ entries = <<>>
Lint == SelectPolicy \/ EvaluateRule \/ BuildUnified
=============================================================================
