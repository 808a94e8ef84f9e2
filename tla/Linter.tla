-------------------------------- MODULE Linter --------------------------------
(***************************************************************************)
(* lint/linter.py, lint/test_rule.py and lint/traverse.py: one Linter that *)
(* is asked to lint one diagram several times.                             *)
(*                                                                         *)
(* A call of `lint` goes through three phases.  "configs": the recursion   *)
(* of resolve_configured_rules over `extends`, one frame per active call.  *)
(* "rules": resolve_rules asks for the enabled rules one by one.  "apply": *)
(* test_rule walks the diagram for each of them.  The two caches outlive   *)
(* the call, whether it returns or raises.                                 *)
(***************************************************************************)
EXTENDS LintNames

CONSTANTS
    Texts,          \* what packages, names, flags and options are written in
    Published,      \* configurations the resolver serves: <<pkg, name>> -> config
    Served,         \* rules it serves: a set of [pkg, name]
    Inputs,         \* configurations a caller passes to lint
    Root,           \* the linted element ...
    Properties,     \* ... and, for each element, its properties in descriptor order
    Generic,        \* elements whose descriptor is generic
    MaxLints,       \* bound: calls made of the one linter
    RecursionLimit  \* bound: calls of resolve_configured_rules Python nests

Nodes == DOMAIN Properties

ConfigOf(p) == Published[<<p.pkg, p.name>>]

KnownConfigs == {[pkg |-> s[1], name |-> s[2]] : s \in DOMAIN Published}

(* Two configurations, or two rules, with one cache id would be taken for  *)
(* each other: `foo` + `bar-all` and `foo-bar` + `all`.                    *)
ASSUME NoCollision ==
    /\ \A p, q \in KnownConfigs : CacheId(p) = CacheId(q) => p = q
    /\ \A p, q \in Served : CacheId(p) = CacheId(q) => p = q

ASSUME LimitsAssumption == MaxLints \in Nat /\ RecursionLimit \in Nat \ {0}

(* What a configuration can be; an unset option is a text like the others. *)
Segments == Seq(Texts)
Name     == [pkg : Segments, name : Segments]
Setting  == [flag : Texts, options : Texts]
Config   == [extends : Seq(Name), rules : Seq(Name \X Setting)]

ASSUME TextsAssumption ==
    {"bpmnlint", "plugin", "off", "warn", "error", "info", "rule-error"} \subseteq Texts

ASSUME ConfigsAssumption ==
    /\ Inputs \subseteq Config
    /\ \A s \in DOMAIN Published : s \in Segments \X Segments /\ Published[s] \in Config

VARIABLES
    cachedConfigs,  \* cache id -> normalized configuration
    cachedRules,    \* cache id -> rule instance
    phase,          \* "idle", "configs", "rules" or "apply"
    lints,          \* calls of lint that have ended
    config,         \* the configuration of the call in progress
    frames,         \* active calls of resolve_configured_rules, the innermost last
    wanted,         \* enabled rules not resolved yet
    definitions,    \* resolved rule definitions not applied yet
    stack,          \* the explicit stack of traverse: <<node, expanded>>
    log,            \* calls of the rule's hooks during this traversal
    skipped,        \* nodes at which `enter` returned False
    messages,       \* reports collected by the Reporter
    answer          \* "none" while in progress; then reports per rule, or "raised"

caches == <<cachedConfigs, cachedRules>>
walk   == <<stack, log, skipped, messages>>
vars   == <<caches, phase, lints, config, frames, wanted, definitions, walk, answer>>

Raised == [kind |-> "raised"]
Returned(reports) == [kind |-> "reports", reports |-> reports]

Top == frames[Len(frames)]

Frame(c) == [config |-> c, parents |-> c.extends, rules |-> <<>>]

Init ==
    /\ cachedConfigs = <<>> /\ cachedRules = <<>>
    /\ phase = "idle" /\ lints = 0
    /\ config \in Inputs
    /\ frames = <<>> /\ wanted = <<>> /\ definitions = <<>>
    /\ stack = <<>> /\ log = <<>> /\ skipped = {} /\ messages = 0
    /\ answer = Returned(<<>>)

\* lint(root, config): on to resolve_configured_rules(config)
Lint ==
    /\ phase = "idle" /\ lints < MaxLints
    /\ config' \in Inputs
    /\ phase' = "configs"
    /\ frames' = <<Frame(config')>>
    /\ answer' = Returned(<<>>)
    /\ UNCHANGED <<caches, lints, wanted, definitions, walk>>

\* an exception leaves lint: the frames are gone, the caches stay
Abandon ==
    /\ phase' = "idle" /\ lints' = lints + 1
    /\ frames' = <<>> /\ wanted' = <<>> /\ definitions' = <<>>
    /\ answer' = Raised
    /\ UNCHANGED <<config, walk>>

ResolvedInHost(p) ==
    IF CacheId(p) \in DOMAIN cachedConfigs THEN cachedConfigs[CacheId(p)]
    ELSE [ConfigOf(p) EXCEPT !.rules = NormalRules(@, Host)]

\* resolve_config: the cached configuration, or the resolver's, normalized and cached
ResolvedConfig(p) ==
    IF CacheId(p) \in DOMAIN cachedConfigs THEN cachedConfigs[CacheId(p)]
    ELSE [ConfigOf(p) EXCEPT !.rules = NormalRules(@, p.pkg)]

Remember(cache, id, value) ==
    [k \in DOMAIN cache \cup {id} |-> IF k = id THEN value ELSE cache[k]]

StayPut == frames
\* the loop over `extends` goes on to the next
Advance == [frames EXCEPT ![Len(frames)].parents = Tail(@)]

\* the next of `extends`: resolve it and resolve its own rules, one call deeper
Extend ==
    /\ phase = "configs" /\ Top.parents # <<>>
    /\ LET p == ParseConfigName(Head(Top.parents)) IN
        /\ \/ CacheId(p) \in DOMAIN cachedConfigs
           \/ p \in KnownConfigs
        /\ cachedConfigs' = Remember(cachedConfigs, CacheId(p), ResolvedConfig(p))
        /\ IF Len(frames) < RecursionLimit
           THEN /\ frames' = Append(Advance, Frame(ResolvedConfig(p)))
                /\ UNCHANGED <<phase, lints, config, wanted, definitions, walk, answer>>
           ELSE Abandon
    /\ UNCHANGED cachedRules

\* unknown config <...>
UnknownConfig ==
    /\ phase = "configs" /\ Top.parents # <<>>
    /\ LET p == ParseConfigName(Head(Top.parents)) IN
        CacheId(p) \notin DOMAIN cachedConfigs /\ p \notin KnownConfigs
    /\ Abandon
    /\ UNCHANGED caches

ParentsOverride(frame) == Update(NormalRules(frame.config.rules, Host), frame.rules)

\* what a call of resolve_configured_rules returns: its own rules override
Resolution(frame) == Update(frame.rules, NormalRules(frame.config.rules, Host))

Definition(item) ==
    [name |-> item[1], category |-> Category(item[2]), options |-> item[2].options]
Admit(asked, item) ==
    IF Definition(item).category = "off" THEN asked ELSE Append(asked, Definition(item))
\* the enabled rules, in the order of the rules dict
Enabled(rules) == FoldLeft(Admit, <<>>, rules)

\* a call with no parents left returns to the one that extends it, or to resolve_rules
Inherit ==
    /\ phase = "configs" /\ Top.parents = <<>>
    /\ LET n == Len(frames) IN
        IF n > 1
        THEN /\ frames' = [SubSeq(frames, 1, n - 1) EXCEPT
                              ![n - 1].rules = Update(@, Resolution(Top))]
             /\ UNCHANGED <<phase, wanted>>
        ELSE /\ frames' = <<>>
             /\ phase' = "rules"
             /\ wanted' = Enabled(Resolution(Top))
    /\ UNCHANGED <<caches, lints, config, definitions, walk, answer>>

\* resolve_rule: the cached instance whatever its options, or a new one
ResolvedRule(p, options) ==
    IF CacheId(p) \in DOMAIN cachedRules THEN cachedRules[CacheId(p)]
    ELSE [pkg |-> p.pkg, name |-> p.name, options |-> options]

ResolveRule ==
    /\ phase = "rules" /\ wanted # <<>>
    /\ LET d == Head(wanted)
           p == ParseRuleName(d.name, Host)
           r == ResolvedRule(p, d.options) IN
        /\ \/ CacheId(p) \in DOMAIN cachedRules
           \/ p \in Served
        /\ cachedRules' = Remember(cachedRules, CacheId(p), r)
        /\ definitions' = Append(definitions, [d |-> d, rule |-> r])
    /\ wanted' = Tail(wanted)
    /\ UNCHANGED <<cachedConfigs, phase, lints, config, frames, walk, answer>>

\* unknown rule <...>, or a factory that raises on the options it is given
RuleFails ==
    /\ phase = "rules" /\ wanted # <<>>
    /\ CacheId(ParseRuleName(Head(wanted).name, Host)) \notin DOMAIN cachedRules
    /\ Abandon
    /\ UNCHANGED caches

StartWalk ==
    /\ stack' = <<<<Root, FALSE>>>>
    /\ log' = <<>> /\ skipped' = {} /\ messages' = 0

\* every rule resolved: lint applies the first of them
ApplyFirst ==
    /\ phase = "rules" /\ wanted = <<>>
    /\ IF definitions = <<>>
       THEN /\ phase' = "idle" /\ lints' = lints + 1
            /\ UNCHANGED walk
       ELSE /\ phase' = "apply" /\ StartWalk
            /\ UNCHANGED lints
    /\ UNCHANGED <<caches, config, frames, wanted, definitions, answer>>

Children(n) ==
    FlattenSeq([i \in DOMAIN Properties[n] |->
        IF Properties[n][i].contained THEN Properties[n][i].values ELSE <<>>])

(* An element is contained in one place, and in none of its own contents.  *)
ASSUME DiagramAssumption ==
    /\ Root \in Nodes
    /\ \A n \in Nodes : Children(n) \in Seq(Nodes) /\ IsInjective(Children(n))
                        /\ Root \notin ToSet(Children(n))
    /\ \A n, m \in Nodes : n # m => ToSet(Children(n)) \cap ToSet(Children(m)) = {}
    /\ \A nodes \in SUBSET Nodes :
          nodes # {} => \E n \in nodes : ToSet(Children(n)) \cap nodes = {}

PushedForward(nodes) == [i \in DOMAIN nodes |-> <<nodes[i], FALSE>>]
\* the first of them ends on top
Pushed(nodes) == PushedForward(Reverse(nodes))

Rest == SubSeq(stack, 1, Len(stack) - 1)

\* a node popped for the first time: `enter`, which may report, and may answer False
Enter ==
    /\ phase = "apply" /\ stack # <<>> /\ ~Last(stack)[2]
    /\ LET n == Last(stack)[1] IN
        /\ log' = Append(log, <<"enter", n>>)
        /\ \E skip \in BOOLEAN :
            /\ skipped' = IF skip THEN skipped \cup {n} ELSE skipped
            /\ stack' = Append(Rest, <<n, TRUE>>)
                        \o (IF skip \/ n \in Generic THEN <<>> ELSE Pushed(Children(n)))
    /\ \E k \in {0, 1} : messages' = messages + k     \* one report a node, at most
    /\ UNCHANGED <<caches, phase, lints, config, frames, wanted, definitions, answer>>

\* the same node popped again, below its subtree: `leave`
Leave ==
    /\ phase = "apply" /\ stack # <<>> /\ Last(stack)[2]
    /\ log' = Append(log, <<"leave", Last(stack)[1]>>)
    /\ stack' = Rest
    /\ UNCHANGED <<caches, phase, lints, config, frames, wanted, definitions, skipped, messages, answer>>

\* apply_rule answers: lint keeps the reports, when there are any, and goes on
Answer(reports) ==
    LET name == Head(definitions).d.name IN
    /\ answer' = IF reports.count = 0 THEN answer
                 ELSE Returned(Put(answer.reports, name, reports))
    /\ definitions' = Tail(definitions)
    /\ IF definitions' = <<>>
       THEN /\ phase' = "idle" /\ lints' = lints + 1
            /\ stack' = <<>> /\ log' = <<>> /\ skipped' = {} /\ messages' = 0
       ELSE /\ StartWalk
            /\ UNCHANGED <<phase, lints>>
    /\ UNCHANGED <<caches, config, frames, wanted>>

Applied ==
    /\ phase = "apply" /\ stack = <<>>
    /\ Answer([category |-> Head(definitions).d.category, count |-> messages])

HookRaises ==
    /\ phase = "apply" /\ stack # <<>>
    /\ Abandon /\ UNCHANGED caches

\* a hook raises, or the rule has none: its reports are lost, one rule-error stands for them
HookFails ==
    /\ phase = "apply" /\ stack # <<>>
    /\ Answer([category |-> "rule-error", count |-> 1])

Next ==
    \/ Lint \/ Extend \/ UnknownConfig \/ Inherit \/ ResolveRule \/ RuleFails
    \/ ApplyFirst \/ Enter \/ Leave \/ Applied \/ HookFails

Step ==
    \/ Extend \/ UnknownConfig \/ Inherit \/ ResolveRule \/ RuleFails
    \/ ApplyFirst \/ Enter \/ Leave \/ Applied \/ HookFails

\* one thread runs a call to its end; callers need not make another
Spec == Init /\ [][Next]_vars /\ WF_vars(Step)
-------------------------------------------------------------------------------
(* What the calls promise. *)

TypeOK ==
    /\ phase \in {"idle", "configs", "rules", "apply"}
    /\ lints \in 0..MaxLints /\ config \in Inputs
    /\ Len(frames) <= RecursionLimit
    /\ phase = "configs" <=> frames # <<>>
    /\ stack \in Seq(Nodes \X BOOLEAN) /\ log \in Seq({"enter", "leave"} \X Nodes)
    /\ skipped \subseteq Nodes /\ messages \in Nat
    /\ answer.kind \in {"raised", "reports"}

(* Whatever calls have been made of the linter, and wherever they were     *)
(* abandoned, a cache id leads to the configuration the resolver serves    *)
(* under it, with its rule names made absolute by the package it is from,  *)
(* and to a rule made by the factory of that package and name.             *)
CachesFaithful ==
    /\ \A id \in DOMAIN cachedConfigs : \E p \in KnownConfigs : id = CacheId(p)
    /\ \A p \in KnownConfigs : CacheId(p) \in DOMAIN cachedConfigs =>
          cachedConfigs[CacheId(p)] = [ConfigOf(p) EXCEPT !.rules = NormalRules(@, p.pkg)]
    /\ \A id \in DOMAIN cachedRules :
          \E p \in Served : id = CacheId(p)
                            /\ cachedRules[id].pkg = p.pkg /\ cachedRules[id].name = p.name

(* The rules a configuration writes, those of its parents first, depth     *)
(* first, with no cache and each name made absolute once: the last to      *)
(* write a rule decides.                                                   *)
Sources ==
    {[config |-> c, local |-> Host] : c \in Inputs}
    \cup {[config |-> ConfigOf(p), local |-> p.pkg] : p \in KnownConfigs}

Writes[depth \in 0..RecursionLimit] ==
    [s \in Sources |->
        IF depth = 0 THEN <<>> ELSE
        LET parents == [i \in DOMAIN s.config.extends |-> ParseConfigName(s.config.extends[i])]
            known   == SelectSeq(parents, LAMBDA p : p \in KnownConfigs)
            Own(item) == <<NormalName(item[1], s.local), item[2]>>
        IN  FlattenSeq([i \in DOMAIN known |->
                Writes[depth - 1][[config |-> ConfigOf(known[i]), local |-> known[i].pkg]]])
            \o [i \in DOMAIN s.config.rules |-> Own(s.config.rules[i])]]

LastWritten(writes) ==
    {[name |-> writes[i][1], category |-> Category(writes[i][2]), options |-> writes[i][2].options]
        : i \in {j \in DOMAIN writes : \A k \in DOMAIN writes :
                    k > j => writes[k][1] # writes[j][1]}}

(* The rules a call resolves are those its configuration says, each once:  *)
(* neither the frames, nor names normalized again on every level, nor what *)
(* earlier calls left in the caches add, lose or override one.             *)
EffectiveRules ==
    phase = "rules" =>
        LET asked == [i \in DOMAIN definitions |-> definitions[i].d] \o wanted
        IN  /\ ToSet(asked) = {d \in LastWritten(Writes[RecursionLimit][
                                        [config |-> config, local |-> Host]]) :
                                  d.category # "off"}
            /\ IsInjective(asked)

(* A new linter runs every rule with the options its configuration gives   *)
(* it: what profile/_lint/resolver.py makes a fresh Linter per call for.   *)
FreshAsConfigured ==
    lints = 0 => \A i \in DOMAIN definitions :
        LET p == ParseRuleName(definitions[i].d.name, Host) IN
        definitions[i].rule = [pkg |-> p.pkg, name |-> p.name,
                               options |-> definitions[i].d.options]

(* A call runs the rules of its configuration, with its options.           *)
RulesFaithful == TypeOK /\ EffectiveRules /\ FreshAsConfigured

(* traverse, which keeps a stack of its own, calls the hooks in the order  *)
(* of the recursion upstream writes: a node, its subtree unless `enter`    *)
(* answered False, then the node again.                                    *)
Calls(visit, children) ==
    FoldLeft(LAMBDA calls, child : calls \o visit[child], <<>>, children)

Visit(visit, skips, n) ==
    <<<<"enter", n>>>>
    \o (IF n \in skips \cup Generic THEN <<>> ELSE Calls(visit, Children(n)))
    \o <<<<"leave", n>>>>

Visits(skips) == LET visit[n \in Nodes] == Visit(visit, skips, n) IN visit

WalkOrder == phase = "apply" /\ stack = <<>> => log = Visits(skipped)[Root]

(* Once its rules are resolved a call answers with reports, and a rule     *)
(* that fails costs no other rule the reports it made.                     *)
Contained ==
    [][phase = "apply" =>
        /\ answer'.kind = "reports"
        /\ \A i \in DOMAIN answer.reports :
              i \in DOMAIN answer'.reports /\ answer'.reports[i] = answer.reports[i]]_vars

(* Every call ends, configurations that extend each other in a circle      *)
(* included: that one in Python's RecursionError.                          *)
Answered == phase # "idle" ~> phase = "idle"
=============================================================================
