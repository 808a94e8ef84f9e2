------------------------------ MODULE LintNames ------------------------------
(***************************************************************************)
(* How lint/linter.py reads the names of rules and configurations, and the *)
(* insertion-ordered dicts it keeps them in.                               *)
(*                                                                         *)
(* A package or a name is the sequence of its dash-separated segments:     *)
(* "bpmnlint-plugin-foo" is <<"bpmnlint", "plugin", "foo">>.  That is all  *)
(* the code looks at: it adds and removes the prefix "bpmnlint-plugin-"    *)
(* and joins a package and a name by a dash.  A written name has the       *)
(* package it names, or <<>> when it names none; an `@scope/` in front of  *)
(* the package is carried along by the code untouched and left out here.   *)
(***************************************************************************)
EXTENDS Naturals, SequencesExt

Host   == <<"bpmnlint">>
Prefix == <<"bpmnlint", "plugin">>
Unnamed == <<>>

\* pkg.startswith("bpmnlint-plugin-"): the trailing dash asks for a third segment
IsPrefixed(pkg) == Len(pkg) > 2 /\ SubSeq(pkg, 1, 2) = Prefix

PrefixPackage(pkg) ==
    IF pkg = Host \/ IsPrefixed(pkg) THEN pkg ELSE Prefix \o pkg

UnprefixPackage(pkg) ==
    IF IsPrefixed(pkg) THEN SubSeq(pkg, 3, Len(pkg)) ELSE pkg

\* parse_rule_name: the package a written rule name stands for
ParseRuleName(written, local) ==
    [pkg  |-> IF written.pkg = Unnamed THEN local ELSE PrefixPackage(written.pkg),
     name |-> written.name]

\* parse_config_name: `bpmnlint:x` names no package, `plugin:foo/x` the package foo
ParseConfigName(written) == ParseRuleName(written, Host)

\* the name under which a configuration keeps the rule it writes as `written`
NormalName(written, local) ==
    LET p == ParseRuleName(written, local)
    IN  [pkg |-> IF p.pkg = Host THEN Unnamed ELSE UnprefixPackage(p.pkg), name |-> p.name]

\* f"{pkg}-{name}"
CacheId(p) == p.pkg \o p.name

(* A dict: a sequence of <<key, value>> pairs, in order of first insertion. *)
DictKeys(d) == {d[i][1] : i \in DOMAIN d}

Put(d, k, v) ==
    IF k \in DictKeys(d)
    THEN [i \in DOMAIN d |-> IF d[i][1] = k THEN <<k, v>> ELSE d[i]]
    ELSE Append(d, <<k, v>>)

\* {**d, **e}
Update(d, e) == FoldLeft(LAMBDA acc, item : Put(acc, item[1], item[2]), d, e)

\* the rules of normalize_config(config, local)
NormalRules(rules, local) ==
    FoldLeft(LAMBDA acc, item : Put(acc, NormalName(item[1], local), item[2]), <<>>, rules)

(* parse_rule_value: a value is a flag, alone or with the rule's options. *)
CategoryMap ==
    [flag \in {"0", "1", "2", "3"} |->
        CASE flag = "0" -> "off" [] flag = "1" -> "warn" [] flag = "2" -> "error" [] flag = "3" -> "info"]

Category(value) ==
    IF value.flag \in DOMAIN CategoryMap THEN CategoryMap[value.flag] ELSE value.flag
=============================================================================
