------------------------------- MODULE MCLinter -------------------------------
(***************************************************************************)
(* Linter over a host configuration, a plugin `foo` that extends it, a     *)
(* plugin `foo-bar` that extends both (a diamond), a configuration that    *)
(* extends itself, and callers that override, repeat, or name what no one  *)
(* serves.                                                                 *)
(***************************************************************************)
EXTENDS Linter

Own(name) == [pkg |-> Unnamed, name |-> <<name>>]
Of(pkg, name) == [pkg |-> pkg, name |-> <<name>>]
Value(flag, options) == [flag |-> flag, options |-> options]

Foo == <<"foo">>
FooBar == <<"foo", "bar">>
FooPlugin == Prefix \o Foo
FooBarPlugin == Prefix \o FooBar

MCTexts ==
    {"bpmnlint", "plugin", "foo", "bar", "all", "loop", "gone", "r", "s", "0", "1", "2", "3",
     "off", "warn", "error", "info", "rule-error", "none", "x", "y", "z"}

MCPublished ==
    (<<Host, <<"all">>>> :>
        [extends |-> <<>>,
         rules |-> <<<<Own("r"), Value("1", "none")>>, <<Own("s"), Value("off", "none")>>>>]) @@
    (<<FooPlugin, <<"all">>>> :>
        [extends |-> <<Own("all")>>,
         rules |-> <<<<Own("r"), Value("error", "x")>>, <<Of(Host, "s"), Value("2", "none")>>>>]) @@
    (<<FooPlugin, <<"loop">>>> :>
        [extends |-> <<Of(Foo, "loop")>>, rules |-> <<>>]) @@
    (<<FooBarPlugin, <<"all">>>> :>
        [extends |-> <<Of(FooPlugin, "all"), Own("all")>>,
         rules |-> <<<<Of(Foo, "r"), Value("info", "y")>>>>])

MCServed ==
    {[pkg |-> Host, name |-> <<"r">>], [pkg |-> Host, name |-> <<"s">>],
     [pkg |-> FooPlugin, name |-> <<"r">>]}

MCInputs ==
    {[extends |-> <<Of(FooBar, "all")>>, rules |-> <<<<Own("r"), Value("0", "none")>>>>],
     [extends |-> <<Own("all"), Of(Foo, "all")>>,
      rules |-> <<<<Of(FooPlugin, "r"), Value("warn", "z")>>, <<Of(Host, "s"), Value("off", "none")>>>>],
     [extends |-> <<Of(Foo, "all"), Of(Foo, "loop")>>, rules |-> <<>>],
     [extends |-> <<Own("all"), Of(Foo, "gone")>>, rules |-> <<>>],
     [extends |-> <<>>, rules |-> <<<<Own("s"), Value("3", "none")>>, <<Own("gone"), Value("1", "none")>>>>]}

Holds(nodes) == [contained |-> TRUE, values |-> nodes]
RefersTo(nodes) == [contained |-> FALSE, values |-> nodes]

MCProperties ==
    [root   |-> <<RefersTo(<<"leaf">>), Holds(<<"left", "any">>), Holds(<<"right">>)>>,
     left   |-> <<Holds(<<"leaf">>), RefersTo(<<"root">>)>>,
     any    |-> <<Holds(<<"hidden">>)>>,
     right  |-> <<>>, leaf |-> <<>>, hidden |-> <<>>]
=============================================================================
