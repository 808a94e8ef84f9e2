----------------------------- MODULE LinterProofs -----------------------------
(***************************************************************************)
(* Three results about the linter, for any resolver, callers and diagram.  *)
(* Its caches can be trusted after any number of calls, returned or        *)
(* raised, as long as no two configurations and no two rules share a cache *)
(* id.  A rule that fails costs no other rule its reports.  And the loop   *)
(* that walks the diagram with a stack of its own calls the hooks as the   *)
(* recursion would.                                                        *)
(***************************************************************************)
EXTENDS Linter, SequenceTheorems, TLAPS

(* Asking for a configuration keeps the configurations cached before, and  *)
(* caches the one asked for as the resolver serves it.                     *)
LEMMA ConfigsKept ==
    ASSUME CachesFaithful, NEW p,
           CacheId(p) \in DOMAIN cachedConfigs \/ p \in KnownConfigs,
           cachedConfigs' = Remember(cachedConfigs, CacheId(p), ResolvedConfig(p)),
           cachedRules' = cachedRules
    PROVE  CachesFaithful'
<1>1. /\ DOMAIN cachedConfigs' = DOMAIN cachedConfigs \cup {CacheId(p)}
      /\ cachedConfigs'[CacheId(p)] = ResolvedConfig(p)
      /\ \A id \in DOMAIN cachedConfigs : id # CacheId(p) => cachedConfigs'[id] = cachedConfigs[id]
  BY DEF Remember
<1>2. \A id \in DOMAIN cachedConfigs' : \E q \in KnownConfigs : id = CacheId(q)
  BY <1>1 DEF CachesFaithful
<1>3. ASSUME NEW q \in KnownConfigs, CacheId(q) \in DOMAIN cachedConfigs'
      PROVE  cachedConfigs'[CacheId(q)] = [ConfigOf(q) EXCEPT !.rules = NormalRules(@, q.pkg)]
  <2>1. CASE CacheId(q) # CacheId(p)
    BY <2>1, <1>1, <1>3 DEF CachesFaithful
  <2>2. CASE CacheId(q) = CacheId(p) /\ CacheId(p) \in DOMAIN cachedConfigs
    <3>1. cachedConfigs'[CacheId(q)] = ResolvedConfig(p)
      BY <2>2, <1>1
    <3>2. QED
      BY <3>1, <2>2 DEF CachesFaithful, ResolvedConfig
  <2>3. CASE CacheId(q) = CacheId(p) /\ CacheId(p) \notin DOMAIN cachedConfigs
    <3>1. q = p
      BY <2>3, NoCollision
    <3>2. cachedConfigs'[CacheId(q)] = ResolvedConfig(p)
      BY <2>3, <1>1
    <3>3. QED
      BY <3>1, <3>2, <2>3 DEF ResolvedConfig
  <2>4. QED
    BY <2>1, <2>2, <2>3
<1>4. QED
  BY <1>2, <1>3 DEF CachesFaithful

(* Asking for a rule keeps the rules cached before, and caches one made by *)
(* the factory asked for.                                                  *)
LEMMA RulesKept ==
    ASSUME CachesFaithful, NEW p, NEW options,
           CacheId(p) \in DOMAIN cachedRules \/ p \in Served,
           cachedRules' = Remember(cachedRules, CacheId(p), ResolvedRule(p, options)),
           cachedConfigs' = cachedConfigs
    PROVE  CachesFaithful'
<1>1. /\ DOMAIN cachedRules' = DOMAIN cachedRules \cup {CacheId(p)}
      /\ cachedRules'[CacheId(p)] = ResolvedRule(p, options)
      /\ \A id \in DOMAIN cachedRules : id # CacheId(p) => cachedRules'[id] = cachedRules[id]
  BY DEF Remember
<1>2. ASSUME NEW id \in DOMAIN cachedRules'
      PROVE  \E q \in Served : id = CacheId(q)
                               /\ cachedRules'[id].pkg = q.pkg /\ cachedRules'[id].name = q.name
  <2>1. CASE id \in DOMAIN cachedRules
    <3>1. cachedRules'[id] = cachedRules[id]
      BY <2>1, <1>1 DEF ResolvedRule
    <3>2. QED
      BY <2>1, <3>1 DEF CachesFaithful
  <2>2. CASE id \notin DOMAIN cachedRules
    <3>1. id = CacheId(p) /\ p \in Served
      BY <2>2, <1>1, <1>2
    <3>2. cachedRules'[id] = [pkg |-> p.pkg, name |-> p.name, options |-> options]
      BY <2>2, <3>1, <1>1 DEF ResolvedRule
    <3>3. QED
      BY <3>1, <3>2
  <2>3. QED
    BY <2>1, <2>2
<1>3. QED
  BY <1>2 DEF CachesFaithful

(* No call of lint, whatever it resolves and wherever it is abandoned,     *)
(* leaves in a cache what a later call would wrongly take from it.         *)
THEOREM CachesTrusted == Spec => []CachesFaithful
<1>1. Init => CachesFaithful
  BY DEF Init, CachesFaithful
<1>2. ASSUME CachesFaithful, [Next]_vars PROVE CachesFaithful'
  <2>1. CASE Extend
    BY <1>2, <2>1, ConfigsKept DEF Extend
  <2>2. CASE ResolveRule
    BY <1>2, <2>2, RulesKept DEF ResolveRule
  <2>3. CASE UNCHANGED caches
    BY <1>2, <2>3 DEF CachesFaithful, caches
  <2>4. [Next]_vars => Extend \/ ResolveRule \/ UNCHANGED caches
    BY DEF Next, vars, caches, Lint, UnknownConfig, Inherit, RuleFails, ApplyFirst,
           Enter, Leave, Applied, HookFails, Answer
  <2>5. QED
    BY <1>2, <2>1, <2>2, <2>3, <2>4
<1>3. QED
  BY <1>1, <1>2, PTL DEF Spec

-----------------------------------------------------------------------------
(* Names stay names, and a dict keeps one entry for a key.                 *)
Parsed == [pkg : Segments, name : Segments]

LEMMA PackageType ==
    ASSUME NEW pkg \in Segments
    PROVE  PrefixPackage(pkg) \in Segments /\ UnprefixPackage(pkg) \in Segments
<1>1. Prefix \in Seq(Texts) /\ pkg \in Seq(Texts)
  <2>1. "bpmnlint" \in Texts /\ "plugin" \in Texts
    BY TextsAssumption
  <2>2. QED
    BY <2>1 DEF Prefix, Segments
<1>2. Prefix \o pkg \in Seq(Texts)
  BY <1>1, ConcatProperties
<1>3. IsPrefixed(pkg) => SubSeq(pkg, 3, Len(pkg)) \in Seq(Texts)
  <2>1. \A i \in 3..Len(pkg) : pkg[i] \in Texts
    BY <1>1, ElementOfSeq
  <2>2. QED
    BY <1>1, <2>1, SubSeqProperties DEF IsPrefixed
<1>4. QED
  BY <1>1, <1>2, <1>3 DEF PrefixPackage, UnprefixPackage, Segments

LEMMA ParsedType ==
    ASSUME NEW written \in Name, NEW local \in Segments
    PROVE  ParseRuleName(written, local) \in Parsed
BY PackageType DEF ParseRuleName, Name, Parsed

LEMMA HostType == Host \in Segments
BY TextsAssumption DEF Host, Segments

LEMMA NormalNameType ==
    ASSUME NEW written \in Name, NEW local \in Segments
    PROVE  NormalName(written, local) \in Name
<1>1. ParseRuleName(written, local) \in Parsed
  BY ParsedType
<1>2. Unnamed \in Segments
  BY DEF Unnamed, Segments
<1>3. QED
  BY <1>1, <1>2, PackageType DEF NormalName, Parsed, Name

Pair == Name \X Setting
Keyed(d) == \A i, j \in 1..Len(d) : d[i][1] = d[j][1] => i = j
RuleDict(d) == d \in Seq(Pair) /\ Keyed(d)

LEMMA PutKeeps ==
    ASSUME NEW d, RuleDict(d), NEW k \in Name, NEW v \in Setting
    PROVE  RuleDict(Put(d, k, v))
<1>1. d \in Seq(Pair) /\ Keyed(d)
  BY DEF RuleDict
<1>2. PICK x \in Pair : x = <<k, v>> /\ x[1] = k
  <2>1. <<k, v>> \in Pair /\ <<k, v>>[1] = k
    BY DEF Pair
  <2>2. QED
    BY <2>1
<1>3. PICK n \in Nat : n = Len(d)
  BY <1>1
<1>4. CASE k \in DictKeys(d)
  <2>1. PICK e : e = [i \in DOMAIN d |-> IF d[i][1] = k THEN x ELSE d[i]]
    OBVIOUS
  <2>2. e \in [1..n -> Pair] /\ \A i \in 1..n : e[i][1] = d[i][1]
    BY <2>1, <1>1, <1>2, <1>3, ElementOfSeq
  <2>3. e \in Seq(Pair) /\ Len(e) = n
    BY <2>2
  <2>4. RuleDict(e)
    BY <2>2, <2>3, <1>1, <1>3 DEF RuleDict, Keyed
  <2>5. Put(d, k, v) = e
    BY <2>1, <1>2, <1>4 DEF Put
  <2>6. QED
    BY <2>4, <2>5
<1>5. CASE k \notin DictKeys(d)
  <2>1. PICK e : e = Append(d, x)
    OBVIOUS
  <2>2. e \in Seq(Pair) /\ Len(e) = n + 1 /\ e[n + 1] = x /\ \A i \in 1..n : e[i] = d[i]
    BY <2>1, <1>1, <1>2, <1>3
  <2>3. \A i \in 1..n : d[i][1] # k
    BY <1>1, <1>3, <1>5 DEF DictKeys
  <2>4. ASSUME NEW i \in 1..(n + 1), NEW j \in 1..(n + 1), e[i][1] = e[j][1] PROVE i = j
    <3>1. CASE i \in 1..n /\ j \in 1..n
      BY <3>1, <2>2, <2>4, <1>1, <1>3 DEF Keyed
    <3>2. CASE i = n + 1 /\ j \in 1..n
      BY <3>2, <2>2, <2>3, <2>4, <1>2
    <3>3. CASE i \in 1..n /\ j = n + 1
      BY <3>3, <2>2, <2>3, <2>4, <1>2
    <3>4. CASE i = n + 1 /\ j = n + 1
      BY <3>4
    <3>5. QED
      BY <3>1, <3>2, <3>3, <3>4
  <2>5. RuleDict(e)
    BY <2>2, <2>4 DEF RuleDict, Keyed
  <2>6. Put(d, k, v) = e
    BY <2>1, <1>2, <1>5 DEF Put
  <2>7. QED
    BY <2>5, <2>6
<1>6. QED
  BY <1>4, <1>5

(* {**d, **e}, and normalize_config.                                       *)
Overridden(d, item) == Put(d, item[1], item[2])
Normalized(local, d, item) == Put(d, NormalName(item[1], local), item[2])

U == INSTANCE Folding WITH Op <- LAMBDA c, d, item : Overridden(d, item), Holds <- LAMBDA c, d : RuleDict(d)
N == INSTANCE Folding WITH Op <- Normalized, Holds <- LAMBDA c, d : RuleDict(d)

LEMMA UpdateFold ==
    ASSUME NEW d, NEW e
    PROVE  Update(d, e) = U!Fold(<<>>, d, e)
BY Zenon DEF Update, Overridden, U!Fold, FoldLeft, MapThenFoldSet, Max, U!FoldLeft, U!MapThenFoldSet, U!Max

LEMMA NormalRulesFold ==
    ASSUME NEW rules, NEW local
    PROVE  NormalRules(rules, local) = N!Fold(local, <<>>, rules)
BY Zenon DEF NormalRules, Normalized, N!Fold, FoldLeft, MapThenFoldSet, Max, N!FoldLeft, N!MapThenFoldSet, N!Max

LEMMA UpdateKeeps ==
    ASSUME NEW d, NEW e, RuleDict(d), RuleDict(e)
    PROVE  RuleDict(Update(d, e))
<1>1. \A a : \A item \in Pair : RuleDict(a) => RuleDict(Overridden(a, item))
  <2>1. ASSUME NEW a, NEW item \in Pair, RuleDict(a)
        PROVE  RuleDict(Overridden(a, item))
    <3>1. item[1] \in Name /\ item[2] \in Setting
      BY DEF Pair
    <3>2. QED
      BY <2>1, <3>1, PutKeeps DEF Overridden
  <2>2. QED
    BY <2>1
<1>2. e \in Seq(Pair)
  BY DEF RuleDict
<1>3. RuleDict(U!Fold(<<>>, d, e))
  BY <1>1, <1>2, U!FoldKeeps
<1>4. QED
  BY <1>3, UpdateFold

LEMMA NormalRulesKeep ==
    ASSUME NEW rules \in Seq(Pair), NEW local \in Segments
    PROVE  RuleDict(NormalRules(rules, local))
<1>1. \A a : \A item \in Pair : RuleDict(a) => RuleDict(Normalized(local, a, item))
  <2>1. ASSUME NEW a, NEW item \in Pair, RuleDict(a)
        PROVE  RuleDict(Normalized(local, a, item))
    <3>1. NormalName(item[1], local) \in Name /\ item[2] \in Setting
      BY NormalNameType DEF Pair
    <3>2. QED
      BY <2>1, <3>1, PutKeeps DEF Normalized
  <2>2. QED
    BY <2>1
<1>2. RuleDict(<<>>)
  BY DEF RuleDict, Keyed
<1>3. RuleDict(N!Fold(local, <<>>, rules))
  BY <1>1, <1>2, N!FoldKeeps
<1>4. QED
  BY <1>3, NormalRulesFold

-----------------------------------------------------------------------------
(* The rules asked for are those of a dict, each once.                     *)
DefinitionType == [name : Name, category : Texts, options : Texts]
Asked(ds) == ds \in Seq(DefinitionType) /\ \A i, j \in 1..Len(ds) : ds[i].name = ds[j].name => i = j

A == INSTANCE Folding WITH Op <- LAMBDA c, ds, item : Admit(ds, item), Holds <- LAMBDA c, ds : Asked(ds)

LEMMA EnabledFold ==
    ASSUME NEW rules
    PROVE  Enabled(rules) = A!Fold(<<>>, <<>>, rules)
BY Zenon DEF Enabled, A!Fold, FoldLeft, MapThenFoldSet, Max, A!FoldLeft, A!MapThenFoldSet, A!Max

LEMMA DefinitionIsTyped ==
    ASSUME NEW item \in Pair
    PROVE  Definition(item) \in DefinitionType /\ Definition(item).name = item[1]
<1>1. item[1] \in Name /\ item[2] \in Setting
  BY DEF Pair
<1>2. Category(item[2]) \in Texts
  BY <1>1, TextsAssumption DEF Category, CategoryMap, Setting
<1>3. QED
  BY <1>1, <1>2 DEF Definition, DefinitionType, Setting

(* The first n entries of a dict give rules with their names only.         *)
Of(rules, n, ds) == Asked(ds) /\ \A i \in 1..Len(ds) : \E k \in 1..n : ds[i].name = rules[k][1]

LEMMA AdmitKeeps ==
    ASSUME NEW rules, RuleDict(rules), NEW n \in 1..Len(rules), NEW ds, Of(rules, n - 1, ds)
    PROVE  Of(rules, n, Admit(ds, rules[n]))
<1>1. rules \in Seq(Pair) /\ Keyed(rules) /\ n - 1 \in Nat
  BY DEF RuleDict
<1>2. PICK item \in Pair : item = rules[n]
  BY <1>1, ElementOfSeq
<1>3. PICK x \in DefinitionType : x = Definition(item) /\ x.name = item[1]
  BY DefinitionIsTyped
<1>4. ds \in Seq(DefinitionType) /\ \A i, j \in 1..Len(ds) : ds[i].name = ds[j].name => i = j
  BY DEF Of, Asked
<1>5. PICK m \in Nat : m = Len(ds)
  BY <1>4
<1>6. \A i \in 1..m : \E k \in 1..(n - 1) : ds[i].name = rules[k][1]
  BY <1>5 DEF Of
<1>7. 1..(n - 1) \subseteq 1..n /\ n \in 1..n
  BY <1>1
<1>8. Of(rules, n, ds)
  BY <1>4, <1>5, <1>6, <1>7 DEF Of, Asked
<1>9. PICK es : es = Append(ds, x)
  OBVIOUS
<1>10. es \in Seq(DefinitionType) /\ Len(es) = m + 1 /\ es[m + 1] = x /\ \A i \in 1..m : es[i] = ds[i]
  BY <1>3, <1>4, <1>5, <1>9
<1>11. \A i \in 1..m : ds[i].name # x.name
  <2>1. ASSUME NEW i \in 1..m, ds[i].name = x.name PROVE FALSE
    <3>1. PICK k \in 1..(n - 1) : ds[i].name = rules[k][1]
      BY <1>6
    <3>2. k \in 1..Len(rules) /\ k # n
      BY <1>1
    <3>3. rules[k][1] = rules[n][1]
      BY <3>1, <2>1, <1>2, <1>3
    <3>4. QED
      BY <3>2, <3>3, <1>1 DEF Keyed
  <2>2. QED
    BY <2>1
<1>12. Of(rules, n, es)
  <2>1. ASSUME NEW i \in 1..(m + 1), NEW j \in 1..(m + 1), es[i].name = es[j].name PROVE i = j
    <3>1. CASE i \in 1..m /\ j \in 1..m
      BY <3>1, <2>1, <1>4, <1>5, <1>10
    <3>2. CASE i = m + 1 /\ j \in 1..m
      BY <3>2, <2>1, <1>10, <1>11
    <3>3. CASE i \in 1..m /\ j = m + 1
      BY <3>3, <2>1, <1>10, <1>11
    <3>4. CASE i = m + 1 /\ j = m + 1
      BY <3>4
    <3>5. QED
      BY <3>1, <3>2, <3>3, <3>4
  <2>2. ASSUME NEW i \in 1..(m + 1) PROVE \E k \in 1..n : es[i].name = rules[k][1]
    <3>1. CASE i \in 1..m
      BY <3>1, <1>6, <1>7, <1>10
    <3>2. CASE i = m + 1
      BY <3>2, <1>2, <1>3, <1>7, <1>10
    <3>3. QED
      BY <3>1, <3>2
  <2>3. QED
    BY <2>1, <2>2, <1>10 DEF Of, Asked
<1>13. Admit(ds, item) = ds \/ Admit(ds, item) = es
  BY <1>3, <1>9 DEF Admit
<1>14. QED
  BY <1>2, <1>8, <1>12, <1>13

LEMMA EnabledAsked ==
    ASSUME NEW rules, RuleDict(rules)
    PROVE  Asked(Enabled(rules))
<1>1. rules \in Seq(Pair)
  BY DEF RuleDict
<1> DEFINE so(n) == A!Fold(<<>>, <<>>, SubSeq(rules, 1, n))
           T == {n \in Nat : n <= Len(rules) => Of(rules, n, so(n))}
<1>2. 0 \in T
  <2>1. SubSeq(rules, 1, 0) = <<>>
    BY <1>1
  <2>2. so(0) = <<>>
    BY <2>1, A!FoldEmpty
  <2>3. Of(rules, 0, <<>>)
    BY DEF Of, Asked
  <2>4. QED
    BY <2>2, <2>3
<1>3. ASSUME NEW n \in Nat, n \in T
      PROVE  n + 1 \in T
  <2>1. SUFFICES ASSUME n + 1 <= Len(rules)
                 PROVE  Of(rules, n + 1, so(n + 1))
    OBVIOUS
  <2>2. PICK m \in 1..Len(rules) : m = n + 1 /\ m - 1 = n
    BY <2>1, <1>1
  <2>3. so(m) = Admit(so(m - 1), rules[m])
    BY <1>1, A!FoldPrefix
  <2>4. Of(rules, m - 1, so(m - 1))
    BY <1>1, <1>3, <2>1, <2>2
  <2> HIDE DEF so
  <2>5. Of(rules, m, so(m))
    BY <2>3, <2>4, AdmitKeeps
  <2>6. QED
    BY <2>2, <2>5
<1>4. \A n \in Nat : n \in T
  <2> HIDE DEF T
  <2> QED
    BY <1>2, <1>3, A!Induction
<1>5. PICK m \in Nat : m = Len(rules)
  BY <1>1
<1>6. Of(rules, m, so(m))
  BY <1>4, <1>5
<1>7. SubSeq(rules, 1, m) = rules
  BY <1>1, <1>5
<1>8. QED
  BY <1>6, <1>7, EnabledFold DEF Of

-----------------------------------------------------------------------------
(* The invariant: the rules of a call have distinct names, and the reports *)
(* kept are of rules applied before.                                       *)
FrameType == [config : Config, parents : Seq(Name), rules : Seq(Pair)]
RuleType == [pkg : Segments, name : Segments, options : Texts]
ResolvedType == [d : DefinitionType, rule : RuleType]
ReportType == [category : Texts, count : Nat]

Defined(ds) == ds \in Seq(ResolvedType) /\ \A i, j \in 1..Len(ds) : ds[i].d.name = ds[j].d.name => i = j
Apart(ds, ws) == \A i \in 1..Len(ds), j \in 1..Len(ws) : ds[i].d.name # ws[j].name
Reported(rs, ds) ==
    /\ rs \in Seq(Name \X ReportType)
    /\ \A i \in 1..Len(rs), j \in 1..Len(ds) : rs[i][1] # ds[j].d.name

FramesOK == frames \in Seq(FrameType) /\ \A i \in 1..Len(frames) : RuleDict(frames[i].rules)
CachedOK == \A id \in DOMAIN cachedRules : cachedRules[id] \in RuleType
CallOK ==
    /\ phase \in {"idle", "configs", "rules", "apply"}
    /\ phase = "configs" => frames # <<>>
    /\ phase # "rules" => wanted = <<>>
    /\ phase \in {"idle", "configs"} => definitions = <<>>
    /\ phase \in {"configs", "rules"} => answer = Returned(<<>>)
    /\ phase = "rules" => Asked(wanted) /\ Defined(definitions) /\ Apart(definitions, wanted)
    /\ phase = "apply" => /\ definitions # <<>> /\ Defined(definitions)
                         /\ answer.kind = "reports" /\ Reported(answer.reports, definitions)
LInv == config \in Config /\ messages \in Nat /\ CachedOK /\ FramesOK /\ CallOK

(* A configuration asked for is one the resolver serves.                   *)
LEMMA KnownIsTyped ==
    ASSUME NEW q \in KnownConfigs
    PROVE  ConfigOf(q) \in Config /\ q.pkg \in Segments
<1>1. PICK s \in DOMAIN Published : q = [pkg |-> s[1], name |-> s[2]]
  BY DEF KnownConfigs
<1>2. s \in Segments \X Segments /\ Published[s] \in Config
  BY ConfigsAssumption
<1>3. <<q.pkg, q.name>> = s
  BY <1>1, <1>2
<1>4. QED
  BY <1>1, <1>2, <1>3 DEF ConfigOf

LEMMA NormalIsTyped ==
    ASSUME NEW c \in Config, NEW local \in Segments
    PROVE  [c EXCEPT !.rules = NormalRules(@, local)] \in Config
<1>1. c.rules \in Seq(Pair)
  BY DEF Config, Pair
<1>2. PICK rules \in Seq(Pair) : rules = NormalRules(c.rules, local)
  BY <1>1, NormalRulesKeep DEF RuleDict
<1>3. [c EXCEPT !.rules = rules] \in Config
  BY DEF Config, Pair
<1>4. QED
  BY <1>2, <1>3

LEMMA ResolvedIsTyped ==
    ASSUME CachesFaithful, NEW p, p.pkg \in Segments, CacheId(p) \in DOMAIN cachedConfigs \/ p \in KnownConfigs
    PROVE  ResolvedConfig(p) \in Config
<1>1. CASE CacheId(p) \in DOMAIN cachedConfigs
  <2>1. PICK q \in KnownConfigs : CacheId(p) = CacheId(q)
    BY <1>1 DEF CachesFaithful
  <2>2. cachedConfigs[CacheId(q)] = [ConfigOf(q) EXCEPT !.rules = NormalRules(@, q.pkg)]
    BY <1>1, <2>1 DEF CachesFaithful
  <2>3. ResolvedConfig(p) = [ConfigOf(q) EXCEPT !.rules = NormalRules(@, q.pkg)]
    BY <1>1, <2>1, <2>2 DEF ResolvedConfig
  <2>4. [ConfigOf(q) EXCEPT !.rules = NormalRules(@, q.pkg)] \in Config
    BY KnownIsTyped, NormalIsTyped
  <2>5. QED
    BY <2>3, <2>4
<1>2. CASE CacheId(p) \notin DOMAIN cachedConfigs
  <2>1. ConfigOf(p) \in Config
    BY <1>2, KnownIsTyped
  <2>2. [ConfigOf(p) EXCEPT !.rules = NormalRules(@, p.pkg)] \in Config
    BY <2>1, NormalIsTyped
  <2>3. QED
    BY <1>2, <2>2 DEF ResolvedConfig
<1>3. QED
  BY <1>1, <1>2

LEMMA NewFrame ==
    ASSUME NEW c \in Config
    PROVE  Frame(c) \in FrameType /\ RuleDict(Frame(c).rules)
<1>1. RuleDict(<<>>)
  BY DEF RuleDict, Keyed
<1>2. QED
  BY <1>1 DEF Frame, FrameType, Config

LEMMA TopIsTyped ==
    ASSUME FramesOK, frames # <<>>
    PROVE  Len(frames) \in 1..Len(frames) /\ Top \in FrameType /\ RuleDict(Top.rules)
<1>1. Len(frames) \in 1..Len(frames)
  BY DEF FramesOK
<1>2. QED
  BY <1>1, ElementOfSeq DEF FramesOK, Top

(* A frame may be changed, or one added.                                   *)
LEMMA FrameChanged ==
    ASSUME NEW fs \in Seq(FrameType), \A i \in 1..Len(fs) : RuleDict(fs[i].rules),
           NEW n \in 1..Len(fs), NEW f \in FrameType, RuleDict(f.rules), NEW gs, gs = [fs EXCEPT ![n] = f]
    PROVE  gs \in Seq(FrameType) /\ Len(gs) = Len(fs) /\ \A i \in 1..Len(gs) : RuleDict(gs[i].rules)
<1>1. gs \in Seq(FrameType) /\ Len(gs) = Len(fs) /\ \A i \in 1..Len(fs) : gs[i] = IF i = n THEN f ELSE fs[i]
  BY ExceptSeq
<1>2. QED
  BY <1>1

LEMMA FrameAdded ==
    ASSUME NEW fs \in Seq(FrameType), \A i \in 1..Len(fs) : RuleDict(fs[i].rules),
           NEW f \in FrameType, RuleDict(f.rules), NEW gs, gs = Append(fs, f)
    PROVE  gs \in Seq(FrameType) /\ gs # <<>> /\ \A i \in 1..Len(gs) : RuleDict(gs[i].rules)
<1>1. PICK n \in Nat : n = Len(fs)
  OBVIOUS
<1>2. gs \in Seq(FrameType) /\ Len(gs) = n + 1 /\ gs[n + 1] = f /\ \A i \in 1..n : gs[i] = fs[i]
  BY <1>1
<1>3. \A i \in 1..(n + 1) : RuleDict(gs[i].rules)
  <2>1. ASSUME NEW i \in 1..(n + 1) PROVE RuleDict(gs[i].rules)
    <3>1. i \in 1..n \/ i = n + 1
      OBVIOUS
    <3>2. QED
      BY <3>1, <1>1, <1>2
  <2>2. QED
    BY <2>1
<1>4. QED
  BY <1>2, <1>3

-----------------------------------------------------------------------------
(* Steps.                                                                  *)
LEMMA Abandoned ==
    ASSUME LInv, Abandon, cachedRules' = cachedRules
    PROVE  LInv'
<1>1. FramesOK'
  BY DEF Abandon, FramesOK
<1>2. QED
  BY <1>1 DEF LInv, Abandon, CachedOK, CallOK, walk

LEMMA Called ==
    ASSUME LInv, Lint
    PROVE  LInv'
<1>1. config' \in Config
  BY ConfigsAssumption DEF Lint
<1>2. Frame(config') \in FrameType /\ RuleDict(Frame(config').rules)
  BY <1>1, NewFrame
<1>3. FramesOK' /\ frames' # <<>>
  <2>1. frames' = <<Frame(config')>>
    BY DEF Lint
  <2>2. QED
    BY <2>1, <1>2 DEF FramesOK
<1>4. CallOK'
  BY <1>3 DEF Lint, LInv, CallOK
<1>5. QED
  BY <1>1, <1>3, <1>4 DEF Lint, LInv, CachedOK, caches, walk

LEMMA Extended ==
    ASSUME CachesFaithful, LInv, Extend
    PROVE  LInv'
<1>1. CASE Abandon
  BY <1>1, Abandoned DEF Extend
<1>2. CASE ~ (Len(frames) < RecursionLimit)
  BY <1>1, <1>2 DEF Extend
<1>3. CASE Len(frames) < RecursionLimit
  <2>1. FramesOK /\ frames # <<>> /\ phase = "configs"
    BY DEF Extend, LInv, CallOK
  <2>2. Top \in FrameType /\ RuleDict(Top.rules) /\ Len(frames) \in 1..Len(frames)
    BY <2>1, TopIsTyped
  <2>3. Top.parents \in Seq(Name) /\ Top.parents # <<>>
    BY <2>2 DEF Extend, FrameType
  <2>4. PICK p : p = ParseConfigName(Head(Top.parents))
    OBVIOUS
  <2>5. p.pkg \in Segments
    <3>1. Head(Top.parents) \in Name
      BY <2>3, HeadTailProperties
    <3>2. QED
      BY <3>1, <2>4, HostType, ParsedType DEF ParseConfigName, Parsed
  <2>6. PICK c \in Config : c = ResolvedConfig(p)
    <3>1. CacheId(p) \in DOMAIN cachedConfigs \/ p \in KnownConfigs
      BY <2>4 DEF Extend
    <3>2. QED
      BY <3>1, <2>5, ResolvedIsTyped
  <2>7. PICK f \in FrameType : f = Frame(c) /\ RuleDict(f.rules)
    BY NewFrame
  <2>8. PICK g \in FrameType : g = [Top EXCEPT !.parents = Tail(@)] /\ g.rules = Top.rules
    <3>1. Tail(Top.parents) \in Seq(Name)
      BY <2>3, HeadTailProperties
    <3>2. [Top EXCEPT !.parents = Tail(@)] \in FrameType /\ [Top EXCEPT !.parents = Tail(@)].rules = Top.rules
      BY <3>1, <2>2 DEF FrameType
    <3>3. QED
      BY <3>2
  <2>9. PICK fs : fs = Advance
    OBVIOUS
  <2>10. fs \in Seq(FrameType) /\ \A i \in 1..Len(fs) : RuleDict(fs[i].rules)
    <3>1. fs = [frames EXCEPT ![Len(frames)] = g]
      BY <2>8, <2>9 DEF Advance, Top
    <3>2. QED
      BY <3>1, <2>1, <2>2, <2>8, FrameChanged DEF FramesOK
  <2>11. frames' = Append(fs, f)
    BY <1>3, <2>4, <2>6, <2>7, <2>9 DEF Extend
  <2>12. FramesOK' /\ frames' # <<>>
    BY <2>7, <2>10, <2>11, FrameAdded DEF FramesOK
  <2>13. UNCHANGED <<phase, config, wanted, definitions, messages, answer, cachedRules>>
    BY <1>3 DEF Extend, walk
  <2>14. CallOK'
    BY <2>12, <2>13, <2>1 DEF LInv, CallOK
  <2>15. QED
    BY <2>12, <2>13, <2>14 DEF LInv, CachedOK
<1>4. QED
  BY <1>2, <1>3

(* What a call resolves to is a dict.                                      *)
LEMMA ResolutionKeyed ==
    ASSUME NEW f \in FrameType, RuleDict(f.rules)
    PROVE  RuleDict(Resolution(f))
<1>1. f.config.rules \in Seq(Pair)
  BY DEF FrameType, Config, Pair
<1>2. RuleDict(NormalRules(f.config.rules, Host))
  BY <1>1, HostType, NormalRulesKeep
<1>3. QED
  BY <1>2, UpdateKeeps DEF Resolution

LEMMA Inherited ==
    ASSUME LInv, Inherit
    PROVE  LInv'
<1>1. FramesOK /\ frames # <<>> /\ phase = "configs" /\ frames \in Seq(FrameType)
  BY DEF Inherit, LInv, CallOK, FramesOK
<1>2. Top \in FrameType /\ RuleDict(Top.rules) /\ Len(frames) \in 1..Len(frames)
  BY <1>1, TopIsTyped
<1>3. PICK r : r = Resolution(Top) /\ RuleDict(r)
  BY <1>2, ResolutionKeyed
<1>4. PICK n \in Nat : n = Len(frames)
  BY <1>1
<1>5. UNCHANGED <<config, messages, definitions, answer, cachedRules>>
  BY DEF Inherit, caches, walk
<1>6. CASE n > 1
  <2>1. PICK fs : fs = SubSeq(frames, 1, n - 1)
    OBVIOUS
  <2>2. fs \in Seq(FrameType) /\ Len(fs) = n - 1 /\ \A i \in 1..(n - 1) : fs[i] = frames[i]
    <3>1. \A i \in 1..(n - 1) : frames[i] \in FrameType
      BY <1>1, <1>4, ElementOfSeq
    <3>2. QED
      BY <3>1, <2>1, <1>1, <1>4, <1>6, SubSeqProperties
  <2>3. \A i \in 1..Len(fs) : RuleDict(fs[i].rules)
    BY <2>2, <1>1, <1>4 DEF FramesOK
  <2>4. n - 1 \in 1..Len(fs) /\ fs[n - 1] \in FrameType /\ RuleDict(fs[n - 1].rules)
    <3>1. n - 1 \in 1..Len(fs)
      BY <2>2, <1>4, <1>6
    <3>2. QED
      BY <3>1, <2>2, <2>3, ElementOfSeq
  <2>5. PICK d : d = Update(fs[n - 1].rules, r) /\ RuleDict(d)
    BY <2>4, <1>3, UpdateKeeps
  <2>6. PICK g \in FrameType : g = [fs[n - 1] EXCEPT !.rules = d] /\ g.rules = d
    <3>1. d \in Seq(Pair)
      BY <2>5 DEF RuleDict
    <3>2. [fs[n - 1] EXCEPT !.rules = d] \in FrameType /\ [fs[n - 1] EXCEPT !.rules = d].rules = d
      BY <3>1, <2>4 DEF FrameType
    <3>3. QED
      BY <3>2
  <2>7. frames' = [fs EXCEPT ![n - 1] = g] /\ UNCHANGED <<phase, wanted>>
    BY <2>1, <2>5, <2>6, <1>3, <1>4, <1>6 DEF Inherit
  <2>8. frames' \in Seq(FrameType) /\ Len(frames') = Len(fs) /\ \A i \in 1..Len(frames') : RuleDict(frames'[i].rules)
    BY <2>2, <2>3, <2>4, <2>5, <2>6, <2>7, FrameChanged
  <2>9. FramesOK' /\ frames' # <<>>
    BY <2>2, <2>8, <1>4, <1>6 DEF FramesOK
  <2>10. CallOK'
    BY <2>7, <2>9, <1>1, <1>5 DEF LInv, CallOK
  <2>11. QED
    BY <2>9, <2>10, <1>5 DEF LInv, CachedOK
<1>7. CASE n <= 1
  <2>1. frames' = <<>> /\ phase' = "rules" /\ wanted' = Enabled(r)
    BY <1>3, <1>4, <1>7 DEF Inherit
  <2>2. Asked(wanted')
    BY <2>1, <1>3, EnabledAsked
  <2>3. definitions = <<>> /\ answer = Returned(<<>>)
    BY <1>1 DEF LInv, CallOK
  <2>4. CallOK'
    BY <2>1, <2>2, <2>3, <1>5 DEF CallOK, Defined, Apart, Asked
  <2>5. FramesOK'
    BY <2>1 DEF FramesOK
  <2>6. QED
    BY <2>4, <2>5, <1>5 DEF LInv, CachedOK
<1>8. QED
  BY <1>4, <1>6, <1>7

(* A rule resolved: its definition goes from the wanted to the resolved.   *)
LEMMA Moved ==
    ASSUME NEW ws, Asked(ws), ws # <<>>, NEW ds, Defined(ds), Apart(ds, ws), NEW x \in ResolvedType, x.d = ws[1]
    PROVE  Asked(Tail(ws)) /\ Defined(Append(ds, x)) /\ Apart(Append(ds, x), Tail(ws))
<1>1. ws \in Seq(DefinitionType) /\ \A i, j \in 1..Len(ws) : ws[i].name = ws[j].name => i = j
  BY DEF Asked
<1>2. ds \in Seq(ResolvedType) /\ \A i, j \in 1..Len(ds) : ds[i].d.name = ds[j].d.name => i = j
  BY DEF Defined
<1>3. PICK t : t = Tail(ws)
  OBVIOUS
<1>4. t \in Seq(DefinitionType) /\ Len(t) = Len(ws) - 1 /\ Len(ws) \in Nat \ {0} /\ \A i \in 1..Len(t) : t[i] = ws[i + 1]
  BY <1>1, <1>3, HeadTailProperties
<1>5. PICK n \in Nat : n = Len(t) /\ Len(ws) = n + 1
  BY <1>4
<1>6. \A i \in 1..n : i + 1 \in 1..(n + 1) /\ 1 \in 1..(n + 1) /\ i + 1 # 1
  OBVIOUS
<1>7. Asked(t)
  <2>1. ASSUME NEW i \in 1..n, NEW j \in 1..n, t[i].name = t[j].name PROVE i = j
    <3>1. i + 1 = j + 1
      BY <2>1, <1>1, <1>4, <1>5, <1>6
    <3>2. QED
      BY <3>1
  <2>2. QED
    BY <2>1, <1>4, <1>5 DEF Asked
<1>8. \A i \in 1..n : t[i].name # ws[1].name
  BY <1>1, <1>4, <1>5, <1>6
<1>9. PICK es : es = Append(ds, x)
  OBVIOUS
<1>10. PICK m \in Nat : m = Len(ds)
  BY <1>2
<1>11. es \in Seq(ResolvedType) /\ Len(es) = m + 1 /\ es[m + 1] = x /\ \A i \in 1..m : es[i] = ds[i]
  BY <1>2, <1>9, <1>10
<1>12. \A i \in 1..m : ds[i].d.name # ws[1].name
  BY <1>5, <1>10 DEF Apart
<1>13. Defined(es)
  <2>1. ASSUME NEW i \in 1..(m + 1), NEW j \in 1..(m + 1), es[i].d.name = es[j].d.name PROVE i = j
    <3>1. CASE i \in 1..m /\ j \in 1..m
      BY <3>1, <2>1, <1>2, <1>10, <1>11
    <3>2. CASE i = m + 1 /\ j \in 1..m
      BY <3>2, <2>1, <1>11, <1>12
    <3>3. CASE i \in 1..m /\ j = m + 1
      BY <3>3, <2>1, <1>11, <1>12
    <3>4. CASE i = m + 1 /\ j = m + 1
      BY <3>4
    <3>5. QED
      BY <3>1, <3>2, <3>3, <3>4
  <2>2. QED
    BY <2>1, <1>11 DEF Defined
<1>14. ASSUME NEW i \in 1..(m + 1), NEW j \in 1..n PROVE es[i].d.name # t[j].name
  <2>1. CASE i = m + 1
    BY <2>1, <1>8, <1>11
  <2>2. CASE i \in 1..m
    <3>1. j + 1 \in 1..Len(ws)
      BY <1>5
    <3>2. ds[i].d.name # ws[j + 1].name
      BY <3>1, <2>2, <1>10 DEF Apart
    <3>3. QED
      BY <3>2, <2>2, <1>4, <1>5, <1>11
  <2>3. QED
    BY <2>1, <2>2
<1>15. Apart(es, t)
  BY <1>5, <1>11, <1>14 DEF Apart
<1>16. QED
  BY <1>3, <1>7, <1>9, <1>13, <1>15

LEMMA RuleResolved ==
    ASSUME LInv, ResolveRule
    PROVE  LInv'
<1>1. phase = "rules" /\ wanted # <<>> /\ Asked(wanted) /\ Defined(definitions) /\ Apart(definitions, wanted)
  BY DEF ResolveRule, LInv, CallOK
<1>2. PICK d \in DefinitionType : d = Head(wanted) /\ d = wanted[1]
  BY <1>1, HeadTailProperties DEF Asked
<1>3. PICK p \in Parsed : p = ParseRuleName(d.name, Host)
  BY HostType, ParsedType DEF DefinitionType
<1>4. PICK r \in RuleType : r = ResolvedRule(p, d.options)
  <2>1. CASE CacheId(p) \in DOMAIN cachedRules
    BY <2>1 DEF ResolvedRule, LInv, CachedOK
  <2>2. CASE CacheId(p) \notin DOMAIN cachedRules
    BY <2>2 DEF ResolvedRule, Parsed, DefinitionType, RuleType
  <2>3. QED
    BY <2>1, <2>2
<1>5. PICK x \in ResolvedType : x = [d |-> d, rule |-> r] /\ x.d = d
  <2>1. [d |-> d, rule |-> r] \in ResolvedType
    BY DEF ResolvedType
  <2>2. QED
    BY <2>1
<1>6. /\ cachedRules' = Remember(cachedRules, CacheId(p), r)
      /\ definitions' = Append(definitions, x) /\ wanted' = Tail(wanted)
      /\ UNCHANGED <<phase, config, frames, messages, answer>>
  BY <1>2, <1>3, <1>4, <1>5 DEF ResolveRule, walk
<1>7. CachedOK'
  BY <1>6 DEF Remember, LInv, CachedOK
<1>8. Asked(wanted') /\ Defined(definitions') /\ Apart(definitions', wanted')
  BY <1>1, <1>2, <1>5, <1>6, Moved
<1>9. CallOK'
  BY <1>1, <1>6, <1>8 DEF LInv, CallOK
<1>10. QED
  BY <1>6, <1>7, <1>9 DEF LInv, FramesOK

LEMMA FirstApplied ==
    ASSUME LInv, ApplyFirst
    PROVE  LInv'
<1>1. phase = "rules" /\ wanted = <<>> /\ Defined(definitions) /\ answer = Returned(<<>>)
  BY DEF ApplyFirst, LInv, CallOK
<1>2. UNCHANGED <<config, frames, cachedRules, wanted, definitions, answer>> /\ messages' \in Nat
  <2>1. messages' = messages \/ messages' = 0
    BY DEF ApplyFirst, StartWalk, walk
  <2>2. QED
    BY <2>1 DEF ApplyFirst, caches, LInv
<1>3. Reported(<<>>, definitions) /\ answer.kind = "reports" /\ answer.reports = <<>>
  BY <1>1 DEF Reported, Returned
<1>4. CallOK'
  BY <1>1, <1>2, <1>3 DEF ApplyFirst, CallOK
<1>5. QED
  BY <1>2, <1>4 DEF LInv, CachedOK, FramesOK

LEMMA Walked ==
    ASSUME LInv, Enter \/ Leave
    PROVE  LInv'
<1>1. UNCHANGED <<phase, config, frames, cachedRules, wanted, definitions, answer>> /\ messages' \in Nat
  <2>1. messages \in Nat
    BY DEF LInv
  <2>2. messages' = messages \/ \E k \in {0, 1} : messages' = messages + k
    BY DEF Enter, Leave
  <2>3. UNCHANGED <<phase, config, frames, cachedRules, wanted, definitions, answer>>
    BY DEF Enter, Leave, caches
  <2>4. QED
    BY <2>1, <2>2, <2>3
<1>2. QED
  BY <1>1 DEF LInv, CachedOK, FramesOK, CallOK

(* One rule applied: its reports, if any, are kept under its own name,     *)
(* which no other rule has.                                                *)
LEMMA ReportsKept ==
    ASSUME NEW ds, Defined(ds), ds # <<>>, NEW rs, Reported(rs, ds), NEW x \in ReportType
    PROVE  LET qs == Put(rs, ds[1].d.name, x) IN
           /\ Reported(qs, Tail(ds)) /\ Reported(rs, Tail(ds)) /\ Defined(Tail(ds))
           /\ \A i \in DOMAIN rs : i \in DOMAIN qs /\ qs[i] = rs[i]
<1>1. ds \in Seq(ResolvedType) /\ \A i, j \in 1..Len(ds) : ds[i].d.name = ds[j].d.name => i = j
  BY DEF Defined
<1>2. PICK t : t = Tail(ds)
  OBVIOUS
<1>3. t \in Seq(ResolvedType) /\ Len(t) = Len(ds) - 1 /\ Len(ds) \in Nat \ {0} /\ \A i \in 1..Len(t) : t[i] = ds[i + 1]
  BY <1>1, <1>2, HeadTailProperties
<1>4. PICK n \in Nat : n = Len(t) /\ Len(ds) = n + 1
  BY <1>3
<1>5. \A i \in 1..n : i + 1 \in 1..(n + 1) /\ 1 \in 1..(n + 1) /\ i + 1 # 1
  OBVIOUS
<1>6. Defined(t)
  <2>1. ASSUME NEW i \in 1..n, NEW j \in 1..n, t[i].d.name = t[j].d.name PROVE i = j
    <3>1. i + 1 = j + 1
      BY <2>1, <1>1, <1>3, <1>4, <1>5
    <3>2. QED
      BY <3>1
  <2>2. QED
    BY <2>1, <1>3, <1>4 DEF Defined
<1>7. PICK k \in Name : k = ds[1].d.name
  <2>1. ds[1] \in ResolvedType
    BY <1>1, <1>4, ElementOfSeq
  <2>2. QED
    BY <2>1 DEF ResolvedType, DefinitionType
<1>8. \A i \in 1..n : t[i].d.name # k
  BY <1>1, <1>3, <1>4, <1>5, <1>7
<1> DEFINE Kept == Name \X ReportType
<1>9. PICK y \in Kept : y = <<k, x>> /\ y[1] = k
  <2>1. <<k, x>> \in Kept /\ <<k, x>>[1] = k
    OBVIOUS
  <2>2. QED
    BY <2>1
<1>10. rs \in Seq(Kept) /\ \A i \in 1..Len(rs), j \in 1..(n + 1) : rs[i][1] # ds[j].d.name
  BY <1>4 DEF Reported
<1> HIDE DEF Kept
<1>11. PICK m \in Nat : m = Len(rs)
  BY <1>10
<1>12. \A i \in 1..m : rs[i][1] # k
  BY <1>4, <1>7, <1>10, <1>11
<1>13. PICK qs : qs = Append(rs, y)
  OBVIOUS
<1>14. qs \in Seq(Kept) /\ Len(qs) = m + 1 /\ qs[m + 1] = y /\ \A i \in 1..m : qs[i] = rs[i]
  BY <1>10, <1>11, <1>13
<1>15. Put(rs, k, x) = qs
  <2>1. DOMAIN rs = 1..m
    BY <1>10, <1>11
  <2>2. k \notin DictKeys(rs)
    BY <2>1, <1>12 DEF DictKeys
  <2>3. QED
    BY <2>2, <1>9, <1>13 DEF Put
<1>16. \A i \in 1..m, j \in 1..n : rs[i][1] # t[j].d.name
  BY <1>3, <1>4, <1>5, <1>10, <1>11
<1>17. Reported(rs, t)
  BY <1>4, <1>10, <1>11, <1>16 DEF Reported, Kept
<1>18. Reported(qs, t)
  <2>1. ASSUME NEW i \in 1..(m + 1), NEW j \in 1..n PROVE qs[i][1] # t[j].d.name
    <3>1. CASE i \in 1..m
      BY <3>1, <1>14, <1>16
    <3>2. CASE i = m + 1
      BY <3>2, <1>8, <1>9, <1>14
    <3>3. QED
      BY <3>1, <3>2
  <2>2. QED
    BY <2>1, <1>4, <1>14 DEF Reported, Kept
<1>19. \A i \in DOMAIN rs : i \in DOMAIN qs /\ qs[i] = rs[i]
  <2>1. DOMAIN rs = 1..m /\ DOMAIN qs = 1..(m + 1)
    BY <1>10, <1>11, <1>14
  <2>2. QED
    BY <2>1, <1>14
<1>20. QED
  BY <1>2, <1>6, <1>7, <1>15, <1>17, <1>18, <1>19

LEMMA Answering ==
    ASSUME LInv, phase = "apply", NEW reports \in ReportType, Answer(reports)
    PROVE  /\ LInv'
           /\ answer'.kind = "reports"
           /\ \A i \in DOMAIN answer.reports : i \in DOMAIN answer'.reports /\ answer'.reports[i] = answer.reports[i]
<1>1. /\ wanted = <<>> /\ definitions # <<>> /\ Defined(definitions)
      /\ answer.kind = "reports" /\ Reported(answer.reports, definitions)
  BY DEF LInv, CallOK
<1>2. PICK rs : rs = answer.reports
  OBVIOUS
<1>3. PICK qs : qs = Put(rs, definitions[1].d.name, reports)
  OBVIOUS
<1>4. /\ Reported(qs, Tail(definitions)) /\ Reported(rs, Tail(definitions)) /\ Defined(Tail(definitions))
      /\ \A i \in DOMAIN rs : i \in DOMAIN qs /\ qs[i] = rs[i]
  BY <1>1, <1>2, <1>3, ReportsKept
<1>5. Head(definitions) = definitions[1]
  BY <1>1, HeadTailProperties DEF Defined
<1>6. answer' = answer \/ answer' = Returned(qs)
  BY <1>2, <1>3, <1>5 DEF Answer
<1>7. answer'.kind = "reports" /\ (answer'.reports = rs \/ answer'.reports = qs)
  BY <1>1, <1>2, <1>6 DEF Returned
<1>8. definitions' = Tail(definitions) /\ UNCHANGED <<cachedRules, config, frames, wanted>> /\ messages' = 0
  BY DEF Answer, StartWalk, caches
<1>9. phase' = IF definitions' = <<>> THEN "idle" ELSE "apply"
  BY DEF Answer
<1>10. CallOK'
  BY <1>1, <1>4, <1>7, <1>8, <1>9 DEF CallOK
<1>11. LInv'
  BY <1>8, <1>10 DEF LInv, CachedOK, FramesOK
<1>12. QED
  BY <1>2, <1>4, <1>7, <1>11

LEMMA RuleApplied ==
    ASSUME LInv, Applied \/ HookFails
    PROVE  /\ LInv'
           /\ answer'.kind = "reports"
           /\ \A i \in DOMAIN answer.reports : i \in DOMAIN answer'.reports /\ answer'.reports[i] = answer.reports[i]
<1>1. phase = "apply"
  BY DEF Applied, HookFails
<1>2. CASE Applied
  <2>1. definitions \in Seq(ResolvedType) /\ definitions # <<>>
    BY <1>1 DEF LInv, CallOK, Defined
  <2>2. Head(definitions) \in ResolvedType
    BY <2>1, HeadTailProperties
  <2>3. [category |-> Head(definitions).d.category, count |-> messages] \in ReportType
    BY <2>2 DEF ResolvedType, DefinitionType, ReportType, LInv
  <2>4. QED
    BY <2>3, <1>1, <1>2, Answering DEF Applied
<1>3. CASE HookFails
  <2>1. [category |-> "rule-error", count |-> 1] \in ReportType
    BY TextsAssumption DEF ReportType
  <2>2. QED
    BY <2>1, <1>1, <1>3, Answering DEF HookFails
<1>4. QED
  BY <1>2, <1>3

LEMMA LinterInductive ==
    ASSUME CachesFaithful, LInv, [Next]_vars
    PROVE  LInv'
<1>1. CASE UnknownConfig \/ RuleFails
  BY <1>1, Abandoned DEF UnknownConfig, RuleFails, caches
<1>2. CASE UNCHANGED vars
  BY <1>2 DEF vars, caches, walk, LInv, CachedOK, FramesOK, CallOK
<1>3. QED
  BY <1>1, <1>2, Called, Extended, Inherited, RuleResolved, FirstApplied, Walked, RuleApplied DEF Next

(* Once its rules are resolved, a call of lint answers with reports, and   *)
(* whatever rule fails, the reports kept before stay what they were: for   *)
(* every diagram, every published configuration and every set of rules.    *)
THEOREM FailuresContained == Spec => Contained
<1> DEFINE Safe ==
        phase = "apply" =>
            /\ answer'.kind = "reports"
            /\ \A i \in DOMAIN answer.reports : i \in DOMAIN answer'.reports /\ answer'.reports[i] = answer.reports[i]
<1>1. Init => LInv
  <2>1. SUFFICES ASSUME Init PROVE LInv
    OBVIOUS
  <2>2. config \in Config
    BY <2>1, ConfigsAssumption DEF Init
  <2>3. QED
    BY <2>1, <2>2 DEF Init, LInv, CachedOK, FramesOK, CallOK
<1>2. ASSUME CachesFaithful, LInv, [Next]_vars PROVE [Safe]_vars
  <2>1. SUFFICES ASSUME phase = "apply", Next PROVE Safe
    BY <1>2
  <2>2. CASE Applied \/ HookFails
    BY <2>2, <1>2, RuleApplied
  <2>3. CASE Enter \/ Leave
    BY <2>1, <2>3, <1>2 DEF Enter, Leave, LInv, CallOK
  <2>4. QED
    BY <2>1, <2>2, <2>3 DEF Next, Lint, Extend, UnknownConfig, Inherit, ResolveRule, RuleFails, ApplyFirst
<1>3. CachesFaithful /\ LInv /\ [Next]_vars => LInv'
  BY LinterInductive
<1>4. Spec => [][Safe]_vars
  <2> HIDE DEF Safe
  <2> QED
    BY <1>1, <1>2, <1>3, CachesTrusted, PTL DEF Spec
<1>5. QED
  BY <1>4 DEF Contained

-----------------------------------------------------------------------------
(* What the recursion calls, and what is still to be called for a stack.   *)
Call == {"enter", "leave"} \X Nodes
Open == Nodes \X BOOLEAN

Piece(visit, entry) == IF entry[2] THEN <<<<"leave", entry[1]>>>> ELSE visit[entry[1]]

Follow(visit, calls, child) == calls \o visit[child]
Precede(visit, calls, entry) == Piece(visit, entry) \o calls
AreCalls(visit, calls) == calls \in Seq(Call)

V == INSTANCE Folding WITH Op <- Follow, Holds <- AreCalls
P == INSTANCE Folding WITH Op <- Precede, Holds <- AreCalls

Pending(visit, entries) == P!Fold(visit, <<>>, entries)

LEMMA CallsFold ==
    ASSUME NEW visit, NEW children
    PROVE  Calls(visit, children) = V!Fold(visit, <<>>, children)
BY Zenon DEF Calls, Follow, V!Fold, FoldLeft, MapThenFoldSet, Max, V!FoldLeft, V!MapThenFoldSet, V!Max

LEMMA ChildrenType ==
    ASSUME NEW n \in Nodes
    PROVE  /\ Children(n) \in Seq(Nodes)
           /\ \A i \in 1..Len(Children(n)) : Children(n)[i] \in Nodes /\ Children(n)[i] \in ToSet(Children(n))
           /\ ToSet(Children(n)) \subseteq Nodes
<1>1. Children(n) \in Seq(Nodes)
  BY DiagramAssumption
<1>2. QED
  BY <1>1 DEF ToSet

(* What is called at children depends on what is called at each of them.   *)
LEMMA CallsSame ==
    ASSUME NEW v, NEW w, NEW cs \in Seq(Nodes), \A i \in 1..Len(cs) : v[cs[i]] = w[cs[i]]
    PROVE  Calls(v, cs) = Calls(w, cs)
<1> DEFINE So(k) == V!Fold(v, <<>>, SubSeq(cs, 1, k)) = V!Fold(w, <<>>, SubSeq(cs, 1, k))
           T == {k \in Nat : k <= Len(cs) => So(k)}
<1>1. 0 \in T
  <2>1. SubSeq(cs, 1, 0) = <<>>
    OBVIOUS
  <2>2. QED
    BY <2>1, V!FoldEmpty
<1>2. ASSUME NEW k \in Nat, k \in T PROVE k + 1 \in T
  <2>1. SUFFICES ASSUME k + 1 <= Len(cs) PROVE So(k + 1)
    OBVIOUS
  <2>2. PICK m \in 1..Len(cs) : m = k + 1 /\ m - 1 = k
    BY <2>1
  <2>3. V!Fold(v, <<>>, SubSeq(cs, 1, m)) = V!Fold(v, <<>>, SubSeq(cs, 1, m - 1)) \o v[cs[m]]
    <3>1. V!Fold(v, <<>>, SubSeq(cs, 1, m)) = Follow(v, V!Fold(v, <<>>, SubSeq(cs, 1, m - 1)), cs[m])
      BY V!FoldPrefix
    <3>2. QED
      BY <3>1 DEF Follow
  <2>4. V!Fold(w, <<>>, SubSeq(cs, 1, m)) = V!Fold(w, <<>>, SubSeq(cs, 1, m - 1)) \o w[cs[m]]
    <3>1. V!Fold(w, <<>>, SubSeq(cs, 1, m)) = Follow(w, V!Fold(w, <<>>, SubSeq(cs, 1, m - 1)), cs[m])
      BY V!FoldPrefix
    <3>2. QED
      BY <3>1 DEF Follow
  <2>5. V!Fold(v, <<>>, SubSeq(cs, 1, k)) = V!Fold(w, <<>>, SubSeq(cs, 1, k))
    BY <1>2, <2>1
  <2>6. QED
    BY <2>2, <2>3, <2>4, <2>5
<1>3. \A k \in Nat : k \in T
  <2> HIDE DEF T
  <2> QED
    BY <1>1, <1>2, V!Induction
<1>4. PICK n \in Nat : n = Len(cs) /\ SubSeq(cs, 1, n) = cs
  OBVIOUS
<1>5. V!Fold(v, <<>>, cs) = V!Fold(w, <<>>, cs)
  <2>1. n \in T /\ n <= Len(cs)
    BY <1>3, <1>4
  <2>2. QED
    BY <2>1, <1>4
<1>6. QED
  BY <1>5, CallsFold

LEMMA VisitSame ==
    ASSUME NEW skips, NEW v, NEW w, NEW n \in Nodes, \A c \in ToSet(Children(n)) : v[c] = w[c]
    PROVE  Visit(v, skips, n) = Visit(w, skips, n)
<1>1. Calls(v, Children(n)) = Calls(w, Children(n))
  BY ChildrenType, CallsSame
<1>2. QED
  BY <1>1 DEF Visit

-----------------------------------------------------------------------------
(* The recursion has a solution: a visit asks for the children only, and   *)
(* every set of nodes has one with no child among them.                    *)
VisitAt(skips, v, n) == Visit(v, skips, n)
IsChild(skips, edge) == edge[2] \in ToSet(Children(edge[1]))

R == INSTANCE Folding WITH Op <- VisitAt, Holds <- IsChild

LEMMA SolutionExists ==
    ASSUME NEW skips
    PROVE  \E f : f = [n \in Nodes |-> Visit(f, skips, n)]
<1>1. \A n \in Nodes : R!Below(skips, Nodes, n) = ToSet(Children(n))
  <2>1. \A n, m : IsChild(skips, <<n, m>>) <=> m \in ToSet(Children(n))
    BY DEF IsChild
  <2>2. QED
    BY <2>1, ChildrenType DEF R!Below
<1>2. R!Local(skips, Nodes)
  <2>1. ASSUME NEW n \in Nodes, NEW v, NEW w, \A m \in R!Below(skips, Nodes, n) : v[m] = w[m]
        PROVE  VisitAt(skips, v, n) = VisitAt(skips, w, n)
    BY <2>1, <1>1, VisitSame DEF VisitAt
  <2>2. QED
    BY <2>1 DEF R!Local
<1>3. R!Grounded(skips, Nodes)
  <2>1. ASSUME NEW S \in SUBSET Nodes, S # {} PROVE \E n \in S : R!Below(skips, Nodes, n) \cap S = {}
    BY <2>1, <1>1, DiagramAssumption
  <2>2. QED
    BY <2>1 DEF R!Grounded
<1>4. PICK f : R!Recurs(skips, Nodes, f)
  BY <1>2, <1>3, R!RecursionExists
<1>5. f = [n \in Nodes |-> VisitAt(skips, f, n)]
  BY <1>4 DEF R!Recurs
<1>6. QED
  BY <1>5 DEF VisitAt

LEMMA VisitsSolve ==
    ASSUME NEW skips, NEW n \in Nodes
    PROVE  Visits(skips)[n] = Visit(Visits(skips), skips, n)
<1>1. PICK f : f = Visits(skips)
  OBVIOUS
<1>2. f = [m \in Nodes |-> Visit(f, skips, m)]
  BY <1>1, SolutionExists DEF Visits
<1>3. QED
  BY <1>1, <1>2

Visitor == [Nodes -> Seq(Call)]

LEMMA CallsTyped ==
    ASSUME NEW v, NEW cs \in Seq(Nodes), \A i \in 1..Len(cs) : v[cs[i]] \in Seq(Call)
    PROVE  Calls(v, cs) \in Seq(Call)
<1>1. PICK S : S = {c \in Nodes : v[c] \in Seq(Call)}
  OBVIOUS
<1>2. cs \in Seq(S)
  <2>1. \A i \in 1..Len(cs) : cs[i] \in S
    BY <1>1
  <2>2. QED
    BY <2>1
<1>3. \A a : \A e \in S : AreCalls(v, a) => AreCalls(v, Follow(v, a, e))
  BY <1>1, ConcatProperties DEF AreCalls, Follow
<1>4. AreCalls(v, <<>>)
  BY DEF AreCalls
<1>5. AreCalls(v, V!Fold(v, <<>>, cs))
  BY <1>2, <1>3, <1>4, V!FoldKeeps
<1>6. QED
  BY <1>5, CallsFold DEF AreCalls

LEMMA CallType ==
    ASSUME NEW n \in Nodes
    PROVE  <<<<"enter", n>>>> \in Seq(Call) /\ <<<<"leave", n>>>> \in Seq(Call)
<1>1. <<"enter", n>> \in Call /\ <<"leave", n>> \in Call
  BY DEF Call
<1>2. QED
  BY <1>1

LEMMA VisitTyped ==
    ASSUME NEW v, NEW skips, NEW n \in Nodes, \A c \in ToSet(Children(n)) : v[c] \in Seq(Call)
    PROVE  Visit(v, skips, n) \in Seq(Call)
<1>1. Calls(v, Children(n)) \in Seq(Call)
  BY ChildrenType, CallsTyped
<1>2. PICK x : x = IF n \in skips \cup Generic THEN <<>> ELSE Calls(v, Children(n))
  OBVIOUS
<1>3. x \in Seq(Call)
  <2>1. <<>> \in Seq(Call)
    OBVIOUS
  <2>2. QED
    BY <2>1, <1>1, <1>2
<1>4. PICK e \in Seq(Call) : e = <<<<"enter", n>>>>
  BY CallType
<1>5. PICK l \in Seq(Call) : l = <<<<"leave", n>>>>
  BY CallType
<1>6. (e \o x) \o l \in Seq(Call)
  BY <1>3, ConcatProperties
<1>7. QED
  BY <1>2, <1>4, <1>5, <1>6 DEF Visit

LEMMA VisitsTyped ==
    ASSUME NEW skips
    PROVE  Visits(skips) \in Visitor
<1>1. PICK v : v = Visits(skips)
  OBVIOUS
<1>2. v = [m \in Nodes |-> Visit(v, skips, m)]
  BY <1>1, SolutionExists DEF Visits
<1> DEFINE Bad == {n \in Nodes : v[n] \notin Seq(Call)}
<1>3. SUFFICES ASSUME Bad # {} PROVE FALSE
  <2>1. \A n \in Nodes : v[n] \in Seq(Call)
    BY <1>3
  <2>2. v = [n \in Nodes |-> v[n]]
    BY <1>2
  <2>3. QED
    BY <2>1, <2>2, <1>1 DEF Visitor
<1>4. PICK n \in Bad : ToSet(Children(n)) \cap Bad = {}
  BY <1>3, DiagramAssumption
<1>5. \A c \in ToSet(Children(n)) : v[c] \in Seq(Call)
  BY <1>4, ChildrenType
<1>6. Visit(v, skips, n) \in Seq(Call)
  BY <1>4, <1>5, VisitTyped
<1>7. v[n] = Visit(v, skips, n) /\ v[n] \notin Seq(Call)
  BY <1>1, <1>4, VisitsSolve
<1>8. QED
  BY <1>6, <1>7

-----------------------------------------------------------------------------
(* A stack stands for what is still to be called, its top first.           *)
LEMMA PieceTyped ==
    ASSUME NEW v \in Visitor, NEW e \in Open
    PROVE  Piece(v, e) \in Seq(Call)
<1>1. PICK n \in Nodes : n = e[1]
  BY DEF Open
<1>2. v[n] \in Seq(Call)
  BY DEF Visitor
<1>3. QED
  BY <1>1, <1>2, CallType DEF Piece

LEMMA PendingTyped ==
    ASSUME NEW v \in Visitor, NEW s \in Seq(Open)
    PROVE  Pending(v, s) \in Seq(Call)
<1>1. \A a : \A e \in Open : AreCalls(v, a) => AreCalls(v, Precede(v, a, e))
  BY PieceTyped, ConcatProperties DEF AreCalls, Precede
<1>2. AreCalls(v, <<>>)
  BY DEF AreCalls
<1>3. AreCalls(v, P!Fold(v, <<>>, s))
  BY <1>1, <1>2, P!FoldKeeps
<1>4. QED
  BY <1>3 DEF AreCalls, Pending

LEMMA PendingAppend ==
    ASSUME NEW v, NEW s \in Seq(Open), NEW e \in Open
    PROVE  Pending(v, Append(s, e)) = Piece(v, e) \o Pending(v, s)
<1>1. P!Fold(v, <<>>, Append(s, e)) = Precede(v, P!Fold(v, <<>>, s), e)
  BY P!FoldAppend
<1>2. QED
  BY <1>1 DEF Precede, Pending

LEMMA CallsAppend ==
    ASSUME NEW v, NEW p \in Seq(Nodes), NEW c \in Nodes
    PROVE  Calls(v, Append(p, c)) = Calls(v, p) \o v[c]
<1>1. V!Fold(v, <<>>, Append(p, c)) = Follow(v, V!Fold(v, <<>>, p), c)
  BY V!FoldAppend
<1>2. QED
  BY <1>1, CallsFold DEF Follow

LEMMA CallsNone ==
    ASSUME NEW v
    PROVE  Calls(v, <<>>) = <<>>
BY V!FoldEmpty, CallsFold

LEMMA PendingNone ==
    ASSUME NEW v
    PROVE  Pending(v, <<>>) = <<>>
BY P!FoldEmpty DEF Pending

LEMMA PushedIs ==
    ASSUME NEW cs \in Seq(Nodes)
    PROVE  /\ Pushed(cs) \in Seq(Open) /\ Len(Pushed(cs)) = Len(cs)
           /\ \A i \in 1..Len(cs) : Pushed(cs)[i] = <<cs[Len(cs) - i + 1], FALSE>>
<1>1. PICK n \in Nat : n = Len(cs)
  OBVIOUS
<1>2. PICK r : r = Reverse(cs)
  OBVIOUS
<1>3. r = [i \in 1..n |-> cs[(n - i) + 1]]
  BY <1>1, <1>2 DEF Reverse
<1>4. \A i \in 1..n : (n - i) + 1 \in 1..n
  OBVIOUS
<1>5. r \in Seq(Nodes) /\ Len(r) = n /\ DOMAIN r = 1..n /\ \A i \in 1..n : r[i] = cs[n - i + 1]
  BY <1>1, <1>3, <1>4
<1>6. PICK z : z = Pushed(cs)
  OBVIOUS
<1>7. z = [i \in 1..n |-> <<r[i], FALSE>>]
  BY <1>2, <1>5, <1>6 DEF Pushed, PushedForward
<1>8. ASSUME NEW i \in 1..n PROVE <<r[i], FALSE>> \in Open
  <2>1. r[i] \in Nodes
    BY <1>5
  <2>2. QED
    BY <2>1 DEF Open
<1>9. z \in Seq(Open) /\ Len(z) = n /\ \A i \in 1..n : z[i] = <<r[i], FALSE>>
  <2>1. PICK f : f = [i \in 1..n |-> <<r[i], FALSE>>]
    OBVIOUS
  <2>2. \A i \in 1..n : f[i] = <<r[i], FALSE>>
    BY <2>1
  <2>3. \A i \in 1..n : f[i] \in Open
    BY <2>2, <1>8
  <2>4. f = [i \in 1..n |-> f[i]]
    BY <2>1
  <2>5. f \in Seq(Open) /\ Len(f) = n
    BY <2>3, <2>4
  <2>6. QED
    BY <1>7, <2>1, <2>2, <2>5
<1>10. QED
  BY <1>1, <1>5, <1>6, <1>9

Joined(a, s, t) ==
    /\ Len(a) = Len(s) + Len(t)
    /\ \A i \in 1..Len(s) : a[i] = s[i]
    /\ \A i \in 1..Len(t) : a[Len(s) + i] = t[i]

LEMMA Joins ==
    ASSUME NEW S, NEW s \in Seq(S), NEW t \in Seq(S)
    PROVE  s \o t \in Seq(S) /\ Joined(s \o t, s, t)
<1>1. PICK m \in Nat : m = Len(s)
  OBVIOUS
<1>2. PICK n \in Nat : n = Len(t)
  OBVIOUS
<1>3. s \o t \in Seq(S) /\ Len(s \o t) = m + n
  BY <1>1, <1>2
<1>4. ASSUME NEW i \in 1..m PROVE (s \o t)[i] = s[i]
  BY <1>1, <1>2
<1>5. ASSUME NEW i \in 1..n PROVE (s \o t)[m + i] = t[i]
  BY <1>1, <1>2
<1>6. QED
  BY <1>1, <1>2, <1>3, <1>4, <1>5 DEF Joined

LEMMA PushedAppend ==
    ASSUME NEW cs \in Seq(Nodes), NEW c \in Nodes, NEW s \in Seq(Open)
    PROVE  s \o Pushed(Append(cs, c)) = Append(s, <<c, FALSE>>) \o Pushed(cs)
<1>1. PICK n \in Nat : n = Len(cs)
  OBVIOUS
<1>2. PICK ds : ds = Append(cs, c)
  OBVIOUS
<1>3. ds \in Seq(Nodes) /\ Len(ds) = n + 1 /\ ds[n + 1] = c /\ \A i \in 1..n : ds[i] = cs[i]
  BY <1>1, <1>2
<1>4. PICK e \in Open : e = <<c, FALSE>>
  BY DEF Open
<1>5. PICK x : x = Pushed(ds)
  OBVIOUS
<1>6. x \in Seq(Open) /\ Len(x) = n + 1 /\ \A i \in 1..n + 1 : x[i] = <<ds[(n + 1) - i + 1], FALSE>>
  BY <1>3, <1>5, PushedIs
<1>7. PICK y : y = Pushed(cs)
  OBVIOUS
<1>8. y \in Seq(Open) /\ Len(y) = n /\ \A i \in 1..n : y[i] = <<cs[n - i + 1], FALSE>>
  BY <1>1, <1>7, PushedIs
<1>9. PICK m \in Nat : m = Len(s)
  OBVIOUS
<1>10. PICK t : t = Append(s, e)
  OBVIOUS
<1>11. t \in Seq(Open) /\ Len(t) = m + 1 /\ t[m + 1] = e /\ \A i \in 1..m : t[i] = s[i]
  BY <1>9, <1>10
<1>12. PICK a : a = s \o x
  OBVIOUS
<1>13. a \in Seq(Open) /\ Joined(a, s, x)
  BY <1>6, <1>12, Joins
<1>14. PICK b : b = t \o y
  OBVIOUS
<1>15. b \in Seq(Open) /\ Joined(b, t, y)
  BY <1>8, <1>11, <1>14, Joins
<1>16. x[1] = e /\ \A i \in 1..n : x[i + 1] = y[i]
  <2>1. x[1] = <<ds[n + 1], FALSE>>
    <3>1. 1 \in 1..n + 1 /\ (n + 1) - 1 + 1 = n + 1
      OBVIOUS
    <3>2. QED
      BY <3>1, <1>6
  <2>2. ASSUME NEW i \in 1..n PROVE x[i + 1] = y[i]
    <3>1. i + 1 \in 1..n + 1 /\ (n + 1) - (i + 1) + 1 = n - i + 1 /\ n - i + 1 \in 1..n
      OBVIOUS
    <3>2. x[i + 1] = <<ds[n - i + 1], FALSE>>
      BY <3>1, <1>6
    <3>3. QED
      BY <3>1, <3>2, <1>3, <1>8
  <2>3. QED
    BY <2>1, <2>2, <1>3, <1>4
<1>17. ASSUME NEW i \in 1..m + (n + 1) PROVE a[i] = b[i]
  <2>1. CASE i \in 1..m
    <3>1. i \in 1..m + 1
      BY <2>1
    <3>2. a[i] = s[i] /\ b[i] = t[i]
      BY <2>1, <3>1, <1>9, <1>11, <1>13, <1>15 DEF Joined
    <3>3. QED
      BY <3>2, <2>1, <1>11
  <2>2. CASE i = m + 1
    <3>1. 1 \in 1..n + 1 /\ m + 1 \in 1..m + 1
      OBVIOUS
    <3>2. a[m + 1] = x[1] /\ b[m + 1] = t[m + 1]
      BY <3>1, <1>6, <1>9, <1>11, <1>13, <1>15 DEF Joined
    <3>3. QED
      BY <3>2, <2>2, <1>11, <1>16
  <2>3. CASE i > m + 1
    <3>1. PICK k \in 1..n : i = m + 1 + k
      <4>1. i - (m + 1) \in 1..n /\ i = m + 1 + (i - (m + 1))
        BY <2>3
      <4>2. QED
        BY <4>1
    <3>2. k + 1 \in 1..n + 1 /\ i = m + (k + 1)
      BY <3>1
    <3>3. a[i] = x[k + 1]
      BY <3>2, <1>6, <1>9, <1>13 DEF Joined
    <3>4. b[i] = y[k]
      BY <3>1, <1>8, <1>11, <1>15 DEF Joined
    <3>5. QED
      BY <3>3, <3>4, <1>16
  <2>4. QED
    BY <2>1, <2>2, <2>3
<1>18. Len(a) = m + (n + 1) /\ Len(b) = m + (n + 1)
  BY <1>6, <1>8, <1>9, <1>11, <1>13, <1>15 DEF Joined
<1>19. a = b
  BY <1>13, <1>15, <1>17, <1>18, SeqEqual
<1>20. QED
  BY <1>2, <1>4, <1>5, <1>7, <1>10, <1>12, <1>14, <1>19

LEMMA SeqIs ==
    ASSUME NEW S, NEW s \in Seq(S), NEW k \in Nat, k + 1 <= Len(s)
    PROVE  SubSeq(s, 1, k + 1) = Append(SubSeq(s, 1, k), s[k + 1]) /\ SubSeq(s, 1, k) \in Seq(S) /\ s[k + 1] \in S
OBVIOUS

Associates(a, b, c) == (a \o b) \o c = a \o (b \o c)

LEMMA Associate ==
    ASSUME NEW a \in Seq(Call), NEW b \in Seq(Call), NEW c \in Seq(Call)
    PROVE  Associates(a, b, c)
BY ConcatAssociative DEF Associates

LEMMA PendingPushed ==
    ASSUME NEW v \in Visitor, NEW cs \in Seq(Nodes), NEW s \in Seq(Open)
    PROVE  Pending(v, s \o Pushed(cs)) = Calls(v, cs) \o Pending(v, s)
<1> DEFINE So(p) == \A t \in Seq(Open) : Pending(v, t \o Pushed(p)) = Calls(v, p) \o Pending(v, t)
           T == {k \in Nat : k <= Len(cs) => So(SubSeq(cs, 1, k))}
<1>1. 0 \in T
  <2>1. SubSeq(cs, 1, 0) = <<>> /\ <<>> \in Seq(Nodes) /\ Len(<<>>) = 0
    OBVIOUS
  <2>2. Pushed(<<>>) = <<>>
    <3>1. Pushed(<<>>) \in Seq(Open) /\ Len(Pushed(<<>>)) = 0
      BY <2>1, PushedIs
    <3>2. QED
      BY <3>1
  <2>3. ASSUME NEW t \in Seq(Open) PROVE Pending(v, t \o Pushed(<<>>)) = Calls(v, <<>>) \o Pending(v, t)
    <3>1. t \o <<>> = t
      OBVIOUS
    <3>2. <<>> \o Pending(v, t) = Pending(v, t)
      BY PendingTyped
    <3>3. QED
      BY <3>1, <3>2, <2>2, CallsNone
  <2>4. QED
    BY <2>1, <2>3
<1>2. ASSUME NEW k \in Nat, k \in T PROVE k + 1 \in T
  <2>1. SUFFICES ASSUME k + 1 <= Len(cs) PROVE So(SubSeq(cs, 1, k + 1))
    OBVIOUS
  <2>2. PICK p : p = SubSeq(cs, 1, k)
    OBVIOUS
  <2> p \in Seq(Nodes)
    BY <2>1, <2>2, SeqIs
  <2>3. PICK c \in Nodes : c = cs[k + 1]
    BY <2>1, SeqIs
  <2>4. SubSeq(cs, 1, k + 1) = Append(p, c)
    BY <2>1, <2>2, <2>3, SeqIs
  <2>5. So(p)
    BY <1>2, <2>1, <2>2
  <2>6. ASSUME NEW t \in Seq(Open)
        PROVE  Pending(v, t \o Pushed(Append(p, c))) = Calls(v, Append(p, c)) \o Pending(v, t)
    <3>1. PICK e \in Open : e = <<c, FALSE>>
      BY DEF Open
    <3>2. PICK u : u = Append(t, e)
      OBVIOUS
    <3> u \in Seq(Open)
      BY <3>2
    <3>3. t \o Pushed(Append(p, c)) = u \o Pushed(p)
      BY <3>1, <3>2, PushedAppend
    <3>4. Pending(v, u \o Pushed(p)) = Calls(v, p) \o Pending(v, u)
      BY <2>5
    <3>5. Pending(v, u) = v[c] \o Pending(v, t)
      <4>1. Piece(v, e) = v[c]
        BY <3>1 DEF Piece
      <4>2. QED
        BY <4>1, <3>2, PendingAppend
    <3>6. PICK x \in Seq(Call) : x = Calls(v, p)
      <4>1. \A i \in 1..Len(p) : v[p[i]] \in Seq(Call)
        BY DEF Visitor
      <4>2. QED
        BY <4>1, CallsTyped
    <3>7. PICK y \in Seq(Call) : y = v[c]
      BY DEF Visitor
    <3>8. PICK z \in Seq(Call) : z = Pending(v, t)
      BY PendingTyped
    <3>9. (x \o y) \o z = x \o (y \o z)
      BY Associate DEF Associates
    <3>10. Calls(v, Append(p, c)) = x \o y
      BY <3>6, <3>7, CallsAppend
    <3>11. QED
      BY <3>3, <3>4, <3>5, <3>6, <3>7, <3>8, <3>9, <3>10
  <2>7. QED
    BY <2>4, <2>6
<1>3. \A k \in Nat : k \in T
  <2> HIDE DEF T
  <2> QED
    BY <1>1, <1>2, V!Induction
<1>4. PICK n \in Nat : n = Len(cs) /\ SubSeq(cs, 1, n) = cs
  OBVIOUS
<1>5. So(SubSeq(cs, 1, n))
  <2>1. n \in T
    BY <1>3
  <2>2. n <= Len(cs)
    BY <1>4
  <2> HIDE DEF So
  <2>3. QED
    BY <2>1, <2>2
<1>6. QED
  BY <1>4, <1>5

LEMMA LastOf ==
    ASSUME NEW S, NEW s \in Seq(S), s # <<>>
    PROVE  /\ Len(s) \in Nat \ {0} /\ SubSeq(s, 1, Len(s) - 1) \in Seq(S)
           /\ Len(SubSeq(s, 1, Len(s) - 1)) = Len(s) - 1 /\ Last(s) \in S
           /\ s = Append(SubSeq(s, 1, Len(s) - 1), Last(s))
<1>1. PICK k \in Nat : Len(s) = k + 1
  OBVIOUS
<1>2. SubSeq(s, 1, k + 1) = s /\ k + 1 <= Len(s) /\ Last(s) = s[k + 1] /\ Len(SubSeq(s, 1, k)) = k
  BY <1>1 DEF Last
<1>3. s = Append(SubSeq(s, 1, k), s[k + 1]) /\ SubSeq(s, 1, k) \in Seq(S) /\ s[k + 1] \in S
  BY <1>2, SeqIs
<1>4. QED
  BY <1>1, <1>2, <1>3

(* What has been called and what is still to be called make the recursion  *)
(* of any set of refusals that agrees, on the nodes entered so far, with   *)
(* the answers given; what waits to be entered has not been.               *)
Entered == {n \in Nodes : \E i \in DOMAIN log : log[i] = <<"enter", n>>}
Reached(n) == n = Root \/ \E m \in Entered : n \in ToSet(Children(m))
Waits(i) == i \in DOMAIN stack /\ ~stack[i][2]

Walking ==
    /\ stack \in Seq(Open) /\ log \in Seq(Call)
    /\ skipped \subseteq Entered /\ \A n \in Entered : Reached(n)
    /\ \A i : Waits(i) => stack[i][1] \notin Entered /\ Reached(stack[i][1])
    /\ \A i, j : Waits(i) /\ Waits(j) /\ stack[i][1] = stack[j][1] => i = j
    /\ \A skips \in SUBSET Nodes :
          skips \cap Entered = skipped =>
              log \o Pending(Visits(skips), stack) = Visits(skips)[Root]

WalkInv == phase = "apply" => Walking

Regroups(g, o, x, l, z) == (g \o o) \o (x \o (l \o z)) = g \o (((o \o x) \o l) \o z)

LEMMA Regrouped ==
    ASSUME NEW g \in Seq(Call), NEW o \in Seq(Call), NEW x \in Seq(Call), NEW l \in Seq(Call), NEW z \in Seq(Call)
    PROVE  Regroups(g, o, x, l, z)
<1>1. PICK t : t = l \o z
  OBVIOUS
<1>2. PICK y : y = o \o x
  OBVIOUS
<1>3. PICK u : u = x \o t
  OBVIOUS
<1>4. t \in Seq(Call) /\ y \in Seq(Call)
  BY <1>1, <1>2, ConcatProperties
<1>5. u \in Seq(Call)
  BY <1>3, <1>4, ConcatProperties
<1>6. Associates(g, o, u) /\ Associates(o, x, t) /\ Associates(y, l, z)
  BY <1>4, <1>5, Associate
<1>7. (g \o o) \o u = g \o (o \o u) /\ y \o t = o \o u /\ (y \o l) \o z = y \o t
  BY Zenon, <1>1, <1>2, <1>3, <1>6 DEF Associates
<1>8. QED
  BY Zenon, <1>1, <1>2, <1>3, <1>7 DEF Regroups

LEMMA WalkStarts ==
    ASSUME StartWalk
    PROVE  Walking'
<1>1. stack' = <<<<Root, FALSE>>>> /\ log' = <<>> /\ skipped' = {}
  BY DEF StartWalk
<1>2. Entered' = {}
  BY <1>1 DEF Entered
<1>3. PICK e \in Open : e = <<Root, FALSE>>
  BY DiagramAssumption DEF Open
<1>4. stack' = <<e>> /\ <<e>> \in Seq(Open) /\ <<e>> = Append(<<>>, e) /\ <<>> \in Seq(Open) /\ <<>> \in Seq(Call)
  BY <1>1, <1>3
<1>5. \A i : Waits(i)' => i = 1 /\ stack'[i][1] = Root
  BY <1>1 DEF Waits
<1>6. ASSUME NEW skips \in SUBSET Nodes
      PROVE  log' \o Pending(Visits(skips), stack') = Visits(skips)[Root]
  <2>1. PICK v \in Visitor : v = Visits(skips)
    BY VisitsTyped
  <2>2. PICK x \in Seq(Call) : x = v[Root]
    BY DiagramAssumption DEF Visitor
  <2>3. Pending(v, <<e>>) = x \o <<>>
    <3>1. Piece(v, e) = x
      BY <2>2, <1>3 DEF Piece
    <3>2. Pending(v, Append(<<>>, e)) = Piece(v, e) \o Pending(v, <<>>)
      BY <1>4, PendingAppend
    <3>3. QED
      BY <3>1, <3>2, <1>4, PendingNone
  <2>4. <<>> \o (x \o <<>>) = x
    OBVIOUS
  <2>5. QED
    BY <2>1, <2>2, <2>3, <2>4, <1>1, <1>4
<1>7. \A i : Waits(i)' => (stack[i][1] \notin Entered /\ Reached(stack[i][1]))'
  BY <1>2, <1>5 DEF Reached
<1>8. \A i, j : Waits(i)' /\ Waits(j)' /\ stack'[i][1] = stack'[j][1] => i = j
  BY <1>5
<1>9. stack' \in Seq(Open) /\ log' \in Seq(Call) /\ skipped' \subseteq Entered' /\ \A n \in Entered' : Reached(n)'
  BY <1>1, <1>2, <1>4
<1>10. QED
  BY <1>6, <1>7, <1>8, <1>9 DEF Walking

(* A node left is one that has been entered, so that nothing else changes. *)
LEMMA LeaveKeeps ==
    ASSUME Walking, Leave
    PROVE  Walking'
<1>1. /\ stack # <<>> /\ Last(stack)[2] /\ stack' = Rest /\ skipped' = skipped
      /\ log' = Append(log, <<"leave", Last(stack)[1]>>)
  BY DEF Leave
<1>2. PICK r : r = Rest
  OBVIOUS
<1>3. PICK e : e = Last(stack)
  OBVIOUS
<1>4. /\ r \in Seq(Open) /\ e \in Open /\ stack = Append(r, e) /\ stack' = r
      /\ Len(stack) \in Nat /\ Len(r) = Len(stack) - 1
  BY <1>1, <1>2, <1>3, LastOf DEF Rest, Walking
<1>5. PICK n \in Nodes : n = e[1]
  BY <1>4 DEF Open
<1>6. PICK c : c = <<"leave", n>>
  OBVIOUS
<1>7. c \in Call /\ log' = Append(log, c) /\ log \in Seq(Call)
  BY <1>1, <1>3, <1>5, <1>6 DEF Call, Walking
<1>8. log' \in Seq(Call) /\ \A k \in Nodes : (\E i \in DOMAIN log' : log'[i] = <<"enter", k>>) <=> \E i \in DOMAIN log : log[i] = <<"enter", k>>
  <2>1. PICK m \in Nat : m = Len(log)
    BY <1>7
  <2>2. /\ log' \in Seq(Call) /\ DOMAIN log = 1..m /\ DOMAIN log' = 1..m + 1
        /\ log'[m + 1] = c /\ \A i \in 1..m : log'[i] = log[i]
    BY <2>1, <1>7
  <2>3. \A k \in Nodes : c # <<"enter", k>>
    BY <1>6
  <2>4. ASSUME NEW k \in Nodes, NEW i \in 1..m + 1, log'[i] = <<"enter", k>>
        PROVE  i \in 1..m /\ log[i] = <<"enter", k>>
    <3>1. i # m + 1
      BY <2>2, <2>3, <2>4
    <3>2. QED
      BY <3>1, <2>2, <2>4
  <2>5. \A i \in 1..m : i \in 1..m + 1
    BY <2>1
  <2>6. QED
    BY <2>2, <2>4, <2>5
<1>9. Entered' = Entered
  BY <1>8 DEF Entered
<1>10. \A n1 : Reached(n1)' <=> Reached(n1)
  BY <1>9 DEF Reached
<1>11. \A i : Waits(i)' => Waits(i) /\ stack'[i] = stack[i]
  BY <1>4 DEF Waits
<1>12. ASSUME NEW skips \in SUBSET Nodes, skips \cap Entered = skipped
       PROVE  log' \o Pending(Visits(skips), stack') = Visits(skips)[Root]
  <2>1. PICK v \in Visitor : v = Visits(skips)
    BY VisitsTyped
  <2>2. Pending(v, stack) = <<c>> \o Pending(v, r)
    <3>1. Piece(v, e) = <<c>>
      BY <1>1, <1>3, <1>5, <1>6 DEF Piece
    <3>2. QED
      BY <3>1, <1>4, PendingAppend
  <2>3. PICK z \in Seq(Call) : z = Pending(v, r)
    BY <1>4, PendingTyped
  <2>4. PICK o \in Seq(Call) : o = <<c>>
    BY <1>5, <1>6, CallType
  <2>5. PICK l \in Seq(Call) : l = log
    BY <1>7
  <2>6. (l \o o) \o z = l \o (o \o z)
    BY ConcatAssociative
  <2>7. log' = l \o o
    BY <2>4, <2>5, <1>7, AppendIsConcat
  <2>8. log \o Pending(v, stack) = v[Root]
    BY <1>12, <2>1 DEF Walking
  <2>9. QED
    BY <2>1, <2>2, <2>3, <2>4, <2>5, <2>6, <2>7, <2>8, <1>4
<1>13. \A i, j : Waits(i)' /\ Waits(j)' /\ stack'[i][1] = stack'[j][1] => i = j
  BY <1>11 DEF Walking
<1>14. \A i : Waits(i)' => (stack[i][1] \notin Entered /\ Reached(stack[i][1]))'
  BY <1>9, <1>10, <1>11 DEF Walking
<1>15. skipped' \subseteq Entered' /\ \A k \in Entered' : Reached(k)'
  BY <1>1, <1>9, <1>10 DEF Walking
<1>16. QED
  BY <1>1, <1>4, <1>8, <1>9, <1>12, <1>13, <1>14, <1>15 DEF Walking

(* A node entered: its children wait, unless it answered False.            *)
LEMMA EnterKeeps ==
    ASSUME Walking, Enter
    PROVE  Walking'
<1>1. PICK r : r = Rest
  OBVIOUS
<1>2. PICK e : e = Last(stack)
  OBVIOUS
<1>3. stack # <<>> /\ ~e[2] /\ stack \in Seq(Open) /\ log \in Seq(Call)
  BY <1>2 DEF Enter, Walking
<1>4. /\ r \in Seq(Open) /\ e \in Open /\ stack = Append(r, e)
      /\ Len(stack) \in Nat /\ Len(r) = Len(stack) - 1
  BY <1>1, <1>2, <1>3, LastOf DEF Rest
<1>5. PICK n \in Nodes : n = e[1]
  BY <1>4 DEF Open
<1>6. PICK c : c = <<"enter", n>>
  OBVIOUS
<1>7. c \in Call /\ log' = Append(log, c)
  BY <1>2, <1>5, <1>6 DEF Call, Enter
<1>8. PICK skip \in BOOLEAN :
         /\ skipped' = IF skip THEN skipped \cup {n} ELSE skipped
         /\ stack' = Append(Rest, <<n, TRUE>>) \o (IF skip \/ n \in Generic THEN <<>> ELSE Pushed(Children(n)))
  BY <1>2, <1>5 DEF Enter
<1>9. PICK left : left = <<n, TRUE>>
  OBVIOUS
<1>10. PICK base : base = Append(r, left)
  OBVIOUS
<1>11. PICK cs : cs = IF skip \/ n \in Generic THEN <<>> ELSE Children(n)
  OBVIOUS
<1>12. /\ cs \in Seq(Nodes) /\ \A i, j \in 1..Len(cs) : cs[i] = cs[j] => i = j
       /\ \A i \in 1..Len(cs) : cs[i] \in ToSet(Children(n))
  <2>1. CASE cs = <<>>
    BY <2>1
  <2>2. CASE cs = Children(n)
    BY <2>2, ChildrenType, DiagramAssumption DEF IsInjective
  <2>3. QED
    BY <2>1, <2>2, <1>11
<1>13. PICK more : more = Pushed(cs)
  OBVIOUS
<1>14. more \in Seq(Open) /\ Len(more) = Len(cs) /\ \A i \in 1..Len(cs) : more[i] = <<cs[Len(cs) - i + 1], FALSE>>
  BY <1>12, <1>13, PushedIs
<1>15. stack' = base \o more
  <2>1. Pushed(<<>>) = <<>>
    <3>1. <<>> \in Seq(Nodes) /\ Len(<<>>) = 0
      OBVIOUS
    <3>2. Pushed(<<>>) \in Seq(Open) /\ Len(Pushed(<<>>)) = 0
      BY <3>1, PushedIs
    <3>3. QED
      BY <3>2
  <2>2. QED
    BY <2>1, <1>1, <1>8, <1>9, <1>10, <1>11, <1>13
<1>16. left \in Open
  BY <1>9 DEF Open
<1>17. PICK m \in Nat : m = Len(r)
  BY <1>4
<1>18. PICK k \in Nat : k = Len(cs)
  BY <1>12
<1>19. base \in Seq(Open) /\ Len(base) = m + 1 /\ base[m + 1] = left /\ \A i \in 1..m : base[i] = r[i]
  BY <1>4, <1>10, <1>16, <1>17
<1>20. stack' \in Seq(Open) /\ Joined(stack', base, more)
  BY <1>14, <1>15, <1>19, Joins
<1>21. Waits(m + 1) /\ stack[m + 1] = e /\ \A i \in 1..m : i \in DOMAIN stack /\ stack[i] = r[i]
  BY <1>3, <1>4, <1>17 DEF Waits
<1>22. n \notin Entered /\ Reached(n)
  BY <1>5, <1>21 DEF Walking
<1>23. log' \in Seq(Call) /\ Entered' = Entered \cup {n}
  <2>1. PICK p \in Nat : p = Len(log)
    BY <1>3
  <2>2. /\ log' \in Seq(Call) /\ DOMAIN log = 1..p /\ DOMAIN log' = 1..p + 1
        /\ log'[p + 1] = c /\ \A i \in 1..p : log'[i] = log[i]
    BY <2>1, <1>3, <1>7
  <2>3. ASSUME NEW x \in Nodes
        PROVE  (\E i \in DOMAIN log' : log'[i] = <<"enter", x>>)
                  <=> x = n \/ \E i \in DOMAIN log : log[i] = <<"enter", x>>
    <3>1. c = <<"enter", x>> <=> x = n
      BY <1>6
    <3>2. \A i \in 1..p + 1 : i = p + 1 \/ i \in 1..p
      BY <2>1
    <3>3. p + 1 \in 1..p + 1 /\ \A i \in 1..p : i \in 1..p + 1
      BY <2>1
    <3>4. QED
      BY <3>1, <3>2, <3>3, <2>2
  <2>4. QED
    BY <2>2, <2>3 DEF Entered
<1>24. \A x : Reached(x) \/ x \in ToSet(Children(n)) => Reached(x)'
  BY <1>23 DEF Reached
<1>25. ASSUME NEW x \in ToSet(Children(n))
       PROVE  ~Reached(x) /\ x \notin Entered /\ x # n
  <2>1. x # Root
    BY DiagramAssumption
  <2>2. \A y \in Entered : x \notin ToSet(Children(y))
    BY <1>22, DiagramAssumption DEF Entered
  <2>3. ~Reached(x)
    BY <2>1, <2>2 DEF Reached
  <2>4. QED
    BY <2>3, <1>22 DEF Walking
<1>26. ASSUME NEW i, Waits(i)'
       PROVE  \/ i \in 1..m /\ Waits(i) /\ stack'[i] = stack[i] /\ stack[i][1] # n
              \/ \E j \in 1..k : i = m + 1 + j /\ stack'[i][1] = cs[k - j + 1]
  <2>1. i \in 1..(m + 1) + k /\ ~stack'[i][2]
    BY <1>14, <1>18, <1>19, <1>20, <1>26 DEF Waits, Joined
  <2>2. CASE i \in 1..m
    <3>1. i \in 1..m + 1
      BY <2>2
    <3>2. stack'[i] = stack[i]
      BY <3>1, <2>2, <1>19, <1>20, <1>21 DEF Joined
    <3>3. Waits(i)
      BY <3>2, <2>1, <2>2, <1>21 DEF Waits
    <3>4. i # m + 1
      BY <2>2
    <3>5. stack[i][1] # n
      BY <3>3, <3>4, <1>5, <1>21 DEF Walking
    <3>6. QED
      BY <2>2, <3>2, <3>3, <3>5
  <2>3. CASE i = m + 1
    <3>1. m + 1 \in 1..m + 1
      OBVIOUS
    <3>2. stack'[i] = left
      BY <3>1, <2>3, <1>19, <1>20 DEF Joined
    <3>3. QED
      BY <3>2, <2>1, <1>9
  <2>4. CASE i > m + 1
    <3>1. PICK j \in 1..k : i = m + 1 + j
      <4>1. i - (m + 1) \in 1..k /\ i = m + 1 + (i - (m + 1))
        BY <2>1, <2>4
      <4>2. QED
        BY <4>1
    <3>2. stack'[i] = more[j]
      BY <3>1, <1>14, <1>18, <1>19, <1>20 DEF Joined
    <3>3. more[j] = <<cs[k - j + 1], FALSE>>
      BY <1>14, <1>18
    <3>4. stack'[i][1] = cs[k - j + 1]
      BY <3>2, <3>3
    <3>5. QED
      BY <3>1, <3>4
  <2>5. QED
    BY <2>1, <2>2, <2>3, <2>4
<1>27. \A j \in 1..k : k - j + 1 \in 1..k /\ cs[k - j + 1] \in ToSet(Children(n))
  <2>1. \A j \in 1..k : k - j + 1 \in 1..k
    OBVIOUS
  <2>2. QED
    BY <2>1, <1>12, <1>18
<1>28. ASSUME NEW i, Waits(i)' PROVE (stack[i][1] \notin Entered /\ Reached(stack[i][1]))'
  <2>1. CASE i \in 1..m /\ Waits(i) /\ stack'[i] = stack[i] /\ stack[i][1] # n
    BY <2>1, <1>23, <1>24 DEF Walking
  <2>2. ASSUME NEW j \in 1..k, i = m + 1 + j, stack'[i][1] = cs[k - j + 1]
        PROVE  (stack[i][1] \notin Entered /\ Reached(stack[i][1]))'
    BY <2>2, <1>23, <1>24, <1>25, <1>27
  <2>3. QED
    BY <2>1, <2>2, <1>26, <1>28
<1>29. ASSUME NEW i, NEW j, Waits(i)', Waits(j)', stack'[i][1] = stack'[j][1] PROVE i = j
  <2>1. ASSUME NEW x, Waits(x)', x \in 1..m, Waits(x), stack'[x] = stack[x], NEW y \in 1..k, stack'[x][1] = cs[k - y + 1]
        PROVE  FALSE
    BY <2>1, <1>25, <1>27 DEF Walking
  <2>2. CASE i \in 1..m /\ j \in 1..m
    <3>1. \A y \in 1..k : m + 1 + y \notin 1..m
      OBVIOUS
    <3>2. Waits(i) /\ stack'[i] = stack[i] /\ Waits(j) /\ stack'[j] = stack[j]
      BY <3>1, <2>2, <1>26, <1>29
    <3>3. QED
      BY <3>2, <1>29 DEF Walking
  <2>3. CASE i \in 1..m /\ j \notin 1..m
    BY <2>1, <2>3, <1>26, <1>29
  <2>4. CASE i \notin 1..m /\ j \in 1..m
    BY <2>1, <2>4, <1>26, <1>29
  <2>5. CASE i \notin 1..m /\ j \notin 1..m
    <3>1. PICK x \in 1..k : i = m + 1 + x /\ stack'[i][1] = cs[k - x + 1]
      BY <2>5, <1>26, <1>29
    <3>2. PICK y \in 1..k : j = m + 1 + y /\ stack'[j][1] = cs[k - y + 1]
      BY <2>5, <1>26, <1>29
    <3>3. k - x + 1 = k - y + 1
      BY <3>1, <3>2, <1>12, <1>18, <1>27, <1>29
    <3>4. QED
      BY <3>1, <3>2, <3>3
  <2>6. QED
    BY <2>2, <2>3, <2>4, <2>5
<1>30. ASSUME NEW skips \in SUBSET Nodes, skips \cap Entered' = skipped'
       PROVE  log' \o Pending(Visits(skips), stack') = Visits(skips)[Root]
  <2>1. skips \cap Entered = skipped /\ (n \in skips <=> skip)
    BY <1>8, <1>22, <1>23, <1>30 DEF Walking
  <2>2. PICK v \in Visitor : v = Visits(skips)
    BY VisitsTyped
  <2>3. log \o Pending(v, stack) = v[Root]
    BY <2>1, <2>2 DEF Walking
  <2>4. PICK x \in Seq(Call) : x = Calls(v, cs)
    <3>1. \A i \in 1..Len(cs) : v[cs[i]] \in Seq(Call)
      BY <1>12 DEF Visitor
    <3>2. QED
      BY <3>1, <1>12, CallsTyped
  <2>5. PICK o \in Seq(Call) : o = <<c>>
    BY <1>6, CallType
  <2>6. PICK l \in Seq(Call) : l = <<<<"leave", n>>>>
    BY CallType
  <2>7. v[n] = (o \o x) \o l
    <3>1. x = IF n \in skips \cup Generic THEN <<>> ELSE Calls(v, Children(n))
      BY <2>1, <2>4, <1>11, CallsNone
    <3>2. v[n] = Visit(v, skips, n)
      BY <2>2, VisitsSolve
    <3>3. QED
      BY <3>1, <3>2, <2>5, <2>6, <1>6 DEF Visit
  <2>8. PICK z \in Seq(Call) : z = Pending(v, r)
    BY <1>4, PendingTyped
  <2>9. Pending(v, stack) = ((o \o x) \o l) \o z
    <3>1. Piece(v, e) = v[n]
      BY <1>3, <1>5 DEF Piece
    <3>2. QED
      BY <3>1, <2>7, <2>8, <1>4, PendingAppend
  <2>10. Pending(v, base) = l \o z
    <3>1. Piece(v, left) = l
      BY <2>6, <1>9 DEF Piece
    <3>2. QED
      BY <3>1, <2>8, <1>4, <1>10, <1>16, PendingAppend
  <2>11. Pending(v, stack') = x \o (l \o z)
    BY <2>4, <2>10, <1>12, <1>13, <1>15, <1>19, PendingPushed
  <2>12. PICK g \in Seq(Call) : g = log
    BY <1>3
  <2>13. log' = g \o o
    BY <2>5, <2>12, <1>3, <1>7, AppendIsConcat
  <2>14. Regroups(g, o, x, l, z)
    BY Regrouped
  <2>15. QED
    BY <2>2, <2>3, <2>9, <2>11, <2>12, <2>13, <2>14 DEF Regroups
<1>31. skipped' \subseteq Entered' /\ \A x \in Entered' : Reached(x)'
  BY <1>8, <1>22, <1>23, <1>24 DEF Walking
<1>32. QED
  BY <1>20, <1>23, <1>28, <1>29, <1>30, <1>31 DEF Walking

LEMMA WalkKept ==
    ASSUME WalkInv, [Next]_vars
    PROVE  WalkInv'
<1>1. SUFFICES ASSUME phase' = "apply" PROVE Walking'
  BY DEF WalkInv
<1>2. CASE ApplyFirst
  BY <1>1, <1>2, WalkStarts DEF ApplyFirst
<1>3. CASE Enter
  BY <1>3, EnterKeeps DEF WalkInv, Enter
<1>4. CASE Leave
  BY <1>4, LeaveKeeps DEF WalkInv, Leave
<1>5. CASE Applied \/ HookFails
  <2>1. StartWalk
    BY <1>1, <1>5 DEF Applied, HookFails, Answer
  <2>2. QED
    BY <2>1, WalkStarts
<1>6. CASE Lint \/ Extend \/ UnknownConfig \/ Inherit \/ ResolveRule \/ RuleFails
  BY <1>1, <1>6 DEF Lint, Extend, UnknownConfig, Inherit, ResolveRule, RuleFails, Abandon
<1>7. CASE UNCHANGED vars
  <2>1. UNCHANGED <<phase, stack, log, skipped>>
    BY <1>7 DEF vars, walk
  <2>2. Walking
    BY <2>1, <1>1 DEF WalkInv
  <2>3. Entered' = Entered
    BY <2>1 DEF Entered
  <2>4. (\A n : Reached(n)' <=> Reached(n)) /\ \A i : Waits(i)' <=> Waits(i)
    BY <2>1, <2>3 DEF Reached, Waits
  <2>5. QED
    BY <2>1, <2>2, <2>3, <2>4 DEF Walking
<1>8. QED
  BY <1>2, <1>3, <1>4, <1>5, <1>6, <1>7 DEF Next

(* The loop over an explicit stack calls the hooks as the recursion would: *)
(* for every tree, whatever `enter` answers at each of its nodes.          *)
THEOREM TraversalRecurses == Spec => []WalkOrder
<1>1. Init => WalkInv
  BY DEF Init, WalkInv
<1>2. WalkInv /\ [Next]_vars => WalkInv'
  BY WalkKept
<1>3. WalkInv => WalkOrder
  <2>1. SUFFICES ASSUME WalkInv, phase = "apply", stack = <<>> PROVE log = Visits(skipped)[Root]
    BY DEF WalkOrder
  <2>2. Walking
    BY <2>1 DEF WalkInv
  <2>3. skipped \in SUBSET Nodes /\ skipped \cap Entered = skipped
    BY <2>2 DEF Walking, Entered
  <2>4. log \o Pending(Visits(skipped), stack) = Visits(skipped)[Root]
    BY <2>2, <2>3 DEF Walking
  <2>5. PICK l \in Seq(Call) : l = log
    BY <2>2 DEF Walking
  <2>6. l \o <<>> = l
    OBVIOUS
  <2>7. QED
    BY <2>1, <2>4, <2>5, <2>6, PendingNone
<1>4. QED
  BY <1>1, <1>2, <1>3, PTL DEF Spec
=============================================================================
