------------------------------ MODULE Registry ------------------------------
(***************************************************************************)
(* The meta-model registry of bpmn_io/moddle (registry.py,                 *)
(* descriptor_builder.py, moddle.py): packages are registered one by one,  *)
(* and the descriptor of a type is built the first time the type is asked  *)
(* for, by a walk over its supertypes and the traits that extend it, and   *)
(* cached with its element class.                                          *)
(*                                                                         *)
(* A call is sequential: registering a package is one action, building a   *)
(* descriptor is one action for each step of the walk's explicit stack.    *)
(* Names are pairs of a prefix, "" when it is not written, and a local     *)
(* name.  Values, flags the walk does not read and messages are left out.  *)
(***************************************************************************)
EXTENDS Naturals, Sequences, SequencesExt, FiniteSets

CONSTANTS
    Libraries,    \* the collections of package definitions to choose from
    BuiltIn,      \* the local names of built-in types
    MaxAttempts,  \* bound: calls of register_package
    MaxDescribed  \* bound: descriptors built

VARIABLES
    library,   \* package definitions by key, never changes
    typeMap,   \* type_map: registered types by name
    packages,  \* packages, in the order of their registration
    attempts,  \* keys register_package was called with, in order
    walk,      \* frames of map_types
    visited,   \* types it gave to the builder with their inherited flag
    builder,   \* the descriptor under construction
    target,    \* the type it is for, NoType when none is being built
    cache,     \* type_cache: descriptors by name
    refused    \* the descriptors that could not be built
vars == <<library, typeMap, packages, attempts, walk, visited, builder, target, cache, refused>>

-----------------------------------------------------------------------------
(* parse_name                                                              *)
Name(prefix, local) == <<prefix, local>>
Resolve(name, prefix) == IF name[1] = "" THEN Name(prefix, name[2]) ELSE name
IsBuiltIn(name) == name[1] = "" /\ name[2] \in BuiltIn
NoType == Name("", "none")

Names == STRING \X STRING
Qualified(pkg, i) == Resolve(pkg.types[i].name, pkg.prefix)
Relative(names, prefix) ==
    [i \in DOMAIN names |-> IF IsBuiltIn(names[i]) THEN names[i] ELSE Resolve(names[i], prefix)]

(* A package has a prefix, and declares its types by name with lists of    *)
(* the names of their supertypes, of the types they extend, and of their   *)
(* properties; what a property refines is a type and its attribute.        *)
PropertyDefs(names) == [ns : names, isId : BOOLEAN, isBody : BOOLEAN, refines : Seq(Names), replaces : BOOLEAN]
WellFormed(pkg) ==
    /\ pkg.prefix \in STRING \ {""} /\ pkg.types \in Seq(Range(pkg.types))
    /\ \A t \in Range(pkg.types) :
          /\ t.name \in Names /\ t.supers \in Seq(Names) /\ t.extends \in Seq(Names)
          /\ t.props \in Seq(PropertyDefs(Names))

(* A type leads the walk to its supertypes and to the types that extend it. *)
Leads(lib, n, m) ==
    \E k \in DOMAIN lib : \E i \in DOMAIN lib[k].types :
        LET t == lib[k].types[i]
            name == Qualified(lib[k], i)
        IN  \/ n = name /\ m \in Range(Relative(t.supers, name[1]))
            \/ m = name /\ \E e \in Range(t.extends) : Resolve(e, name[1]) = n
TypeNamesOf(lib) == UNION {{Qualified(lib[k], i) : i \in DOMAIN lib[k].types} : k \in DOMAIN lib}

(* A package declares a type once, a type is of one namespace, and no      *)
(* hierarchy is circular, on which map_types would not return.             *)
ASSUME LibrariesAssumption ==
    /\ BuiltIn \cup {"", "none"} \subseteq STRING /\ "none" \notin BuiltIn
    /\ \A lib \in Libraries :
          /\ \A k \in DOMAIN lib : WellFormed(lib[k])
          /\ \A k, l \in DOMAIN lib : \A i \in DOMAIN lib[k].types : \A j \in DOMAIN lib[l].types :
                Qualified(lib[k], i) = Qualified(lib[l], j) => lib[k].uri = lib[l].uri /\ (k = l => i = j)
          /\ \A names \in SUBSET TypeNamesOf(lib) :
                names # {} => \E n \in names : \A m \in names : ~Leads(lib, n, m)

(* register_type: names are resolved against the prefix of the package.    *)
RegisteredProperty(p, prefix) ==
    [p EXCEPT !.ns = Resolve(p.ns, prefix)]
RegisteredType(def, pkg) ==
    LET name == Resolve(def.name, pkg.prefix)
    IN  [name |-> name, pkg |-> pkg.uri, supers |-> def.supers, extends |-> def.extends, traits |-> <<>>,
         props |-> [i \in DOMAIN def.props |-> RegisteredProperty(def.props[i], name[1])]]

Put(map, key, value) == [k \in DOMAIN map \cup {key} |-> IF k = key THEN value ELSE map[k]]

(* The type is appended to the traits of what it extends, which must exist; *)
(* what was linked before a failure stays linked.                          *)
LinkTrait(acc, extended, name) ==
    IF ~acc.ok \/ extended \notin DOMAIN acc.types THEN [acc EXCEPT !.ok = FALSE]
    ELSE [acc EXCEPT !.types[extended].traits = Append(@, name)]

RegisterUnlinked(acc, def, pkg) == \* mutant: types that extend are not recorded as traits
    [acc EXCEPT !.types = Put(@, RegisteredType(def, pkg).name, RegisteredType(def, pkg))]
LinkTraits(acc, name, extends) ==
    FoldLeft(LAMBDA a, e : LinkTrait(a, Resolve(e, name[1]), name), acc, extends)
RegisterType(acc, def, pkg) ==
    LET t == RegisteredType(def, pkg)
        linked == LinkTraits(acc, t.name, t.extends)
    IN  IF linked.ok THEN [linked EXCEPT !.types = Put(@, t.name, t)] ELSE linked

RegisterTypes(types, pkg) ==
    FoldLeft(LAMBDA a, def : IF a.ok THEN RegisterType(a, def, pkg) ELSE a,
             [ok |-> TRUE, types |-> types], pkg.types)

(* _ensure_available: package_map holds both identifiers of every package. *)
Available(pkg) ==
    \A i \in DOMAIN packages :
        {pkg.prefix, pkg.uri} \cap {library[packages[i]].prefix, library[packages[i]].uri} = {}

Describing == target # NoType

RegisterPackage(key) ==
    /\ ~Describing /\ Len(attempts) < MaxAttempts
    /\ LET pkg == library[key]
           r == RegisterTypes(typeMap, pkg)
       IN  IF ~Available(pkg) THEN UNCHANGED <<typeMap, packages>>
           ELSE /\ typeMap' = r.types
                /\ packages' = IF r.ok THEN Append(packages, key) ELSE packages
    /\ attempts' = Append(attempts, key)
    /\ UNCHANGED <<library, walk, visited, builder, target, cache, refused>>

-----------------------------------------------------------------------------
(* DescriptorBuilder                                                       *)
NoProperty == [of |-> NoType, ns |-> NoType]
EmptyBuilder == [ok |-> TRUE, types |-> <<>>, props |-> <<>>, byName |-> [n \in {} |-> NoProperty],
                 body |-> NoProperty, id |-> NoProperty]

(* A property is listed under its qualified and its local name.            *)
LocalName(p) == Name("", p.ns[2])
OnlyLocal(byName, p) == Put(byName, LocalName(p), p) \* mutant: the qualified name is forgotten
Named(byName, p) == Put(Put(byName, p.ns, p), LocalName(p), p)
Fail(b) == [b EXCEPT !.ok = FALSE]

(* add_property; at is 0 to append.                                        *)
AddProperty(b, p, at, validate) ==
    IF validate /\ LocalName(p) \in DOMAIN b.byName THEN Fail(b)
    ELSE [b EXCEPT !.byName = Named(@, p),
                   !.props = IF at = 0 THEN Append(@, p) ELSE InsertAt(@, at, p)]

SetBody(b, p) == IF b.body # NoProperty THEN Fail(b) ELSE [b EXCEPT !.body = p]
SetId(b, p) == IF b.id # NoProperty THEN Fail(b) ELSE [b EXCEPT !.id = p]

(* replace_property: redefines keeps the place, replaces appends.          *)
IndexOf(props, old) == SelectInSeq(props, LAMBDA p : p = old)
ReplaceProperty(b0, old, new) ==
    LET b == [b0 EXCEPT !.id = IF old.isId THEN new ELSE @, !.body = IF old.isBody THEN new ELSE @]
        at == IndexOf(b.props, old)
        added == AddProperty([b EXCEPT !.props = RemoveAt(@, at)], new,
                             IF new.replaces THEN 0 ELSE at, LocalName(old) # LocalName(new))
    IN  IF (old.isId /\ ~new.isId) \/ (old.isBody /\ ~new.isBody) \/ at = 0 THEN Fail(b0)
        ELSE IF ~added.ok THEN added
        ELSE [added EXCEPT !.byName = Put(Put(@, old.ns, new), LocalName(old), new)]

(* redefine_property: refines is the type and the attribute it names.      *)
RedefineProperty(b, p) ==
    LET attr == Resolve(p.refines[2], Resolve(p.refines[1], p.ns[1])[1])
    IN  IF attr \in DOMAIN b.byName THEN ReplaceProperty(b, b.byName[attr], p) ELSE Fail(b)

Refines(p) == p.refines # <<>>
FoldProperty(b, p) ==
    LET bodied == IF p.isBody THEN SetBody(b, p) ELSE b
        identified == IF bodied.ok /\ p.isId THEN SetId(bodied, p) ELSE bodied
    IN  IF ~b.ok THEN b
        ELSE IF Refines(p) THEN RedefineProperty(b, p)
        ELSE IF ~identified.ok THEN identified
        ELSE AddProperty(identified, p, 0, TRUE)

(* add_trait: a type that extends others is refused as a supertype, one    *)
(* already folded is skipped.                                              *)
Descriptor(p, type, inherited) ==
    [of |-> type, ns |-> p.ns, isId |-> p.isId, isBody |-> p.isBody, refines |-> p.refines,
     replaces |-> p.replaces, inherited |-> inherited]
Descriptors(t, inherited) == [i \in DOMAIN t.props |-> Descriptor(t.props[i], t.name, inherited)]
FoldProperties(b, props) == FoldLeft(FoldProperty, b, props)
AddTrait(b, t, inherited) ==
    LET folded == FoldProperties(b, Descriptors(t, inherited))
    IN  IF inherited /\ t.extends # <<>> THEN Fail(b)
        ELSE IF Contains(b.types, t.name) THEN b
        ELSE [folded EXCEPT !.types = Append(@, t.name)]

-----------------------------------------------------------------------------
(* map_types: a frame for each type on the way.                            *)
Frame(name, trait) == [name |-> name, trait |-> trait, phase |-> 0]
BuiltInType(name) == [name |-> name, pkg |-> "none", supers |-> <<>>, extends |-> <<>>, traits |-> <<>>, props |-> <<>>]
KnownIn(types, name) == IsBuiltIn(name) \/ name \in DOMAIN types
TypeIn(types, name) == IF IsBuiltIn(name) THEN BuiltInType(name) ELSE types[name]
Known(name) == KnownIn(typeMap, name)
TypeOf(name) == TypeIn(typeMap, name)
FramesInOrder(names, trait) == [i \in DOMAIN names |-> Frame(names[i], trait)] \* mutant: the last is visited first
Frames(names, trait) == Reverse([i \in DOMAIN names |-> Frame(names[i], trait)])

Top == Last(walk)
SupersInherited(t) == Frames(Relative(t.supers, Top.name[1]), FALSE) \* mutant: what a trait inherits passes for inherited
Supers(t) == Frames(Relative(t.supers, Top.name[1]), Top.trait)
InPhase(n) == [walk EXCEPT ![Len(walk)].phase = n]

Describe(name) ==
    /\ ~Describing /\ name \notin DOMAIN cache
    /\ Cardinality(DOMAIN cache) + Cardinality(refused) < MaxDescribed
    /\ target' = name /\ builder' = EmptyBuilder /\ visited' = <<>>
    /\ walk' = <<Frame(name, FALSE)>>
    /\ UNCHANGED <<library, typeMap, packages, attempts, cache, refused>>

(* A raise leaves nothing behind but the types already registered.         *)
Refuse ==
    /\ target' = NoType /\ refused' = refused \cup {target}
    /\ walk' = <<>> /\ builder' = EmptyBuilder /\ visited' = <<>>

EnterType ==
    /\ Describing /\ walk # <<>> /\ Top.phase = 0
    /\ IF ~Known(Top.name) THEN Refuse
       ELSE /\ walk' = InPhase(1) \o Supers(TypeOf(Top.name))
            /\ UNCHANGED <<target, builder, visited, refused>>
    /\ UNCHANGED <<library, typeMap, packages, attempts, cache>>

VisitType ==
    /\ Describing /\ walk # <<>> /\ Top.phase = 1
    /\ LET t == TypeOf(Top.name)
           b == AddTrait(builder, t, ~Top.trait)
       IN  IF ~b.ok THEN Refuse
           ELSE /\ builder' = b
                /\ visited' = Append(visited, <<t.name, ~Top.trait>>)
                /\ walk' = InPhase(2) \o Frames(Relative(t.traits, Top.name[1]), TRUE)
                /\ UNCHANGED <<target, refused>>
    /\ UNCHANGED <<library, typeMap, packages, attempts, cache>>

LeaveType ==
    /\ Describing /\ walk # <<>> /\ Top.phase = 2
    /\ walk' = Front(walk)
    /\ UNCHANGED <<library, typeMap, packages, attempts, visited, builder, target, cache, refused>>

(* get_effective_descriptor links the package of the last type; get_type   *)
(* caches the element class.                                               *)
Effective(b) ==
    [types |-> b.types, props |-> b.props, byName |-> b.byName, body |-> b.body, id |-> b.id,
     pkg |-> TypeOf(Last(b.types)).pkg]
Finish ==
    /\ Describing /\ walk = <<>>
    /\ cache' = Put(cache, target, Effective(builder))
    /\ target' = NoType /\ builder' = EmptyBuilder /\ visited' = <<>>
    /\ UNCHANGED <<library, typeMap, packages, attempts, walk, refused>>

TypeNames == TypeNamesOf(library)

Init ==
    /\ library \in Libraries
    /\ typeMap = [n \in {} |-> BuiltInType(n)] /\ cache = [n \in {} |-> NoProperty]
    /\ packages = <<>> /\ attempts = <<>> /\ walk = <<>> /\ visited = <<>>
    /\ builder = EmptyBuilder /\ target = NoType /\ refused = {}

Next ==
    \/ \E key \in DOMAIN library : RegisterPackage(key)
    \/ \E name \in TypeNames : Describe(name)
    \/ EnterType \/ VisitType \/ LeaveType \/ Finish

Spec == Init /\ [][Next]_vars

-----------------------------------------------------------------------------
(* The order the walk promises: supertypes depth first, then the type, then *)
(* its traits, with the flag that tells inheritance from extension.  What  *)
(* is not registered, on which the recursion would raise, is marked.       *)
Call(types, order, name, trait) ==
    IF KnownIn(types, name) THEN order[<<name, trait>>] ELSE <<<<NoType, trait>>>>
Calls(types, order, names, trait) == [i \in DOMAIN names |-> Call(types, order, names[i], trait)]
InTurn(calls) == FoldLeft(LAMBDA visits, call : visits \o call, <<>>, calls)
Traversal(types, order, name, trait) ==
    LET t == TypeIn(types, name)
    IN  InTurn(Calls(types, order, Relative(t.supers, name[1]), trait))
            \o <<<<name, ~trait>>>>
            \o InTurn(Calls(types, order, Relative(t.traits, name[1]), TRUE))
Walked(types) == (DOMAIN types \cup {Name("", b) : b \in BuiltIn}) \X BOOLEAN
Order(types) == LET order[call \in Walked(types)] == Traversal(types, order, call[1], call[2]) IN order

(* The walk with its explicit stack gives the builder the types the        *)
(* recursive traversal it replaces would give it.                          *)
VisitOrder == Describing /\ walk = <<>> => visited = Order(typeMap)[<<target, FALSE>>]

(* A listed property answers to its own two names, the body and the id are *)
(* listed, and any other name leads to a listed property unless the one it *)
(* leads to was a refinement and was refined in turn: the first name stays *)
(* with the property in the middle.                                        *)
NamesLive ==
    \A n \in DOMAIN cache :
        LET c == cache[n]
            listed == Range(c.props)
        IN  /\ \A p \in listed : \A k \in {p.ns, LocalName(p)} : k \in DOMAIN c.byName /\ c.byName[k] = p
            /\ {c.body, c.id} \subseteq listed \cup {NoProperty}
            /\ \A k \in DOMAIN c.byName : c.byName[k] \in listed \/ Refines(c.byName[k])

Attempts(uri) == {i \in DOMAIN attempts : library[attempts[i]].uri = uri}

(* Every type of a registered package is known and is a trait of what it   *)
(* extends, whatever registration failed in between; only registering the  *)
(* extended package anew after a failure forgets its extensions.           *)
ExtensionsLinked ==
    \A i \in DOMAIN packages : \A j \in DOMAIN library[packages[i]].types :
        LET name == Qualified(library[packages[i]], j)
        IN  /\ name \in DOMAIN typeMap
            /\ \A e \in Range(typeMap[name].extends) :
                  LET x == Resolve(e, name[1])
                  IN  /\ x \in DOMAIN typeMap
                      /\ \/ Contains(typeMap[x].traits, name)
                         \/ Cardinality(Attempts(typeMap[x].pkg)) > 1

(* A cached descriptor is the one that would be built now, unless one of   *)
(* its types has been extended since (by a type that is registered or by   *)
(* one that failed after it was linked) or was registered again.           *)
Rebuilt(name) ==
    Effective(FoldLeft(LAMBDA b, v : AddTrait(b, TypeOf(v[1]), v[2]), EmptyBuilder, Order(typeMap)[<<name, FALSE>>]))
Extended(types) == \E n \in types \cap DOMAIN typeMap : \E t \in Range(typeMap[n].traits) : t \notin types
Again(types) == \E n \in types \cap DOMAIN typeMap : Cardinality(Attempts(typeMap[n].pkg)) > 1
Touched(types) == Extended(types) \/ Again(types)
CacheFresh == \A n \in DOMAIN cache : ~Touched(Range(cache[n].types)) => cache[n] = Rebuilt(n)

(* A descriptor handed out is current, and its names lead into it.         *)
DescriptorsFaithful == CacheFresh /\ NamesLive

(* The package a descriptor is linked to owns the type.                    *)
OwnPackage == \A n \in DOMAIN cache : cache[n].pkg = typeMap[n].pkg
=============================================================================
