--------------------------- MODULE RegistryProofs ---------------------------
(***************************************************************************)
(* Three results about the registry, for all well-formed libraries.  Every *)
(* type of a registered package is a trait of what it extends, whatever    *)
(* registration failed before.  The walk with a stack of its own gives the *)
(* builder the types in the order of the recursion it replaces.  And a     *)
(* cached descriptor stays the one that would be built now until one of    *)
(* its types is extended or registered again, its names leading into it.   *)
(***************************************************************************)
EXTENDS Registry, SequenceTheorems, FiniteSetTheorems, TLAPS

-----------------------------------------------------------------------------
(* Where the types of a library are declared, and what a registered type   *)
(* has of its declaration.                                                 *)
Places(lib, keys) == {d \in keys \X Nat : d[1] \in DOMAIN lib /\ d[2] \in DOMAIN lib[d[1]].types}
Taken(lib, keys, key, m) == Places(lib, keys) \cup {d \in Places(lib, {key}) : d[2] <= m}

TypeAt(lib, d) == lib[d[1]].types[d[2]]
NameAt(lib, d) == Qualified(lib[d[1]], d[2])
Comes(lib, d, n, t) ==
    /\ n = NameAt(lib, d) /\ t.pkg = lib[d[1]].uri
    /\ t.supers = TypeAt(lib, d).supers /\ t.extends = TypeAt(lib, d).extends
Extends(lib, d, x) == \E e \in Range(TypeAt(lib, d).extends) : Resolve(e, NameAt(lib, d)[1]) = x
Qualifieds == {n \in Names : n[1] # ""}

LEMMA NameIsTyped ==
    ASSUME NEW name \in Names, NEW prefix \in STRING
    PROVE  Resolve(name, prefix) \in Names /\ (prefix # "" => Resolve(name, prefix)[1] # "")
BY DEF Resolve, Name, Names

LEMMA PlaceIsTyped ==
    ASSUME NEW lib \in Libraries, NEW d \in Places(lib, DOMAIN lib)
    PROVE  /\ NameAt(lib, d) \in Names /\ NameAt(lib, d)[1] # ""
           /\ TypeAt(lib, d).supers \in Seq(Names) /\ TypeAt(lib, d).extends \in Seq(Names)
<1>1. d[1] \in DOMAIN lib /\ d[2] \in DOMAIN lib[d[1]].types
  BY DEF Places
<1>2. WellFormed(lib[d[1]])
  BY <1>1, LibrariesAssumption
<1>3. TypeAt(lib, d) \in Range(lib[d[1]].types)
  BY <1>1 DEF TypeAt, Range
<1>4. QED
  BY <1>2, <1>3, NameIsTyped DEF WellFormed, NameAt, TypeAt, Qualified

(* A property is namespaced by the type it is declared in.                 *)
LEMMA PropertiesTyped ==
    ASSUME NEW lib \in Libraries, NEW d \in Places(lib, DOMAIN lib)
    PROVE  RegisteredType(TypeAt(lib, d), lib[d[1]]).props \in Seq(PropertyDefs(Qualifieds))
<1>1. d[1] \in DOMAIN lib /\ d[2] \in DOMAIN lib[d[1]].types
  BY DEF Places
<1>2. TypeAt(lib, d) \in Range(lib[d[1]].types) /\ WellFormed(lib[d[1]])
  BY <1>1, LibrariesAssumption DEF TypeAt, Range
<1>3. PICK defs \in Seq(PropertyDefs(Names)) : defs = TypeAt(lib, d).props
  BY <1>2 DEF WellFormed
<1>4. PICK prefix \in STRING : prefix = NameAt(lib, d)[1] /\ prefix # ""
  BY PlaceIsTyped DEF Names
<1>5. PICK n \in Nat : n = Len(defs) /\ DOMAIN defs = 1..n
  OBVIOUS
<1>6. PICK props : props = RegisteredType(TypeAt(lib, d), lib[d[1]]).props
  OBVIOUS
<1>7. props = [i \in 1..n |-> RegisteredProperty(defs[i], prefix)]
  BY <1>3, <1>4, <1>5, <1>6 DEF RegisteredType, NameAt, TypeAt, Qualified
<1>8. ASSUME NEW i \in 1..n PROVE props[i] \in PropertyDefs(Qualifieds)
  <2>1. PICK p \in PropertyDefs(Names) : p = defs[i]
    BY <1>5
  <2>2. p.ns \in Names
    BY DEF PropertyDefs
  <2>3. PICK q \in Qualifieds : q = Resolve(p.ns, prefix)
    BY <2>2, <1>4, NameIsTyped DEF Qualifieds
  <2>4. props[i] = [p EXCEPT !.ns = q]
    BY <2>1, <2>3, <1>7 DEF RegisteredProperty
  <2>5. QED
    BY <2>4 DEF PropertyDefs
<1>9. props = [i \in 1..n |-> props[i]]
  BY <1>7
<1>10. PICK S : S = PropertyDefs(Qualifieds)
  OBVIOUS
<1>11. \A i \in 1..n : props[i] \in S
  BY <1>8, <1>10
<1>12. props \in Seq(S)
  BY <1>9, <1>11
<1>13. QED
  BY <1>6, <1>10, <1>12

LEMMA PlacesApart ==
    ASSUME NEW lib \in Libraries, NEW c \in Places(lib, DOMAIN lib), NEW d \in Places(lib, DOMAIN lib),
           NameAt(lib, c) = NameAt(lib, d)
    PROVE  lib[c[1]].uri = lib[d[1]].uri /\ (c[1] = d[1] => c[2] = d[2])
<1>1. /\ c[1] \in DOMAIN lib /\ c[2] \in DOMAIN lib[c[1]].types
      /\ d[1] \in DOMAIN lib /\ d[2] \in DOMAIN lib[d[1]].types
  BY DEF Places
<1>2. \A k, l \in DOMAIN lib : \A i \in DOMAIN lib[k].types : \A j \in DOMAIN lib[l].types :
         Qualified(lib[k], i) = Qualified(lib[l], j) => lib[k].uri = lib[l].uri /\ (k = l => i = j)
  BY Zenon, LibrariesAssumption
<1>3. QED
  BY <1>1, <1>2 DEF NameAt

-----------------------------------------------------------------------------
(* What the types of a registry are: each of a place met so far, its       *)
(* traits types that extend it; and what links them.                       *)
Fields == {"name", "pkg", "supers", "extends", "traits", "props"}

Declared(lib, places, n, t) ==
    /\ DOMAIN t = Fields /\ t.name = n /\ t.traits \in Seq(Names) /\ t.props \in Seq(PropertyDefs(Qualifieds))
    /\ \E d \in places : Comes(lib, d, n, t)
    /\ \A y \in Range(t.traits) : \E d \in Places(lib, DOMAIN lib) : y = NameAt(lib, d) /\ Extends(lib, d, n)

Sound(lib, places, types) == \A n \in DOMAIN types : Declared(lib, places, n, types[n])

LinkedTo(types, twice, n, x) == x \in DOMAIN types /\ (n \in Range(types[x].traits) \/ types[x].pkg \in twice)
Linked(types, twice) ==
    \A n \in DOMAIN types : \A e \in Range(types[n].extends) : LinkedTo(types, twice, n, Resolve(e, n[1]))

(* Linking changes traits, and only by what extends.                       *)
SameBut(t, u) ==
    /\ DOMAIN u = Fields /\ u.name = t.name /\ u.pkg = t.pkg /\ u.supers = t.supers /\ u.extends = t.extends
    /\ u.props = t.props
    /\ u.traits \in Seq(Names) /\ Range(t.traits) \subseteq Range(u.traits)
Grown(n, extends, types, more) ==
    /\ DOMAIN more = DOMAIN types
    /\ \A x \in DOMAIN types :
          /\ SameBut(types[x], more[x]) /\ (more[x] = types[x] \/ n \in Range(more[x].traits))
          /\ \A y \in Range(more[x].traits) :
                y \in Range(types[x].traits) \/ (y = n /\ \E e \in Range(extends) : Resolve(e, n[1]) = x)

IsAcc(acc) == acc = [ok |-> acc.ok, types |-> acc.types] /\ acc.ok \in BOOLEAN

Linking(name, acc, e) == LinkTrait(acc, Resolve(e, name[1]), name)
LinkedUpTo(c, acc) ==
    LET name == c[1][1]
        types == c[1][2]
        extends == c[1][3]
    IN  /\ IsAcc(acc) /\ Grown(name, extends, types, acc.types)
        /\ acc.ok => \A i \in 1..c[2] : LET x == Resolve(extends[i], name[1])
                                        IN  x \in DOMAIN types /\ name \in Range(acc.types[x].traits)

L == INSTANCE Folding WITH Op <- Linking, Holds <- LinkedUpTo

LEMMA LinkFold ==
    ASSUME NEW acc, NEW name, NEW extends
    PROVE  LinkTraits(acc, name, extends) = L!Fold(name, acc, extends)
BY Zenon DEF LinkTraits, Linking, L!Fold, FoldLeft, MapThenFoldSet, Max, L!FoldLeft, L!MapThenFoldSet, L!Max

LEMMA RangeAppend ==
    ASSUME NEW S, NEW s \in Seq(S), NEW e \in S
    PROVE  Append(s, e) \in Seq(S) /\ Range(Append(s, e)) = Range(s) \cup {e}
<1>1. PICK n \in Nat : n = Len(s)
  OBVIOUS
<1>2. PICK t : t = Append(s, e)
  OBVIOUS
<1>3. t \in Seq(S) /\ DOMAIN t = 1..(n + 1) /\ DOMAIN s = 1..n /\ t[n + 1] = e /\ \A i \in 1..n : t[i] = s[i]
  BY <1>1, <1>2
<1>4. \A i \in 1..(n + 1) : i = n + 1 \/ i \in 1..n
  OBVIOUS
<1>5. n + 1 \in 1..(n + 1) /\ \A i \in 1..n : i \in 1..(n + 1)
  OBVIOUS
<1>6. QED
  BY <1>2, <1>3, <1>4, <1>5 DEF Range

LEMMA GrownOne ==
    ASSUME NEW n \in Names, NEW extends, NEW types, NEW more, Grown(n, extends, types, more),
           NEW x \in DOMAIN types, \E e \in Range(extends) : Resolve(e, n[1]) = x
    PROVE  LET next == [more EXCEPT ![x].traits = Append(@, n)]
           IN  /\ Grown(n, extends, types, next) /\ n \in Range(next[x].traits)
               /\ \A y \in DOMAIN types : n \in Range(more[y].traits) => n \in Range(next[y].traits)
<1>1. PICK next : next = [more EXCEPT ![x].traits = Append(@, n)]
  OBVIOUS
<1>2. DOMAIN more = DOMAIN types /\ DOMAIN next = DOMAIN types
  BY <1>1 DEF Grown
<1>3. PICK t : t = more[x]
  OBVIOUS
<1>4. SameBut(types[x], t) /\ DOMAIN t = Fields /\ t.traits \in Seq(Names)
  BY <1>3 DEF Grown, SameBut
<1>5. PICK u : u = [t EXCEPT !.traits = Append(@, n)]
  OBVIOUS
<1>6. next[x] = u /\ \A y \in DOMAIN types : y # x => next[y] = more[y]
  BY <1>1, <1>2, <1>3, <1>5
<1>7. /\ DOMAIN u = Fields /\ u.name = t.name /\ u.pkg = t.pkg /\ u.supers = t.supers /\ u.extends = t.extends
      /\ u.props = t.props
      /\ u.traits = Append(t.traits, n)
  BY <1>4, <1>5 DEF Fields
<1>8. u.traits \in Seq(Names) /\ Range(u.traits) = Range(t.traits) \cup {n}
  BY <1>4, <1>7, RangeAppend
<1>9. SameBut(types[x], u)
  BY <1>4, <1>7, <1>8 DEF SameBut
<1>10. Grown(n, extends, types, next)
  <2>1. n \in Range(next[x].traits)
    BY <1>6, <1>8
  <2>2. ASSUME NEW y \in DOMAIN types
        PROVE  /\ SameBut(types[y], next[y]) /\ (next[y] = types[y] \/ n \in Range(next[y].traits))
               /\ \A z \in Range(next[y].traits) :
                     z \in Range(types[y].traits) \/ (z = n /\ \E e \in Range(extends) : Resolve(e, n[1]) = y)
    BY <2>1, <1>3, <1>6, <1>8, <1>9 DEF Grown
  <2>3. QED
    BY <2>2, <1>2 DEF Grown
<1>11. QED
  BY <1>1, <1>3, <1>6, <1>8, <1>10

LEMMA LinksKept ==
    ASSUME NEW n \in Names, NEW types, NEW extends \in Seq(Names),
           \A x \in DOMAIN types : DOMAIN types[x] = Fields /\ types[x].traits \in Seq(Names)
    PROVE  LET acc == LinkTraits([ok |-> TRUE, types |-> types], n, extends)
           IN  /\ IsAcc(acc) /\ Grown(n, extends, types, acc.types)
               /\ acc.ok => \A e \in Range(extends) :
                     Resolve(e, n[1]) \in DOMAIN types /\ n \in Range(acc.types[Resolve(e, n[1])].traits)
<1>1. PICK start : start = [ok |-> TRUE, types |-> types]
  OBVIOUS
<1>2. PICK k : k = <<n, types, extends>>
  OBVIOUS
<1>3. LinkedUpTo(<<k, 0>>, start)
  <2>1. IsAcc(start) /\ start.types = types
    BY <1>1 DEF IsAcc
  <2>2. Grown(n, extends, types, types)
    BY DEF Grown, SameBut
  <2>3. QED
    BY <2>1, <2>2, <1>2 DEF LinkedUpTo
<1>4. ASSUME NEW a, NEW m \in 1..Len(extends), LinkedUpTo(<<k, m - 1>>, a)
      PROVE  LinkedUpTo(<<k, m>>, Linking(n, a, extends[m]))
  <2>1. PICK x : x = Resolve(extends[m], n[1])
    OBVIOUS
  <2>2. PICK b : b = Linking(n, a, extends[m])
    OBVIOUS
  <2>3. /\ IsAcc(a) /\ Grown(n, extends, types, a.types)
        /\ a.ok => \A i \in 1..m - 1 : /\ Resolve(extends[i], n[1]) \in DOMAIN types
                                       /\ n \in Range(a.types[Resolve(extends[i], n[1])].traits)
    BY <1>2, <1>4 DEF LinkedUpTo
  <2>4. b = IF ~a.ok \/ x \notin DOMAIN a.types THEN [a EXCEPT !.ok = FALSE]
            ELSE [a EXCEPT !.types[x].traits = Append(@, n)]
    BY <2>1, <2>2 DEF Linking, LinkTrait
  <2>5. CASE ~a.ok \/ x \notin DOMAIN a.types
    <3>1. b = [ok |-> FALSE, types |-> a.types]
      BY <2>3, <2>4, <2>5 DEF IsAcc
    <3>2. IsAcc(b) /\ b.types = a.types /\ ~b.ok
      BY <3>1 DEF IsAcc
    <3>3. QED
      BY <3>2, <2>2, <2>3, <1>2 DEF LinkedUpTo
  <2>6. CASE a.ok /\ x \in DOMAIN a.types
    <3>1. PICK next : next = [a.types EXCEPT ![x].traits = Append(@, n)]
      OBVIOUS
    <3>2. b = [ok |-> a.ok, types |-> next]
      BY <3>1, <2>3, <2>4, <2>6 DEF IsAcc
    <3>3. IsAcc(b) /\ b.types = next
      BY <3>2, <2>3 DEF IsAcc
    <3>4. x \in DOMAIN types /\ \E e \in Range(extends) : Resolve(e, n[1]) = x
      BY <2>1, <2>3, <2>6 DEF Grown, Range
    <3>5. /\ Grown(n, extends, types, next) /\ n \in Range(next[x].traits)
          /\ \A y \in DOMAIN types : n \in Range(a.types[y].traits) => n \in Range(next[y].traits)
      BY <3>1, <3>4, <2>3, GrownOne
    <3>6. ASSUME NEW i \in 1..m
          PROVE  Resolve(extends[i], n[1]) \in DOMAIN types /\ n \in Range(next[Resolve(extends[i], n[1])].traits)
      <4>1. CASE i = m
        BY <4>1, <3>4, <3>5, <2>1
      <4>2. CASE i \in 1..m - 1
        BY <4>2, <3>5, <2>3, <2>6
      <4>3. QED
        BY <4>1, <4>2
    <3>7. QED
      BY <3>3, <3>5, <3>6, <2>2, <1>2 DEF LinkedUpTo
  <2>7. QED
    BY <2>5, <2>6
<1>5. LinkedUpTo(<<k, Len(extends)>>, L!Fold(n, start, extends))
  BY <1>3, <1>4, L!FoldCounts
<1>6. PICK acc : acc = LinkTraits(start, n, extends)
  OBVIOUS
<1>7. LinkedUpTo(<<k, Len(extends)>>, acc)
  BY <1>5, <1>6, LinkFold
<1>8. \A e \in Range(extends) : \E i \in 1..Len(extends) : e = extends[i]
  BY DEF Range
<1>9. QED
  BY <1>1, <1>2, <1>6, <1>7, <1>8 DEF LinkedUpTo

-----------------------------------------------------------------------------
(* What registering a package changes of the types known before.           *)
DeclaredIn(pkg) == {Qualified(pkg, i) : i \in DOMAIN pkg.types}
Kept(types, more, names) ==
    /\ DOMAIN types \subseteq DOMAIN more
    /\ \A m \in DOMAIN types \ names :
          /\ Range(types[m].traits) \subseteq Range(more[m].traits)
          /\ more[m] = types[m] \/ Range(more[m].traits) \cap names # {}

LEMMA KeptTwice ==
    ASSUME NEW types, NEW more, NEW most, NEW names, Kept(types, more, names), Kept(more, most, names)
    PROVE  Kept(types, most, names)
<1>1. DOMAIN types \subseteq DOMAIN most
  BY DEF Kept
<1>2. ASSUME NEW m \in DOMAIN types \ names
      PROVE  /\ Range(types[m].traits) \subseteq Range(most[m].traits)
             /\ most[m] = types[m] \/ Range(most[m].traits) \cap names # {}
  <2>1. m \in DOMAIN more \ names
    BY DEF Kept
  <2>2. Range(types[m].traits) \subseteq Range(more[m].traits) /\ Range(more[m].traits) \subseteq Range(most[m].traits)
    BY <2>1 DEF Kept
  <2>3. more[m] = types[m] \/ Range(more[m].traits) \cap names # {}
    BY DEF Kept
  <2>4. most[m] = more[m] \/ Range(most[m].traits) \cap names # {}
    BY <2>1 DEF Kept
  <2>5. QED
    BY <2>2, <2>3, <2>4
<1>3. QED
  BY <1>1, <1>2 DEF Kept

(* Registering a type keeps the registry sound and its extensions linked,  *)
(* whether it fails or not; uris of packages met before are among twice.   *)
Registering(pkg, acc, def) == IF acc.ok THEN RegisterType(acc, def, pkg) ELSE acc
TypesUpTo(c, acc) ==
    LET k == c[1]
    IN  /\ IsAcc(acc) /\ Sound(k.lib, Taken(k.lib, k.keys, k.key, c[2]), acc.types)
        /\ Linked(acc.types, k.twice) /\ Kept(k.base, acc.types, DeclaredIn(k.lib[k.key]))
        /\ acc.ok => \A i \in 1..c[2] : Qualified(k.lib[k.key], i) \in DOMAIN acc.types

T == INSTANCE Folding WITH Op <- Registering, Holds <- TypesUpTo

LEMMA RegisterFold ==
    ASSUME NEW pkg, NEW types
    PROVE  RegisterTypes(types, pkg) = T!Fold(pkg, [ok |-> TRUE, types |-> types], pkg.types)
BY Zenon DEF RegisterTypes, Registering, T!Fold, FoldLeft, MapThenFoldSet, Max, T!FoldLeft, T!MapThenFoldSet, T!Max

LEMMA GrownKeeps ==
    ASSUME NEW lib, NEW places, NEW twice, NEW n, NEW extends, NEW types, NEW more,
           Sound(lib, places, types), Linked(types, twice), Grown(n, extends, types, more),
           NEW d \in Places(lib, DOMAIN lib), n = NameAt(lib, d), extends = TypeAt(lib, d).extends
    PROVE  Sound(lib, places, more) /\ Linked(more, twice)
<1>1. ASSUME NEW x \in DOMAIN more PROVE Declared(lib, places, x, more[x])
  <2>1. x \in DOMAIN types /\ SameBut(types[x], more[x]) /\ Declared(lib, places, x, types[x])
    BY <1>1 DEF Grown, Sound
  <2>2. PICK p \in places : Comes(lib, p, x, types[x])
    BY <2>1 DEF Declared
  <2>3. Comes(lib, p, x, more[x])
    BY <2>1, <2>2 DEF Comes, SameBut
  <2>4. ASSUME NEW y \in Range(more[x].traits)
        PROVE  \E q \in Places(lib, DOMAIN lib) : y = NameAt(lib, q) /\ Extends(lib, q, x)
    <3>1. CASE y \in Range(types[x].traits)
      BY <3>1, <2>1 DEF Declared
    <3>2. CASE y = n /\ \E e \in Range(extends) : Resolve(e, n[1]) = x
      BY <3>2 DEF Extends
    <3>3. QED
      BY <3>1, <3>2, <2>1, <2>4 DEF Grown
  <2>5. QED
    BY <2>1, <2>3, <2>4 DEF Declared, SameBut
<1>2. ASSUME NEW x \in DOMAIN more, NEW e \in Range(more[x].extends)
      PROVE  LinkedTo(more, twice, x, Resolve(e, x[1]))
  <2>1. x \in DOMAIN types /\ e \in Range(types[x].extends)
    BY <1>2 DEF Grown, SameBut
  <2>2. PICK y : y = Resolve(e, x[1])
    OBVIOUS
  <2>3. LinkedTo(types, twice, x, y)
    BY <2>1, <2>2 DEF Linked
  <2>4. y \in DOMAIN types /\ SameBut(types[y], more[y]) /\ y \in DOMAIN more
    BY <2>3 DEF LinkedTo, Grown
  <2>5. QED
    BY <2>2, <2>3, <2>4 DEF LinkedTo, SameBut
<1>3. QED
  BY <1>1, <1>2 DEF Sound, Linked

LEMMA MetBefore ==
    ASSUME NEW lib \in Libraries, NEW keys \in SUBSET DOMAIN lib, NEW key \in DOMAIN lib,
           NEW twice, \A k \in keys : lib[k].uri = lib[key].uri => lib[key].uri \in twice,
           NEW m \in DOMAIN lib[key].types, m \in Nat, NEW types,
           Sound(lib, Taken(lib, keys, key, m - 1), types), Qualified(lib[key], m) \in DOMAIN types
    PROVE  lib[key].uri \in twice
<1>1. PICK n : n = Qualified(lib[key], m)
  OBVIOUS
<1>2. PICK d \in Taken(lib, keys, key, m - 1) : n = NameAt(lib, d)
  BY <1>1 DEF Sound, Declared, Comes
<1>3. PICK p : p = <<key, m>>
  OBVIOUS
<1>4. p \in Places(lib, DOMAIN lib) /\ NameAt(lib, p) = n /\ p[1] = key /\ p[2] = m
  BY <1>1, <1>3 DEF Places, NameAt
<1>5. d \in Places(lib, DOMAIN lib) /\ (d[1] \in keys \/ (d[1] = key /\ d[2] <= m - 1)) /\ d[2] \in Nat
  BY DEF Taken, Places
<1>6. lib[d[1]].uri = lib[key].uri /\ (d[1] = key => d[2] = m)
  BY <1>2, <1>4, <1>5, PlacesApart
<1>7. QED
  BY <1>5, <1>6

LEMMA TypeRegistered ==
    ASSUME NEW lib \in Libraries, NEW keys \in SUBSET DOMAIN lib, NEW key \in DOMAIN lib,
           NEW twice, \A k \in keys : lib[k].uri = lib[key].uri => lib[key].uri \in twice,
           NEW m \in DOMAIN lib[key].types, m \in Nat, NEW acc,
           IsAcc(acc), acc.ok, Sound(lib, Taken(lib, keys, key, m - 1), acc.types), Linked(acc.types, twice)
    PROVE  LET next == RegisterType(acc, lib[key].types[m], lib[key])
           IN  /\ IsAcc(next) /\ Sound(lib, Taken(lib, keys, key, m), next.types)
               /\ Linked(next.types, twice) /\ Kept(acc.types, next.types, DeclaredIn(lib[key]))
               /\ next.ok => Qualified(lib[key], m) \in DOMAIN next.types
<1>1. PICK n : n = Qualified(lib[key], m)
  OBVIOUS
<1>2. PICK d : d = <<key, m>>
  OBVIOUS
<1>3. /\ d \in Places(lib, DOMAIN lib) /\ NameAt(lib, d) = n /\ TypeAt(lib, d) = lib[key].types[m]
      /\ d[1] = key /\ d[2] = m /\ d \in Taken(lib, keys, key, m)
  BY <1>1, <1>2 DEF Places, Taken, NameAt, TypeAt
<1>4. PICK extends : extends = TypeAt(lib, d).extends
  OBVIOUS
<1>5. n \in Names /\ extends \in Seq(Names)
  BY <1>3, <1>4, PlaceIsTyped
<1>6. PICK t : t = RegisteredType(lib[key].types[m], lib[key])
  OBVIOUS
<1>7. DOMAIN t = Fields /\ t.name = n /\ t.extends = extends /\ t.traits = <<>> /\ Comes(lib, d, n, t)
  BY <1>1, <1>3, <1>4, <1>6 DEF RegisteredType, Fields, Comes, Qualified
<1>8. PICK types : types = acc.types
  OBVIOUS
<1>9. \A x \in DOMAIN types : DOMAIN types[x] = Fields /\ types[x].traits \in Seq(Names)
  BY <1>8 DEF Sound, Declared
<1>10. acc = [ok |-> TRUE, types |-> types]
  BY <1>8 DEF IsAcc
<1>11. PICK linked : linked = LinkTraits(acc, n, extends)
  OBVIOUS
<1>12. /\ IsAcc(linked) /\ Grown(n, extends, types, linked.types)
       /\ linked.ok => \A e \in Range(extends) :
             Resolve(e, n[1]) \in DOMAIN types /\ n \in Range(linked.types[Resolve(e, n[1])].traits)
  BY <1>5, <1>9, <1>10, <1>11, LinksKept
<1>13. Sound(lib, Taken(lib, keys, key, m - 1), linked.types) /\ Linked(linked.types, twice)
  BY <1>3, <1>4, <1>8, <1>12, GrownKeeps
<1>14. \A e \in Taken(lib, keys, key, m - 1) : e \in Taken(lib, keys, key, m)
  <2>1. \A k \in Nat : k <= m - 1 => k <= m
    OBVIOUS
  <2>2. QED
    BY <2>1 DEF Taken, Places
<1>15. ASSUME NEW x \in DOMAIN linked.types PROVE Declared(lib, Taken(lib, keys, key, m), x, linked.types[x])
  BY <1>13, <1>14, <1>15 DEF Sound, Declared
<1>16. DOMAIN linked.types = DOMAIN types
  BY <1>12 DEF Grown
<1>17. PICK next : next = RegisterType(acc, lib[key].types[m], lib[key])
  OBVIOUS
<1>18. next = IF linked.ok THEN [linked EXCEPT !.types = Put(@, n, t)] ELSE linked
  BY <1>6, <1>7, <1>11, <1>17 DEF RegisterType
<1>22. Kept(types, linked.types, DeclaredIn(lib[key]))
  <2>1. n \in DeclaredIn(lib[key])
    BY <1>1 DEF DeclaredIn
  <2>2. QED
    BY <2>1, <1>12, <1>16 DEF Kept, Grown, SameBut
<1>19. CASE ~linked.ok
  BY <1>8, <1>12, <1>13, <1>15, <1>16, <1>17, <1>18, <1>19, <1>22 DEF Sound
<1>20. CASE linked.ok
  <2>1. PICK put : put = Put(linked.types, n, t)
    OBVIOUS
  <2>2. DOMAIN put = DOMAIN types \cup {n} /\ put[n] = t /\ \A x \in DOMAIN types : x # n => put[x] = linked.types[x]
    BY <2>1, <1>16 DEF Put
  <2>3. next = [ok |-> TRUE, types |-> put]
    BY <2>1, <1>12, <1>18, <1>20 DEF IsAcc
  <2>4. IsAcc(next) /\ next.types = put /\ n \in DOMAIN put /\ DOMAIN types \subseteq DOMAIN put
    BY <2>2, <2>3 DEF IsAcc
  <2>5. Declared(lib, Taken(lib, keys, key, m), n, t)
    <3>1. Range(<<>>) = {} /\ <<>> \in Seq(Names)
      BY DEF Range
    <3>2. t.props \in Seq(PropertyDefs(Qualifieds))
      BY <1>3, <1>6, PropertiesTyped
    <3>3. QED
      BY <3>1, <3>2, <1>3, <1>7 DEF Declared
  <2>6. Sound(lib, Taken(lib, keys, key, m), put)
    BY <2>2, <2>5, <1>15, <1>16 DEF Sound
  <2>7. n \in DOMAIN types => t.pkg \in twice
    <3>1. t.pkg = lib[key].uri
      BY <1>3, <1>7 DEF Comes
    <3>2. QED
      BY <3>1, <1>1, <1>13, <1>16, MetBefore
  <2>8. ASSUME NEW x \in DOMAIN put, NEW e \in Range(put[x].extends) PROVE LinkedTo(put, twice, x, Resolve(e, x[1]))
    <3>1. PICK y : y = Resolve(e, x[1])
      OBVIOUS
    <3>2. y \in DOMAIN types /\ (x \in Range(linked.types[y].traits) \/ linked.types[y].pkg \in twice)
      <4>1. CASE x = n
        BY <4>1, <3>1, <2>2, <2>8, <1>7, <1>12, <1>20
      <4>2. CASE x # n
        BY <4>2, <3>1, <2>2, <2>8, <1>13, <1>16 DEF Linked, LinkedTo
      <4>3. QED
        BY <4>1, <4>2
    <3>3. y \in DOMAIN put /\ (x \in Range(put[y].traits) \/ put[y].pkg \in twice)
      <4>1. CASE y = n
        BY <4>1, <3>2, <2>2, <2>7
      <4>2. CASE y # n
        BY <4>2, <3>2, <2>2
      <4>3. QED
        BY <4>1, <4>2
    <3>4. QED
      BY <3>1, <3>3 DEF LinkedTo
  <2>9. Kept(types, put, DeclaredIn(lib[key]))
    <3>1. n \in DeclaredIn(lib[key])
      BY <1>1 DEF DeclaredIn
    <3>2. QED
      BY <3>1, <2>2, <1>22 DEF Kept
  <2>10. QED
    BY <2>4, <2>6, <2>8, <2>9, <1>1, <1>8, <1>17 DEF Linked
<1>21. QED
  BY <1>19, <1>20

-----------------------------------------------------------------------------
(* The uris that were asked for more than once; another attempt adds to    *)
(* them those of the packages attempted before.                            *)
Twice == {u \in {library[k].uri : k \in DOMAIN library} : Cardinality(Attempts(u)) > 1}

LEMMA AttemptsFinite ==
    ASSUME attempts \in Seq(DOMAIN library), NEW u
    PROVE  IsFiniteSet(Attempts(u)) /\ Cardinality(Attempts(u)) \in Nat
<1>1. PICK n \in Nat : n = Len(attempts) /\ DOMAIN attempts = 1..n
  OBVIOUS
<1>2. IsFiniteSet(1..n)
  BY FS_Interval
<1>3. Attempts(u) \in SUBSET (1..n)
  BY <1>1 DEF Attempts
<1>4. IsFiniteSet(Attempts(u))
  BY <1>2, <1>3, FS_Subset
<1>5. QED
  BY <1>4, FS_CardinalityType

LEMMA AttemptAdded ==
    ASSUME attempts \in Seq(DOMAIN library), NEW key \in DOMAIN library,
           attempts' = Append(attempts, key), library' = library
    PROVE  /\ attempts' \in Seq(DOMAIN library) /\ Range(attempts') = Range(attempts) \cup {key}
           /\ Twice \subseteq Twice'
           /\ \A k \in Range(attempts) : library[k].uri = library[key].uri => library[key].uri \in Twice'
<1>1. PICK n \in Nat : n = Len(attempts) /\ DOMAIN attempts = 1..n
  OBVIOUS
<1>2. /\ attempts' \in Seq(DOMAIN library) /\ DOMAIN attempts' = 1..n + 1
      /\ attempts'[n + 1] = key /\ \A i \in 1..n : attempts'[i] = attempts[i]
  BY <1>1
<1>3. \A i \in 1..n : i \in 1..n + 1 /\ i # n + 1
  OBVIOUS
<1>4. ASSUME NEW u
      PROVE  /\ Attempts(u) \in SUBSET Attempts(u)'
             /\ IsFiniteSet(Attempts(u)') /\ Cardinality(Attempts(u)') \in Nat
  <2>1. PICK S : S = Attempts(u)'
    OBVIOUS
  <2>2. IsFiniteSet(1..n + 1)
    BY FS_Interval
  <2>3. S \in SUBSET (1..n + 1)
    BY <1>2, <2>1 DEF Attempts
  <2>4. IsFiniteSet(S) /\ Cardinality(S) \in Nat
    <3>1. IsFiniteSet(S)
      BY <2>2, <2>3, FS_Subset
    <3>2. QED
      BY <3>1, FS_CardinalityType
  <2>5. Attempts(u) \in SUBSET S
    BY <1>1, <1>2, <1>3, <2>1 DEF Attempts
  <2>6. QED
    BY <2>1, <2>4, <2>5
<1>5. Twice \subseteq Twice'
  <2>1. ASSUME NEW u \in Twice PROVE u \in Twice'
    <3>1. PICK S : S = Attempts(u)
      OBVIOUS
    <3>2. PICK R : R = Attempts(u)'
      OBVIOUS
    <3>3. S \in SUBSET R /\ IsFiniteSet(R) /\ Cardinality(R) \in Nat /\ Cardinality(S) \in Nat
      BY <3>1, <3>2, <1>4, AttemptsFinite
    <3>4. Cardinality(S) <= Cardinality(R)
      BY <3>3, FS_Subset
    <3>5. Cardinality(S) > 1
      BY <3>1 DEF Twice
    <3>6. Cardinality(R) > 1
      BY <3>3, <3>4, <3>5
    <3>7. QED
      BY <3>2, <3>6 DEF Twice
  <2>2. QED
    BY <2>1
<1>6. ASSUME NEW k \in Range(attempts), library[k].uri = library[key].uri
      PROVE  library[key].uri \in Twice'
  <2>1. PICK u : u = library[key].uri
    OBVIOUS
  <2>2. PICK R : R = Attempts(u)'
    OBVIOUS
  <2>3. PICK i \in 1..n : attempts[i] = k
    BY <1>1 DEF Range
  <2>4. i \in R /\ n + 1 \in R /\ i # n + 1
    BY <1>2, <1>3, <1>6, <2>1, <2>2, <2>3 DEF Attempts
  <2>5. IsFiniteSet(R) /\ Cardinality(R) \in Nat
    BY <2>2, <1>4
  <2>6. PICK S : S = R \ {i}
    OBVIOUS
  <2>7. IsFiniteSet(S) /\ Cardinality(S) = Cardinality(R) - 1
    BY <2>4, <2>5, <2>6, FS_RemoveElement
  <2>8. Cardinality(S) \in Nat /\ Cardinality(S) # 0
    <3>1. S # {}
      BY <2>4, <2>6
    <3>2. QED
      BY <3>1, <2>7, FS_CardinalityType, FS_EmptySet
  <2>9. Cardinality(R) > 1
    BY <2>5, <2>7, <2>8
  <2>10. QED
    BY <2>1, <2>2, <2>9 DEF Twice
<1>7. Range(attempts') = Range(attempts) \cup {key}
  BY RangeAppend
<1>8. QED
  BY <1>2, <1>5, <1>6, <1>7

RegistryInv ==
    /\ library \in Libraries /\ attempts \in Seq(DOMAIN library)
    /\ Sound(library, Places(library, Range(attempts)), typeMap) /\ Linked(typeMap, Twice)
    /\ \A i \in DOMAIN packages : \A j \in DOMAIN library[packages[i]].types :
          Qualified(library[packages[i]], j) \in DOMAIN typeMap

LEMMA TypesRegistered ==
    ASSUME NEW lib \in Libraries, NEW keys \in SUBSET DOMAIN lib, NEW key \in DOMAIN lib,
           NEW twice, \A k \in keys : lib[k].uri = lib[key].uri => lib[key].uri \in twice,
           NEW types, Sound(lib, Places(lib, keys), types), Linked(types, twice)
    PROVE  LET r == RegisterTypes(types, lib[key])
           IN  /\ Sound(lib, Places(lib, keys \cup {key}), r.types) /\ Linked(r.types, twice)
               /\ Kept(types, r.types, DeclaredIn(lib[key]))
               /\ r.ok => \A j \in DOMAIN lib[key].types : Qualified(lib[key], j) \in DOMAIN r.types
<1>1. PICK pkg : pkg = lib[key]
  OBVIOUS
<1>2. WellFormed(pkg) /\ pkg.types \in Seq(Range(pkg.types))
  BY <1>1, LibrariesAssumption DEF WellFormed
<1>3. PICK n \in Nat : n = Len(pkg.types) /\ DOMAIN pkg.types = 1..n
  BY <1>2
<1>4. PICK k : k = [lib |-> lib, keys |-> keys, key |-> key, twice |-> twice, base |-> types]
  OBVIOUS
<1>5. k.lib = lib /\ k.keys = keys /\ k.key = key /\ k.twice = twice /\ k.base = types
  BY <1>4
<1>6. PICK start : start = [ok |-> TRUE, types |-> types]
  OBVIOUS
<1>7. TypesUpTo(<<k, 0>>, start)
  <2>1. IsAcc(start) /\ start.types = types
    BY <1>6 DEF IsAcc
  <2>2. Sound(lib, Taken(lib, keys, key, 0), types)
    <3>1. Places(lib, keys) \subseteq Taken(lib, keys, key, 0)
      BY DEF Taken
    <3>2. QED
      BY <3>1 DEF Sound, Declared
  <2>3. \A c : c = <<k, 0>> => c[1] = k /\ c[2] = 0
    OBVIOUS
  <2>4. Kept(types, types, DeclaredIn(lib[key]))
    BY DEF Kept
  <2>5. QED
    BY <2>1, <2>2, <2>3, <2>4, <1>5 DEF TypesUpTo
<1>8. ASSUME NEW a, NEW m \in 1..Len(pkg.types), TypesUpTo(<<k, m - 1>>, a)
      PROVE  TypesUpTo(<<k, m>>, Registering(pkg, a, pkg.types[m]))
  <2>1. PICK b : b = Registering(pkg, a, pkg.types[m])
    OBVIOUS
  <2>2. /\ IsAcc(a) /\ Sound(lib, Taken(lib, keys, key, m - 1), a.types)
        /\ Linked(a.types, twice) /\ Kept(types, a.types, DeclaredIn(lib[key]))
        /\ a.ok => \A i \in 1..m - 1 : Qualified(lib[key], i) \in DOMAIN a.types
    BY <1>5, <1>8 DEF TypesUpTo
  <2>3. /\ IsAcc(b) /\ Sound(lib, Taken(lib, keys, key, m), b.types)
        /\ Linked(b.types, twice) /\ Kept(types, b.types, DeclaredIn(lib[key]))
        /\ b.ok => \A i \in 1..m : Qualified(lib[key], i) \in DOMAIN b.types
    <3>1. CASE ~a.ok
      <4>1. b = a
        BY <3>1, <2>1 DEF Registering
      <4>2. \A d \in Taken(lib, keys, key, m - 1) : d \in Taken(lib, keys, key, m)
        <5>1. \A i \in Nat : i <= m - 1 => i <= m
          OBVIOUS
        <5>2. QED
          BY <5>1 DEF Taken, Places
      <4>3. QED
        BY <4>1, <4>2, <3>1, <2>2 DEF Sound, Declared
    <3>2. CASE a.ok
      <4>1. b = RegisterType(a, lib[key].types[m], lib[key])
        BY <3>2, <2>1, <1>1 DEF Registering
      <4>2. m \in DOMAIN lib[key].types /\ m \in Nat
        BY <1>1, <1>3
      <4>3. /\ IsAcc(b) /\ Sound(lib, Taken(lib, keys, key, m), b.types)
            /\ Linked(b.types, twice) /\ Kept(a.types, b.types, DeclaredIn(lib[key]))
            /\ b.ok => Qualified(lib[key], m) \in DOMAIN b.types
        BY <4>1, <4>2, <3>2, <2>2, TypeRegistered
      <4>4. \A i \in 1..m : i = m \/ i \in 1..m - 1
        OBVIOUS
      <4>5. Kept(types, b.types, DeclaredIn(lib[key]))
        BY <4>3, <2>2, KeptTwice
      <4>6. ASSUME b.ok, NEW i \in 1..m PROVE Qualified(lib[key], i) \in DOMAIN b.types
        BY <4>3, <4>4, <4>6, <3>2, <2>2 DEF Kept
      <4>7. QED
        BY <4>3, <4>5, <4>6
    <3>3. QED
      BY <3>1, <3>2
  <2>4. QED
    BY <2>1, <2>3, <1>5 DEF TypesUpTo
<1>9. TypesUpTo(<<k, Len(pkg.types)>>, T!Fold(pkg, start, pkg.types))
  BY <1>2, <1>7, <1>8, T!FoldCounts
<1>10. PICK r : r = RegisterTypes(types, pkg)
  OBVIOUS
<1>11. TypesUpTo(<<k, n>>, r)
  BY <1>3, <1>6, <1>9, <1>10, RegisterFold
<1>12. Taken(lib, keys, key, n) \subseteq Places(lib, keys \cup {key})
  BY DEF Taken, Places
<1>13. /\ Sound(lib, Taken(lib, keys, key, n), r.types) /\ Linked(r.types, twice)
       /\ Kept(types, r.types, DeclaredIn(lib[key]))
       /\ r.ok => \A j \in 1..n : Qualified(lib[key], j) \in DOMAIN r.types
  <2>1. \A c : c = <<k, n>> => c[1] = k /\ c[2] = n
    OBVIOUS
  <2>2. QED
    BY <2>1, <1>5, <1>11 DEF TypesUpTo
<1>14. Sound(lib, Places(lib, keys \cup {key}), r.types)
  BY <1>12, <1>13 DEF Sound, Declared
<1>15. QED
  BY <1>1, <1>3, <1>10, <1>13, <1>14

LEMMA PackageRegistered ==
    ASSUME RegistryInv, NEW key \in DOMAIN library, RegisterPackage(key)
    PROVE  RegistryInv' /\ Kept(typeMap, typeMap', DeclaredIn(library[key]))
<1>1. library' = library /\ attempts' = Append(attempts, key)
  BY DEF RegisterPackage
<1>2. PICK lib \in Libraries : lib = library
  BY DEF RegistryInv
<1>3. PICK keys \in SUBSET DOMAIN lib : keys = Range(attempts)
  <2>1. attempts \in Seq(DOMAIN lib)
    BY <1>2 DEF RegistryInv
  <2>2. Range(attempts) \in SUBSET DOMAIN lib
    BY <2>1 DEF Range
  <2>3. QED
    BY <2>2
<1>4. PICK twice : twice = Twice'
  OBVIOUS
<1>5. /\ attempts' \in Seq(DOMAIN lib) /\ Range(attempts') = keys \cup {key} /\ Twice \subseteq twice
      /\ \A k \in keys : lib[k].uri = lib[key].uri => lib[key].uri \in twice
  BY <1>1, <1>2, <1>3, <1>4, AttemptAdded DEF RegistryInv
<1>6. Sound(lib, Places(lib, keys), typeMap) /\ Linked(typeMap, twice)
  BY <1>2, <1>3, <1>5 DEF RegistryInv, Linked, LinkedTo
<1>7. PICK r : r = RegisterTypes(typeMap, lib[key])
  OBVIOUS
<1>8. /\ Sound(lib, Places(lib, keys \cup {key}), r.types) /\ Linked(r.types, twice)
      /\ Kept(typeMap, r.types, DeclaredIn(lib[key])) /\ DOMAIN typeMap \subseteq DOMAIN r.types
      /\ r.ok => \A j \in DOMAIN lib[key].types : Qualified(lib[key], j) \in DOMAIN r.types
  BY <1>2, <1>5, <1>6, <1>7, TypesRegistered DEF Kept
<1>9. \/ typeMap' = typeMap /\ packages' = packages
      \/ typeMap' = r.types /\ packages' = IF r.ok THEN Append(packages, key) ELSE packages
  BY <1>2, <1>7 DEF RegisterPackage
<1>10. Sound(lib, Places(lib, keys \cup {key}), typeMap') /\ Linked(typeMap', twice)
  <2>1. Places(lib, keys) \subseteq Places(lib, keys \cup {key})
    BY DEF Places
  <2>2. Sound(lib, Places(lib, keys \cup {key}), typeMap)
    BY <2>1, <1>6 DEF Sound, Declared
  <2>3. QED
    BY <2>2, <1>6, <1>8, <1>9
<1>11. ASSUME NEW i \in DOMAIN packages', NEW j \in DOMAIN lib[packages'[i]].types
       PROVE  Qualified(lib[packages'[i]], j) \in DOMAIN typeMap'
  <2>1. \A k \in DOMAIN packages : \A m \in DOMAIN lib[packages[k]].types :
           Qualified(lib[packages[k]], m) \in DOMAIN typeMap
    BY <1>2 DEF RegistryInv
  <2>2. CASE packages' = packages
    BY <2>1, <2>2, <1>8, <1>9, <1>11
  <2>3. CASE packages' = Append(packages, key) /\ typeMap' = r.types /\ r.ok
    <3>1. (i \in DOMAIN packages /\ packages'[i] = packages[i]) \/ packages'[i] = key
      BY <2>3, <1>11 DEF RegistryInv
    <3>2. QED
      BY <3>1, <2>1, <2>3, <1>8, <1>11
  <2>4. QED
    BY <2>2, <2>3, <1>9
<1>12. Kept(typeMap, typeMap', DeclaredIn(lib[key]))
  BY <1>8, <1>9 DEF Kept
<1>13. QED
  BY <1>1, <1>2, <1>4, <1>5, <1>10, <1>11, <1>12 DEF RegistryInv

LEMMA RegistryStarts == Init => RegistryInv
<1>1. SUFFICES ASSUME Init PROVE RegistryInv
  OBVIOUS
<1>2. packages = <<>> /\ attempts = <<>> /\ library \in Libraries
  BY <1>1 DEF Init
<1>3. DOMAIN typeMap = {}
  BY <1>1 DEF Init
<1>4. QED
  BY <1>2, <1>3 DEF RegistryInv, Sound, Linked

LEMMA RegistryKept ==
    ASSUME RegistryInv, [Next]_vars
    PROVE  RegistryInv'
<1>1. CASE \E key \in DOMAIN library : RegisterPackage(key)
  BY <1>1, PackageRegistered
<1>2. CASE UNCHANGED <<library, typeMap, packages, attempts>>
  <2>1. Twice' = Twice
    BY <1>2 DEF Twice, Attempts
  <2>2. QED
    BY <2>1, <1>2 DEF RegistryInv
<1>3. [Next]_vars => (\E key \in DOMAIN library : RegisterPackage(key)) \/ UNCHANGED <<library, typeMap, packages, attempts>>
  BY DEF Next, vars, Describe, EnterType, VisitType, LeaveType, Finish
<1>4. QED
  BY <1>1, <1>2, <1>3

(* Every type of a registered package is known and is a trait of what it   *)
(* extends, whatever registration failed before, unless the package of the *)
(* extended type was registered anew.                                      *)
THEOREM ExtensionsStayLinked == Spec => []ExtensionsLinked
<1>1. RegistryInv => ExtensionsLinked
  <2>1. SUFFICES ASSUME RegistryInv, NEW i \in DOMAIN packages, NEW j \in DOMAIN library[packages[i]].types,
                        NEW name, name = Qualified(library[packages[i]], j)
                 PROVE  /\ name \in DOMAIN typeMap
                        /\ \A e \in Range(typeMap[name].extends) :
                              LET x == Resolve(e, name[1])
                              IN  /\ x \in DOMAIN typeMap
                                  /\ \/ Contains(typeMap[x].traits, name)
                                     \/ Cardinality(Attempts(typeMap[x].pkg)) > 1
    BY DEF ExtensionsLinked
  <2>2. name \in DOMAIN typeMap
    BY <2>1 DEF RegistryInv
  <2>3. ASSUME NEW e \in Range(typeMap[name].extends), NEW x, x = Resolve(e, name[1])
        PROVE  /\ x \in DOMAIN typeMap
               /\ Contains(typeMap[x].traits, name) \/ Cardinality(Attempts(typeMap[x].pkg)) > 1
    <3>1. LinkedTo(typeMap, Twice, name, x)
      BY <2>1, <2>2, <2>3 DEF RegistryInv, Linked
    <3>2. x \in DOMAIN typeMap /\ typeMap[x].traits \in Seq(Names)
      BY <3>1, <2>1 DEF LinkedTo, RegistryInv, Sound, Declared
    <3>3. name \in Range(typeMap[x].traits) => Contains(typeMap[x].traits, name)
      BY <3>2 DEF Range, Contains
    <3>4. QED
      BY <3>1, <3>2, <3>3 DEF LinkedTo, Twice
  <2>4. QED
    BY <2>2, <2>3
<1>2. QED
  BY <1>1, RegistryStarts, RegistryKept, PTL DEF Spec

-----------------------------------------------------------------------------
(* What the walk asks for at a type.                                       *)
SupersIn(types, n) == Relative(TypeIn(types, n).supers, n[1])
TraitsIn(types, n) == Relative(TypeIn(types, n).traits, n[1])

(* A walk can be told of the types of a registry of a library.             *)
Registered(lib, types) == lib \in Libraries /\ Sound(lib, Places(lib, DOMAIN lib), types)

Walkable(types, n) ==
    /\ n \in Names /\ \A t \in BOOLEAN : <<n, t>> \in Walked(types)
    /\ TypeIn(types, n).name = n
    /\ SupersIn(types, n) \in Seq(Names) /\ TraitsIn(types, n) \in Seq(Names)

LEMMA RelativeTyped ==
    ASSUME NEW names \in Seq(Names), NEW prefix \in STRING
    PROVE  /\ Relative(names, prefix) \in Seq(Names) /\ DOMAIN Relative(names, prefix) = DOMAIN names
           /\ \A i \in DOMAIN names : names[i][1] # "" => Relative(names, prefix)[i] = names[i]
<1>1. PICK n \in Nat : n = Len(names) /\ DOMAIN names = 1..n
  OBVIOUS
<1>2. PICK r : r = Relative(names, prefix)
  OBVIOUS
<1>3. r = [i \in 1..n |-> IF IsBuiltIn(names[i]) THEN names[i] ELSE Resolve(names[i], prefix)]
  BY <1>1, <1>2 DEF Relative
<1>4. ASSUME NEW i \in 1..n PROVE r[i] \in Names /\ (names[i][1] # "" => r[i] = names[i])
  <2>1. names[i] \in Names
    BY <1>1
  <2>2. Resolve(names[i], prefix) \in Names /\ (names[i][1] # "" => Resolve(names[i], prefix) = names[i])
    BY <2>1, NameIsTyped DEF Resolve
  <2>3. QED
    BY <2>1, <2>2, <1>3
<1>5. r = [i \in 1..n |-> r[i]]
  BY <1>3
<1>6. r \in Seq(Names) /\ DOMAIN r = 1..n
  <2>1. \A i \in 1..n : r[i] \in Names
    BY <1>4
  <2>2. QED
    BY <2>1, <1>5
<1>7. QED
  BY <1>1, <1>2, <1>4, <1>6

LEMMA BuiltInWalkable ==
    ASSUME NEW types, NEW n \in Names, IsBuiltIn(n)
    PROVE  Walkable(types, n) /\ SupersIn(types, n) = <<>> /\ TraitsIn(types, n) = <<>>
<1>1. n = Name("", n[2]) /\ n[2] \in BuiltIn /\ n[1] \in STRING
  <2>1. n = <<n[1], n[2]>> /\ n[1] \in STRING
    BY DEF Names
  <2>2. n[1] = "" /\ n[2] \in BuiltIn
    BY DEF IsBuiltIn
  <2>3. QED
    BY <2>1, <2>2 DEF Name
<1>2. PICK t : t = TypeIn(types, n)
  OBVIOUS
<1>3. t.supers = <<>> /\ t.traits = <<>> /\ t.name = n
  BY <1>2 DEF TypeIn, BuiltInType
<1>4. <<>> \in Seq(Names)
  OBVIOUS
<1>5. Relative(<<>>, n[1]) = <<>>
  BY DEF Relative
<1>6. \A b \in BOOLEAN : <<n, b>> \in Walked(types)
  BY <1>1 DEF Walked
<1>7. QED
  BY <1>2, <1>3, <1>4, <1>5, <1>6 DEF Walkable, SupersIn, TraitsIn

(* A registered type is declared in the library, as are its traits, which  *)
(* extend it.                                                              *)
LEMMA DeclaredWalkable ==
    ASSUME NEW lib, NEW types, Registered(lib, types), NEW n \in DOMAIN types
    PROVE  /\ n \in TypeNamesOf(lib) /\ ~IsBuiltIn(n) /\ Walkable(types, n)
           /\ \A m \in Range(SupersIn(types, n)) \cup Range(TraitsIn(types, n)) : Leads(lib, n, m)
<1>1. lib \in Libraries /\ Declared(lib, Places(lib, DOMAIN lib), n, types[n])
  BY DEF Registered, Sound
<1>2. PICK d \in Places(lib, DOMAIN lib) : Comes(lib, d, n, types[n])
  BY <1>1 DEF Declared
<1>3. n \in Names /\ n[1] # "" /\ n[1] \in STRING /\ TypeAt(lib, d).supers \in Seq(Names) /\ n = NameAt(lib, d)
  BY <1>1, <1>2, PlaceIsTyped DEF Comes, Names
<1>4. ~IsBuiltIn(n) /\ TypeIn(types, n) = types[n]
  BY <1>3 DEF IsBuiltIn, TypeIn
<1>5. PICK supers \in Seq(Names) : supers = TypeAt(lib, d).supers
  BY <1>3
<1>6. PICK traits \in Seq(Names) : traits = types[n].traits
  BY <1>1 DEF Declared
<1>7. SupersIn(types, n) = Relative(supers, n[1]) /\ TraitsIn(types, n) = Relative(traits, n[1]) /\ types[n].name = n
  BY <1>1, <1>2, <1>4, <1>5, <1>6 DEF SupersIn, TraitsIn, Comes, Declared
<1>8. Walkable(types, n)
  <2>1. \A t \in BOOLEAN : <<n, t>> \in Walked(types)
    BY DEF Walked
  <2>2. QED
    BY <2>1, <1>3, <1>4, <1>7, RelativeTyped DEF Walkable
<1>9. d[1] \in DOMAIN lib /\ d[2] \in DOMAIN lib[d[1]].types
  BY DEF Places
<1>10. n \in TypeNamesOf(lib)
  <2>1. PICK S : S = {Qualified(lib[d[1]], i) : i \in DOMAIN lib[d[1]].types}
    OBVIOUS
  <2>2. n \in S
    BY <2>1, <1>3, <1>9 DEF NameAt
  <2>3. S \in {{Qualified(lib[k], i) : i \in DOMAIN lib[k].types} : k \in DOMAIN lib}
    BY <2>1, <1>9
  <2>4. QED
    BY <2>2, <2>3 DEF TypeNamesOf
<1>11. ASSUME NEW m \in Range(SupersIn(types, n)) PROVE Leads(lib, n, m)
  BY <1>3, <1>5, <1>7, <1>9, <1>11 DEF Leads, NameAt, TypeAt
<1>12. ASSUME NEW m \in Range(TraitsIn(types, n)) PROVE Leads(lib, n, m)
  <2>1. PICK i \in DOMAIN traits : m = Relative(traits, n[1])[i]
    <3>1. PICK r : r = Relative(traits, n[1])
      OBVIOUS
    <3>2. DOMAIN r = DOMAIN traits
      BY <3>1, <1>3, RelativeTyped
    <3>3. m \in Range(r)
      BY <3>1, <1>7, <1>12
    <3>4. QED
      BY <3>1, <3>2, <3>3 DEF Range
  <2>2. traits[i] \in Range(types[n].traits)
    BY <1>6 DEF Range
  <2>3. PICK e \in Places(lib, DOMAIN lib) : traits[i] = NameAt(lib, e) /\ Extends(lib, e, n)
    BY <2>2, <1>1 DEF Declared
  <2>4. traits[i][1] # ""
    BY <2>3, <1>1, PlaceIsTyped
  <2>5. m = NameAt(lib, e)
    BY <2>1, <2>3, <2>4, <1>3, RelativeTyped
  <2>6. e[1] \in DOMAIN lib /\ e[2] \in DOMAIN lib[e[1]].types
    BY DEF Places
  <2>7. QED
    BY <2>3, <2>5, <2>6 DEF Leads, Extends, NameAt, TypeAt
<1>13. QED
  BY <1>4, <1>8, <1>10, <1>11, <1>12

LEMMA KnownWalkable ==
    ASSUME NEW lib, NEW types, Registered(lib, types), NEW n \in Names, KnownIn(types, n)
    PROVE  Walkable(types, n)
BY BuiltInWalkable, DeclaredWalkable DEF KnownIn

LEMMA WalkedKnown ==
    ASSUME NEW lib, NEW types, Registered(lib, types), NEW call \in Walked(types)
    PROVE  /\ call = <<call[1], call[2]>> /\ call[1] \in Names /\ call[2] \in BOOLEAN
           /\ KnownIn(types, call[1]) /\ Walkable(types, call[1])
<1>0. PICK names : names = DOMAIN types \cup {Name("", b) : b \in BuiltIn}
  OBVIOUS
<1>1. PICK n \in names, t \in BOOLEAN : call = <<n, t>>
  <2>1. call \in names \X BOOLEAN
    BY <1>0 DEF Walked
  <2>2. call = <<call[1], call[2]>> /\ call[1] \in names /\ call[2] \in BOOLEAN
    BY <2>1
  <2>3. QED
    BY <2>2
<1>2. t \in BOOLEAN /\ (n \in DOMAIN types \/ \E b \in BuiltIn : n = Name("", b))
  BY <1>0, <1>1
<1>3. CASE n \in DOMAIN types
  BY <1>1, <1>2, <1>3, DeclaredWalkable DEF KnownIn, Walkable
<1>4. ASSUME NEW b \in BuiltIn, n = Name("", b)
      PROVE  n \in Names /\ IsBuiltIn(n)
  <2>1. b \in STRING /\ "" \in STRING
    <3>1. BuiltIn \cup {"", "none"} \subseteq STRING
      BY LibrariesAssumption
    <3>2. QED
      BY <3>1
  <2>2. n = <<"", b>> /\ n[1] = "" /\ n[2] = b
    BY <1>4 DEF Name
  <2>3. QED
    BY <2>1, <2>2, <1>4 DEF Names, IsBuiltIn
<1>5. CASE \E b \in BuiltIn : n = Name("", b)
  BY <1>1, <1>2, <1>4, <1>5, BuiltInWalkable DEF KnownIn
<1>6. QED
  BY <1>2, <1>3, <1>5

-----------------------------------------------------------------------------
(* The recursion has a solution.                                           *)
Step(types, order, call) == Traversal(types, order, call[1], call[2])
Asks(types, edge) ==
    LET n == edge[1][1]
    IN  \/ edge[2][1] \in Range(SupersIn(types, n)) /\ edge[2][2] = edge[1][2]
        \/ edge[2][1] \in Range(TraitsIn(types, n)) /\ edge[2][2] = TRUE

R == INSTANCE Folding WITH Op <- Step, Holds <- Asks

LEMMA CallsSame ==
    ASSUME NEW types, NEW f, NEW g, NEW names \in Seq(Names), NEW t \in BOOLEAN,
           \A n \in Range(names) : KnownIn(types, n) => f[<<n, t>>] = g[<<n, t>>]
    PROVE  Calls(types, f, names, t) = Calls(types, g, names, t)
<1>1. ASSUME NEW i \in DOMAIN names
      PROVE  Call(types, f, names[i], t) = Call(types, g, names[i], t)
  <2>1. names[i] \in Range(names)
    BY DEF Range
  <2>2. QED
    BY <2>1 DEF Call
<1>2. QED
  BY <1>1 DEF Calls

LEMMA AsksBelow ==
    ASSUME NEW lib, NEW types, Registered(lib, types), NEW n \in Names, NEW t \in BOOLEAN, Walkable(types, n)
    PROVE  /\ \A m \in Range(SupersIn(types, n)) :
                 m \in Names /\ (KnownIn(types, m) => <<m, t>> \in R!Below(types, Walked(types), <<n, t>>))
           /\ \A m \in Range(TraitsIn(types, n)) :
                 m \in Names /\ (KnownIn(types, m) => <<m, TRUE>> \in R!Below(types, Walked(types), <<n, t>>))
<1>1. SupersIn(types, n) \in Seq(Names) /\ TraitsIn(types, n) \in Seq(Names)
  BY DEF Walkable
<1>2. \A m \in Range(SupersIn(types, n)) \cup Range(TraitsIn(types, n)) : m \in Names
  BY <1>1 DEF Range
<1>3. ASSUME NEW m \in Names, NEW u \in BOOLEAN, KnownIn(types, m), Asks(types, <<<<n, t>>, <<m, u>>>>)
      PROVE  <<m, u>> \in R!Below(types, Walked(types), <<n, t>>)
  <2>1. <<m, u>> \in Walked(types)
    BY <1>3, KnownWalkable DEF Walkable
  <2>2. QED
    BY <2>1, <1>3 DEF R!Below
<1>4. ASSUME NEW m \in Range(SupersIn(types, n)) PROVE Asks(types, <<<<n, t>>, <<m, t>>>>)
  BY <1>4 DEF Asks
<1>5. ASSUME NEW m \in Range(TraitsIn(types, n)) PROVE Asks(types, <<<<n, t>>, <<m, TRUE>>>>)
  BY <1>5 DEF Asks
<1>6. QED
  BY <1>2, <1>3, <1>4, <1>5

LEMMA WalkGrounded ==
    ASSUME NEW lib, NEW types, Registered(lib, types)
    PROVE  R!Grounded(types, Walked(types))
<1>1. ASSUME NEW S \in SUBSET Walked(types), S # {}
      PROVE  \E p \in S : R!Below(types, Walked(types), p) \cap S = {}
  <2>1. CASE \E p \in S : IsBuiltIn(p[1])
    <3>1. PICK p \in S : IsBuiltIn(p[1])
      BY <2>1
    <3>2. SupersIn(types, p[1]) = <<>> /\ TraitsIn(types, p[1]) = <<>>
      BY <3>1, WalkedKnown, BuiltInWalkable
    <3>3. Range(<<>>) = {}
      BY DEF Range
    <3>4. R!Below(types, Walked(types), p) = {}
      BY <3>2, <3>3 DEF R!Below, Asks
    <3>5. QED
      BY <3>4
  <2>2. CASE \A p \in S : ~IsBuiltIn(p[1])
    <3>1. PICK names : names = {p[1] : p \in S}
      OBVIOUS
    <3>2. \A n \in names : n \in DOMAIN types
      BY <3>1, <2>2, WalkedKnown DEF KnownIn
    <3>3. names \in SUBSET TypeNamesOf(lib) /\ names # {}
      BY <3>1, <3>2, <1>1, DeclaredWalkable
    <3>4. PICK n \in names : \A m \in names : ~Leads(lib, n, m)
      BY <3>3, LibrariesAssumption DEF Registered
    <3>5. PICK p \in S : n = p[1]
      BY <3>1
    <3>6. ASSUME NEW q \in S, Asks(types, <<p, q>>) PROVE FALSE
      <4>1. q[1] \in Range(SupersIn(types, n)) \cup Range(TraitsIn(types, n))
        BY <3>5, <3>6 DEF Asks
      <4>2. Leads(lib, n, q[1])
        BY <4>1, <3>2, DeclaredWalkable
      <4>3. QED
        BY <4>2, <3>1, <3>4
    <3>7. QED
      BY <3>6 DEF R!Below
  <2>3. QED
    BY <2>1, <2>2
<1>2. QED
  BY <1>1 DEF R!Grounded

LEMMA OrderSolves ==
    ASSUME NEW lib, NEW types, Registered(lib, types)
    PROVE  Order(types) = [call \in Walked(types) |-> Traversal(types, Order(types), call[1], call[2])]
<1>1. R!Local(types, Walked(types))
  <2>1. ASSUME NEW p \in Walked(types), NEW f, NEW g, \A q \in R!Below(types, Walked(types), p) : f[q] = g[q]
        PROVE  Step(types, f, p) = Step(types, g, p)
    <3>1. PICK n \in Names, t \in BOOLEAN : p = <<n, t>> /\ p[1] = n /\ p[2] = t /\ Walkable(types, n)
      BY WalkedKnown
    <3>2. SupersIn(types, n) \in Seq(Names) /\ TraitsIn(types, n) \in Seq(Names)
      BY <3>1 DEF Walkable
    <3>3. \A m \in Range(SupersIn(types, n)) : KnownIn(types, m) => f[<<m, t>>] = g[<<m, t>>]
      BY <2>1, <3>1, AsksBelow
    <3>4. \A m \in Range(TraitsIn(types, n)) : KnownIn(types, m) => f[<<m, TRUE>>] = g[<<m, TRUE>>]
      BY <2>1, <3>1, AsksBelow
    <3>5. Calls(types, f, SupersIn(types, n), t) = Calls(types, g, SupersIn(types, n), t)
      BY <3>2, <3>3, CallsSame
    <3>6. Calls(types, f, TraitsIn(types, n), TRUE) = Calls(types, g, TraitsIn(types, n), TRUE)
      BY <3>2, <3>4, CallsSame
    <3>7. QED
      BY <3>1, <3>5, <3>6 DEF Step, Traversal, SupersIn, TraitsIn
  <2>2. QED
    BY <2>1 DEF R!Local
<1>2. PICK f : R!Recurs(types, Walked(types), f)
  BY <1>1, WalkGrounded, R!RecursionExists
<1>3. f = [call \in Walked(types) |-> Traversal(types, f, call[1], call[2])]
  BY <1>2 DEF R!Recurs, Step
<1>4. QED
  BY <1>3 DEF Order

-----------------------------------------------------------------------------
(* What is visited is a sequence of types with their flag.                 *)
Visit == Names \X BOOLEAN

Follow(c, visits, call) == visits \o call
AreVisits(c, visits) == visits \in Seq(Visit)

V == INSTANCE Folding WITH Op <- Follow, Holds <- AreVisits

LEMMA InTurnFold ==
    ASSUME NEW calls
    PROVE  InTurn(calls) = V!Fold({}, <<>>, calls)
BY Zenon DEF InTurn, Follow, V!Fold, FoldLeft, MapThenFoldSet, Max, V!FoldLeft, V!MapThenFoldSet, V!Max

LEMMA InTurnTyped ==
    ASSUME NEW calls \in Seq(Seq(Visit))
    PROVE  InTurn(calls) \in Seq(Visit)
<1>1. \A a : \A e \in Seq(Visit) : AreVisits({}, a) => AreVisits({}, Follow({}, a, e))
  BY ConcatProperties DEF AreVisits, Follow
<1>2. AreVisits({}, <<>>)
  BY DEF AreVisits
<1>3. AreVisits({}, V!Fold({}, <<>>, calls))
  BY <1>1, <1>2, V!FoldKeeps
<1>4. QED
  BY <1>3, InTurnFold DEF AreVisits

LEMMA OneVisit ==
    ASSUME NEW n \in Names, NEW t \in BOOLEAN
    PROVE  <<n, ~t>> \in Visit /\ <<<<n, t>>>> \in Seq(Visit) /\ <<<<n, ~t>>>> \in Seq(Visit)
<1>1. <<n, t>> \in Visit /\ <<n, ~t>> \in Visit
  BY DEF Visit
<1>2. QED
  BY <1>1

LEMMA NoTypeNamed == NoType \in Names
<1>1. BuiltIn \cup {"", "none"} \subseteq STRING
  BY LibrariesAssumption
<1>2. "" \in STRING /\ "none" \in STRING
  BY <1>1
<1>3. QED
  BY <1>2 DEF NoType, Name, Names

LEMMA CallTyped ==
    ASSUME NEW types, NEW f, NEW n \in Names, NEW t \in BOOLEAN, KnownIn(types, n) => f[<<n, t>>] \in Seq(Visit)
    PROVE  Call(types, f, n, t) \in Seq(Visit)
BY NoTypeNamed, OneVisit DEF Call

LEMMA CallsTyped ==
    ASSUME NEW types, NEW f, NEW names \in Seq(Names), NEW t \in BOOLEAN,
           \A n \in Range(names) : KnownIn(types, n) => f[<<n, t>>] \in Seq(Visit)
    PROVE  /\ Calls(types, f, names, t) \in Seq(Seq(Visit)) /\ Len(Calls(types, f, names, t)) = Len(names)
           /\ \A i \in 1..Len(names) : Calls(types, f, names, t)[i] = Call(types, f, names[i], t)
<1>1. PICK n \in Nat : n = Len(names) /\ DOMAIN names = 1..n
  OBVIOUS
<1>2. PICK c : c = Calls(types, f, names, t)
  OBVIOUS
<1>3. c = [i \in 1..n |-> Call(types, f, names[i], t)]
  BY <1>1, <1>2 DEF Calls
<1>4. ASSUME NEW i \in 1..n PROVE Call(types, f, names[i], t) \in Seq(Visit)
  <2>1. names[i] \in Range(names) /\ names[i] \in Names
    BY <1>1 DEF Range
  <2>2. QED
    BY <2>1, CallTyped
<1>5. \A i \in 1..n : c[i] = Call(types, f, names[i], t)
  BY <1>3
<1>6. c \in Seq(Seq(Visit)) /\ Len(c) = n
  <2>1. PICK S : S = Seq(Visit)
    OBVIOUS
  <2>2. \A i \in 1..n : c[i] \in S
    BY <2>1, <1>4, <1>5
  <2>3. c = [i \in 1..n |-> c[i]]
    BY <1>3
  <2>4. c \in Seq(S) /\ Len(c) = n
    BY <2>2, <2>3
  <2>5. QED
    BY <2>1, <2>4
<1>7. QED
  BY <1>1, <1>2, <1>5, <1>6

Ordered(types, order) == \A call \in Walked(types) : order[call] \in Seq(Visit)

LEMMA OrderTyped ==
    ASSUME NEW lib, NEW types, Registered(lib, types)
    PROVE  Ordered(types, Order(types))
<1>1. PICK o : o = Order(types)
  OBVIOUS
<1>2. PICK bad : bad = {p \in Walked(types) : o[p] \notin Seq(Visit)}
  OBVIOUS
<1>3. SUFFICES ASSUME bad # {} PROVE FALSE
  BY <1>1, <1>2 DEF Ordered
<1>4. PICK p \in bad : R!Below(types, Walked(types), p) \cap bad = {}
  BY <1>2, <1>3, WalkGrounded DEF R!Grounded
<1>5. p \in Walked(types)
  BY <1>2
<1>6. PICK n \in Names, t \in BOOLEAN : p = <<n, t>> /\ p[1] = n /\ p[2] = t /\ Walkable(types, n)
  BY <1>5, WalkedKnown
<1>7. \A q \in R!Below(types, Walked(types), p) : o[q] \in Seq(Visit)
  BY <1>2, <1>4 DEF R!Below
<1>8. SupersIn(types, n) \in Seq(Names) /\ TraitsIn(types, n) \in Seq(Names)
  BY <1>6 DEF Walkable
<1>9. \A m \in Range(SupersIn(types, n)) : KnownIn(types, m) => o[<<m, t>>] \in Seq(Visit)
  BY <1>6, <1>7, AsksBelow
<1>10. \A m \in Range(TraitsIn(types, n)) : KnownIn(types, m) => o[<<m, TRUE>>] \in Seq(Visit)
  BY <1>6, <1>7, AsksBelow
<1>11. PICK a \in Seq(Visit) : a = InTurn(Calls(types, o, SupersIn(types, n), t))
  BY <1>8, <1>9, CallsTyped, InTurnTyped
<1>12. PICK c \in Seq(Visit) : c = InTurn(Calls(types, o, TraitsIn(types, n), TRUE))
  BY <1>8, <1>10, CallsTyped, InTurnTyped
<1>13. PICK b \in Seq(Visit) : b = <<<<n, ~t>>>>
  BY OneVisit
<1>14. o[p] = a \o b \o c
  <2>1. o[p] = Traversal(types, o, n, t)
    BY <1>1, <1>5, <1>6, OrderSolves
  <2>2. QED
    BY <2>1, <1>11, <1>12, <1>13 DEF Traversal, SupersIn, TraitsIn
<1>15. a \o b \o c \in Seq(Visit)
  BY ConcatProperties
<1>16. QED
  BY <1>2, <1>14, <1>15

-----------------------------------------------------------------------------
(* A walk stands for what it will still visit, its top first.              *)
Walker == [name : Names, trait : BOOLEAN, phase : 0..2]

Piece(types, order, f) ==
    IF f.phase = 0 THEN Call(types, order, f.name, f.trait)
    ELSE IF f.phase = 1 THEN <<<<f.name, ~f.trait>>>> \o InTurn(Calls(types, order, TraitsIn(types, f.name), TRUE))
    ELSE <<>>

Precede(c, visits, f) == Piece(c[1], c[2], f) \o visits

P == INSTANCE Folding WITH Op <- Precede, Holds <- AreVisits

Pending(types, order, frames) == P!Fold(<<types, order>>, <<>>, frames)

LEMMA PendingNone ==
    ASSUME NEW types, NEW order
    PROVE  Pending(types, order, <<>>) = <<>>
BY P!FoldEmpty DEF Pending

LEMMA PendingAppend ==
    ASSUME NEW types, NEW order, NEW s \in Seq(Walker), NEW f \in Walker
    PROVE  Pending(types, order, Append(s, f)) = Piece(types, order, f) \o Pending(types, order, s)
<1>0. PICK c : c = <<types, order>>
  OBVIOUS
<1>1. c = <<types, order>> /\ c[1] = types /\ c[2] = order
  BY <1>0
<1>2. P!Fold(c, <<>>, Append(s, f)) = Precede(c, P!Fold(c, <<>>, s), f)
  BY P!FoldAppend
<1>3. QED
  BY <1>1, <1>2 DEF Precede, Pending

(* A frame past its first phase is of a type that is known.                *)
Resumes(types, frames) == \A i \in DOMAIN frames : frames[i].phase # 0 => KnownIn(types, frames[i].name)

LEMMA PieceTyped ==
    ASSUME NEW lib, NEW types, Registered(lib, types), NEW order, Ordered(types, order),
           NEW f \in Walker, f.phase # 0 => KnownIn(types, f.name)
    PROVE  Piece(types, order, f) \in Seq(Visit)
<1>1. PICK n \in Names, t \in BOOLEAN : n = f.name /\ t = f.trait
  BY DEF Walker
<1>2. \A m \in Names : \A u \in BOOLEAN : KnownIn(types, m) => order[<<m, u>>] \in Seq(Visit)
  BY KnownWalkable DEF Walkable, Ordered
<1>3. CASE f.phase = 0
  BY <1>1, <1>2, <1>3, CallTyped DEF Piece
<1>4. CASE f.phase = 1
  <2>1. TraitsIn(types, n) \in Seq(Names)
    BY <1>1, <1>4, KnownWalkable DEF Walkable
  <2>2. \A m \in Range(TraitsIn(types, n)) : m \in Names
    BY <2>1 DEF Range
  <2>3. PICK x \in Seq(Visit) : x = InTurn(Calls(types, order, TraitsIn(types, n), TRUE))
    BY <2>1, <2>2, <1>2, CallsTyped, InTurnTyped
  <2>4. PICK y \in Seq(Visit) : y = <<<<f.name, ~f.trait>>>>
    BY <1>1, OneVisit
  <2>5. y \o x \in Seq(Visit)
    BY ConcatProperties
  <2>6. Piece(types, order, f) = y \o x
    <3>1. f.phase # 0
      BY <1>4
    <3>2. QED
      BY Zenon, <3>1, <2>3, <2>4, <1>1, <1>4 DEF Piece
  <2>7. QED
    BY <2>5, <2>6
<1>5. CASE f.phase = 2
  <2>1. <<>> \in Seq(Visit)
    OBVIOUS
  <2>2. QED
    BY <2>1, <1>5 DEF Piece
<1>6. QED
  BY <1>3, <1>4, <1>5 DEF Walker

LEMMA PendingTyped ==
    ASSUME NEW lib, NEW types, Registered(lib, types), NEW order, Ordered(types, order),
           NEW s \in Seq(Walker), Resumes(types, s)
    PROVE  Pending(types, order, s) \in Seq(Visit)
<1>0. PICK c : c = <<types, order>>
  OBVIOUS
<1>1. c = <<types, order>> /\ c[1] = types /\ c[2] = order
  BY <1>0
<1>2. PICK S : S = {f \in Walker : f.phase # 0 => KnownIn(types, f.name)}
  OBVIOUS
<1>3. s \in Seq(S)
  <2>1. \A i \in 1..Len(s) : s[i] \in S
    BY <1>2 DEF Resumes
  <2>2. QED
    BY <2>1
<1>4. \A a : \A f \in S : AreVisits(c, a) => AreVisits(c, Precede(c, a, f))
  BY <1>1, <1>2, PieceTyped, ConcatProperties DEF AreVisits, Precede
<1>5. AreVisits(c, <<>>)
  BY DEF AreVisits
<1>6. AreVisits(c, P!Fold(c, <<>>, s))
  BY <1>3, <1>4, <1>5, P!FoldKeeps
<1>7. QED
  BY <1>1, <1>6 DEF AreVisits, Pending

(* Frames are pushed in reverse.                                           *)
LEMMA NewFrame ==
    ASSUME NEW n \in Names, NEW t \in BOOLEAN
    PROVE  Frame(n, t) \in Walker /\ Frame(n, t).name = n /\ Frame(n, t).trait = t /\ Frame(n, t).phase = 0
BY DEF Frame, Walker

LEMMA FramesAre ==
    ASSUME NEW names \in Seq(Names), NEW t \in BOOLEAN
    PROVE  /\ Frames(names, t) \in Seq(Walker) /\ Len(Frames(names, t)) = Len(names)
           /\ \A i \in 1..Len(names) : Frames(names, t)[i] = Frame(names[Len(names) - i + 1], t)
<1>1. PICK n \in Nat : n = Len(names) /\ DOMAIN names = 1..n
  OBVIOUS
<1>2. PICK g : g = [i \in DOMAIN names |-> Frame(names[i], t)]
  OBVIOUS
<1>3. g = [i \in 1..n |-> Frame(names[i], t)]
  BY <1>1, <1>2
<1>4. ASSUME NEW i \in 1..n PROVE g[i] \in Walker
  <2>1. names[i] \in Names
    BY <1>1
  <2>2. QED
    BY <2>1, <1>3, NewFrame
<1>5. g \in Seq(Walker) /\ Len(g) = n
  <2>1. g = [i \in 1..n |-> g[i]]
    BY <1>3
  <2>2. QED
    BY <2>1, <1>4
<1>6. PICK z : z = Frames(names, t)
  OBVIOUS
<1>7. z = [i \in 1..n |-> g[(n - i) + 1]]
  BY <1>2, <1>5, <1>6 DEF Frames, Reverse
<1>8. \A i \in 1..n : (n - i) + 1 \in 1..n
  OBVIOUS
<1>9. \A i \in 1..n : z[i] = Frame(names[n - i + 1], t) /\ z[i] \in Walker
  BY <1>3, <1>4, <1>7, <1>8
<1>10. z \in Seq(Walker) /\ Len(z) = n
  <2>1. z = [i \in 1..n |-> z[i]]
    BY <1>7
  <2>2. \A i \in 1..n : z[i] \in Walker
    BY <1>9
  <2>3. QED
    BY <2>1, <2>2
<1>11. QED
  BY <1>1, <1>6, <1>9, <1>10

Joined(a, s, t) ==
    /\ Len(a) = Len(s) + Len(t)
    /\ \A i \in 1..Len(s) : a[i] = s[i]
    /\ \A i \in 1..Len(t) : a[Len(s) + i] = t[i]

LEMMA Joins ==
    ASSUME NEW S, NEW s \in Seq(S), NEW t \in Seq(S)
    PROVE  s \o t \in Seq(S) /\ Joined(s \o t, s, t)
<1>1. PICK m \in Nat : m = Len(s)
  OBVIOUS
<1>2. PICK n \in Nat : n = Len(t)
  OBVIOUS
<1>3. s \o t \in Seq(S) /\ Len(s \o t) = m + n
  BY <1>1, <1>2
<1>4. ASSUME NEW i \in 1..m PROVE (s \o t)[i] = s[i]
  BY <1>1, <1>2
<1>5. ASSUME NEW i \in 1..n PROVE (s \o t)[m + i] = t[i]
  BY <1>1, <1>2
<1>6. QED
  BY <1>1, <1>2, <1>3, <1>4, <1>5 DEF Joined

LEMMA FramesAppend ==
    ASSUME NEW names \in Seq(Names), NEW name \in Names, NEW b \in BOOLEAN, NEW s \in Seq(Walker)
    PROVE  s \o Frames(Append(names, name), b) = Append(s, Frame(name, b)) \o Frames(names, b)
<1>1. PICK n \in Nat : n = Len(names)
  OBVIOUS
<1>2. PICK more : more = Append(names, name)
  OBVIOUS
<1>3. more \in Seq(Names) /\ Len(more) = n + 1 /\ more[n + 1] = name /\ \A i \in 1..n : more[i] = names[i]
  BY <1>1, <1>2
<1>4. PICK e \in Walker : e = Frame(name, b)
  BY NewFrame
<1>5. PICK x : x = Frames(more, b)
  OBVIOUS
<1>6. x \in Seq(Walker) /\ Len(x) = n + 1 /\ \A i \in 1..n + 1 : x[i] = Frame(more[(n + 1) - i + 1], b)
  BY <1>3, <1>5, FramesAre
<1>7. PICK y : y = Frames(names, b)
  OBVIOUS
<1>8. y \in Seq(Walker) /\ Len(y) = n /\ \A i \in 1..n : y[i] = Frame(names[n - i + 1], b)
  BY <1>1, <1>7, FramesAre
<1>9. PICK m \in Nat : m = Len(s)
  OBVIOUS
<1>10. PICK t : t = Append(s, e)
  OBVIOUS
<1>11. t \in Seq(Walker) /\ Len(t) = m + 1 /\ t[m + 1] = e /\ \A i \in 1..m : t[i] = s[i]
  BY <1>9, <1>10
<1>12. PICK a : a = s \o x
  OBVIOUS
<1>13. a \in Seq(Walker) /\ Joined(a, s, x)
  BY <1>6, <1>12, Joins
<1>14. PICK c : c = t \o y
  OBVIOUS
<1>15. c \in Seq(Walker) /\ Joined(c, t, y)
  BY <1>8, <1>11, <1>14, Joins
<1>16. x[1] = e /\ \A i \in 1..n : x[i + 1] = y[i]
  <2>1. x[1] = Frame(more[n + 1], b)
    <3>1. 1 \in 1..n + 1 /\ (n + 1) - 1 + 1 = n + 1
      OBVIOUS
    <3>2. QED
      BY <3>1, <1>6
  <2>2. ASSUME NEW i \in 1..n PROVE x[i + 1] = y[i]
    <3>1. i + 1 \in 1..n + 1 /\ (n + 1) - (i + 1) + 1 = n - i + 1 /\ n - i + 1 \in 1..n
      OBVIOUS
    <3>2. x[i + 1] = Frame(more[n - i + 1], b)
      BY <3>1, <1>6
    <3>3. QED
      BY <3>1, <3>2, <1>3, <1>8
  <2>3. QED
    BY <2>1, <2>2, <1>3, <1>4
<1>17. ASSUME NEW i \in 1..m + (n + 1) PROVE a[i] = c[i]
  <2>1. CASE i \in 1..m
    <3>1. i \in 1..m + 1
      BY <2>1
    <3>2. a[i] = s[i] /\ c[i] = t[i]
      BY <2>1, <3>1, <1>9, <1>11, <1>13, <1>15 DEF Joined
    <3>3. QED
      BY <3>2, <2>1, <1>11
  <2>2. CASE i = m + 1
    <3>1. 1 \in 1..n + 1 /\ m + 1 \in 1..m + 1
      OBVIOUS
    <3>2. a[m + 1] = x[1] /\ c[m + 1] = t[m + 1]
      BY <3>1, <1>6, <1>9, <1>11, <1>13, <1>15 DEF Joined
    <3>3. QED
      BY <3>2, <2>2, <1>11, <1>16
  <2>3. CASE i > m + 1
    <3>1. PICK k \in 1..n : i = m + 1 + k
      <4>1. i - (m + 1) \in 1..n /\ i = m + 1 + (i - (m + 1))
        BY <2>3
      <4>2. QED
        BY <4>1
    <3>2. k + 1 \in 1..n + 1 /\ i = m + (k + 1)
      BY <3>1
    <3>3. a[i] = x[k + 1]
      BY <3>2, <1>6, <1>9, <1>13 DEF Joined
    <3>4. c[i] = y[k]
      BY <3>1, <1>8, <1>11, <1>15 DEF Joined
    <3>5. QED
      BY <3>3, <3>4, <1>16
  <2>4. QED
    BY <2>1, <2>2, <2>3
<1>18. Len(a) = m + (n + 1) /\ Len(c) = m + (n + 1)
  BY <1>6, <1>8, <1>9, <1>11, <1>13, <1>15 DEF Joined
<1>19. a = c
  BY <1>13, <1>15, <1>17, <1>18, SeqEqual
<1>20. QED
  BY <1>2, <1>4, <1>5, <1>7, <1>10, <1>12, <1>14, <1>19

LEMMA PrefixIs ==
    ASSUME NEW S, NEW s \in Seq(S), NEW k \in Nat, k + 1 <= Len(s)
    PROVE  SubSeq(s, 1, k + 1) = Append(SubSeq(s, 1, k), s[k + 1]) /\ SubSeq(s, 1, k) \in Seq(S) /\ s[k + 1] \in S
OBVIOUS

Associates(a, b, c) == (a \o b) \o c = a \o (b \o c)

LEMMA Associate ==
    ASSUME NEW a \in Seq(Visit), NEW b \in Seq(Visit), NEW c \in Seq(Visit)
    PROVE  Associates(a, b, c)
BY ConcatAssociative DEF Associates

LEMMA InTurnAppend ==
    ASSUME NEW calls \in Seq(Seq(Visit)), NEW call \in Seq(Visit)
    PROVE  InTurn(Append(calls, call)) = InTurn(calls) \o call
<1>1. V!Fold({}, <<>>, Append(calls, call)) = Follow({}, V!Fold({}, <<>>, calls), call)
  BY V!FoldAppend
<1>2. QED
  BY <1>1, InTurnFold DEF Follow

LEMMA CallsAppend ==
    ASSUME NEW types, NEW order, NEW names \in Seq(Names), NEW name \in Names, NEW t
    PROVE  Calls(types, order, Append(names, name), t)
              = Append(Calls(types, order, names, t), Call(types, order, name, t))
<1>1. PICK n \in Nat : n = Len(names) /\ DOMAIN names = 1..n
  OBVIOUS
<1>2. PICK more : more = Append(names, name)
  OBVIOUS
<1>3. DOMAIN more = 1..n + 1 /\ more[n + 1] = name /\ \A i \in 1..n : more[i] = names[i]
  BY <1>1, <1>2
<1>4. PICK c : c = Calls(types, order, names, t)
  OBVIOUS
<1>5. c = [i \in 1..n |-> Call(types, order, names[i], t)]
  BY <1>1, <1>4 DEF Calls
<1>6. PICK d : d = Calls(types, order, more, t)
  OBVIOUS
<1>7. d = [i \in 1..n + 1 |-> Call(types, order, more[i], t)]
  BY <1>3, <1>6 DEF Calls
<1>8. PICK S : S = {d[i] : i \in 1..n + 1}
  OBVIOUS
<1>9. \A i \in 1..n : i \in 1..n + 1 /\ d[i] = c[i]
  BY <1>3, <1>5, <1>7
<1>10. c \in Seq(S) /\ Len(c) = n
  <2>1. \A i \in 1..n : c[i] \in S
    BY <1>8, <1>9
  <2>2. c = [i \in 1..n |-> c[i]]
    BY <1>5
  <2>3. QED
    BY <2>1, <2>2
<1>11. d \in Seq(S) /\ Len(d) = n + 1
  <2>1. \A i \in 1..n + 1 : d[i] \in S
    BY <1>8
  <2>2. d = [i \in 1..n + 1 |-> d[i]]
    BY <1>7
  <2>3. QED
    BY <2>1, <2>2
<1>12. PICK x \in S : x = Call(types, order, name, t) /\ x = d[n + 1]
  <2>1. n + 1 \in 1..n + 1
    OBVIOUS
  <2>2. QED
    BY <2>1, <1>3, <1>7, <1>8
<1>13. PICK e : e = Append(c, x)
  OBVIOUS
<1>14. e \in Seq(S) /\ Len(e) = n + 1 /\ e[n + 1] = x /\ \A i \in 1..n : e[i] = c[i]
  BY <1>10, <1>13
<1>15. ASSUME NEW i \in 1..n + 1 PROVE d[i] = e[i]
  <2>1. i = n + 1 \/ i \in 1..n
    OBVIOUS
  <2>2. QED
    BY <2>1, <1>9, <1>12, <1>14
<1>16. d = e
  BY <1>11, <1>14, <1>15, SeqEqual
<1>17. QED
  BY <1>2, <1>4, <1>6, <1>12, <1>13, <1>16

LEMMA PendingFrames ==
    ASSUME NEW lib, NEW types, Registered(lib, types), NEW order, Ordered(types, order),
           NEW names \in Seq(Names), NEW b \in BOOLEAN, NEW s \in Seq(Walker), Resumes(types, s)
    PROVE  Pending(types, order, s \o Frames(names, b))
              = InTurn(Calls(types, order, names, b)) \o Pending(types, order, s)
<1> DEFINE So(p) == \A t \in Seq(Walker) : Resumes(types, t) =>
                        Pending(types, order, t \o Frames(p, b))
                           = InTurn(Calls(types, order, p, b)) \o Pending(types, order, t)
           T1 == {k \in Nat : k <= Len(names) => So(SubSeq(names, 1, k))}
<1>1. 0 \in T1
  <2>1. SubSeq(names, 1, 0) = <<>> /\ <<>> \in Seq(Names) /\ Len(<<>>) = 0
    OBVIOUS
  <2>2. Frames(<<>>, b) = <<>>
    <3>1. Frames(<<>>, b) \in Seq(Walker) /\ Len(Frames(<<>>, b)) = 0
      BY <2>1, FramesAre
    <3>2. QED
      BY <3>1
  <2>3. InTurn(Calls(types, order, <<>>, b)) = <<>>
    <3>1. Calls(types, order, <<>>, b) = <<>>
      BY DEF Calls
    <3>2. QED
      BY <3>1, InTurnFold, V!FoldEmpty
  <2>4. ASSUME NEW t \in Seq(Walker), Resumes(types, t)
        PROVE  Pending(types, order, t \o Frames(<<>>, b))
                  = InTurn(Calls(types, order, <<>>, b)) \o Pending(types, order, t)
    <3>1. t \o <<>> = t
      OBVIOUS
    <3>2. PICK z \in Seq(Visit) : z = Pending(types, order, t)
      BY <2>4, PendingTyped
    <3>3. <<>> \o z = z
      OBVIOUS
    <3>4. QED
      BY <3>1, <3>2, <3>3, <2>2, <2>3
  <2>5. QED
    BY <2>1, <2>4
<1>2. ASSUME NEW k \in Nat, k \in T1 PROVE k + 1 \in T1
  <2>1. SUFFICES ASSUME k + 1 <= Len(names) PROVE So(SubSeq(names, 1, k + 1))
    OBVIOUS
  <2>2. PICK p : p = SubSeq(names, 1, k)
    OBVIOUS
  <2> p \in Seq(Names)
    BY <2>1, <2>2, PrefixIs
  <2>3. PICK name \in Names : name = names[k + 1]
    BY <2>1, PrefixIs
  <2>4. SubSeq(names, 1, k + 1) = Append(p, name)
    BY <2>1, <2>2, <2>3, PrefixIs
  <2>5. So(p)
    BY <1>2, <2>1, <2>2
  <2>6. ASSUME NEW t \in Seq(Walker), Resumes(types, t)
        PROVE  Pending(types, order, t \o Frames(Append(p, name), b))
                  = InTurn(Calls(types, order, Append(p, name), b)) \o Pending(types, order, t)
    <3>1. PICK f \in Walker : f = Frame(name, b)
      BY NewFrame
    <3>2. PICK u : u = Append(t, f)
      OBVIOUS
    <3>3. u \in Seq(Walker) /\ Resumes(types, u)
      <4>1. PICK m \in Nat : m = Len(t)
        OBVIOUS
      <4>2. u \in Seq(Walker) /\ DOMAIN u = 1..m + 1 /\ u[m + 1] = f /\ \A i \in 1..m : u[i] = t[i]
        BY <4>1, <3>2
      <4>3. f.phase = 0
        BY <3>1, NewFrame
      <4>4. \A i \in 1..m + 1 : i = m + 1 \/ i \in 1..m
        OBVIOUS
      <4>5. DOMAIN t = 1..m
        BY <4>1
      <4>6. QED
        BY <4>2, <4>3, <4>4, <4>5, <2>6 DEF Resumes
    <3>4. t \o Frames(Append(p, name), b) = u \o Frames(p, b)
      BY <3>1, <3>2, FramesAppend
    <3>5. Pending(types, order, u \o Frames(p, b)) = InTurn(Calls(types, order, p, b)) \o Pending(types, order, u)
      BY <3>3, <2>5
    <3>6. \A m \in Names : KnownIn(types, m) => order[<<m, b>>] \in Seq(Visit)
      BY KnownWalkable DEF Walkable, Ordered
    <3>7. PICK y \in Seq(Visit) : y = Call(types, order, name, b)
      BY <3>6, CallTyped
    <3>8. Pending(types, order, u) = y \o Pending(types, order, t)
      <4>1. Piece(types, order, f) = y
        BY <3>1, <3>7, NewFrame DEF Piece
      <4>2. QED
        BY <4>1, <3>2, PendingAppend
    <3>9. PICK cs \in Seq(Seq(Visit)) : cs = Calls(types, order, p, b)
      <4>1. \A m \in Range(p) : m \in Names
        BY DEF Range
      <4>2. QED
        BY <4>1, <3>6, CallsTyped
    <3>10. PICK x \in Seq(Visit) : x = InTurn(cs)
      BY InTurnTyped
    <3>11. PICK z \in Seq(Visit) : z = Pending(types, order, t)
      BY <2>6, PendingTyped
    <3>12. Associates(x, y, z)
      BY Associate
    <3>13. InTurn(Calls(types, order, Append(p, name), b)) = x \o y
      <4>1. Calls(types, order, Append(p, name), b) = Append(cs, y)
        BY <3>7, <3>9, CallsAppend
      <4>2. InTurn(Append(cs, y)) = InTurn(cs) \o y
        BY InTurnAppend
      <4>3. QED
        BY <4>1, <4>2, <3>10
    <3>14. QED
      BY <3>4, <3>5, <3>8, <3>9, <3>10, <3>11, <3>12, <3>13 DEF Associates
  <2>7. QED
    BY <2>4, <2>6
<1>3. \A k \in Nat : k \in T1
  <2> HIDE DEF T1
  <2> QED
    BY <1>1, <1>2, V!Induction
<1>4. PICK n \in Nat : n = Len(names) /\ SubSeq(names, 1, n) = names
  OBVIOUS
<1>5. So(SubSeq(names, 1, n))
  <2>1. n \in T1
    BY <1>3
  <2>2. n <= Len(names)
    BY <1>4
  <2> HIDE DEF So
  <2>3. QED
    BY <2>1, <2>2
<1>6. QED
  BY <1>4, <1>5

-----------------------------------------------------------------------------
(* What has been visited and what the walk will still visit make the order *)
(* of the recursion.                                                       *)
Walking ==
    /\ walk \in Seq(Walker) /\ visited \in Seq(Visit) /\ Resumes(typeMap, walk)
    /\ target \in Names /\ (~Known(target) => walk = <<Frame(target, FALSE)>>)
    /\ visited \o Pending(typeMap, Order(typeMap), walk) = Call(typeMap, Order(typeMap), target, FALSE)

WalkInv == Describing => Walking

LEMMA RegistryWalkable == RegistryInv => Registered(library, typeMap)
<1>1. SUFFICES ASSUME RegistryInv PROVE Registered(library, typeMap)
  OBVIOUS
<1>2. Range(attempts) \subseteq DOMAIN library
  BY <1>1 DEF RegistryInv, Range
<1>3. Places(library, Range(attempts)) \subseteq Places(library, DOMAIN library)
  BY <1>2 DEF Places
<1>4. QED
  BY <1>1, <1>3 DEF RegistryInv, Registered, Sound, Declared

LEMMA TypeNamesTyped == RegistryInv => \A n \in TypeNames : n \in Names
<1>1. SUFFICES ASSUME RegistryInv, NEW n \in TypeNames PROVE n \in Names
  OBVIOUS
<1>2. PICK k \in DOMAIN library : \E i \in DOMAIN library[k].types : n = Qualified(library[k], i)
  BY <1>1 DEF TypeNames, TypeNamesOf
<1>3. PICK i \in DOMAIN library[k].types : n = Qualified(library[k], i)
  BY <1>2
<1>4. WellFormed(library[k]) /\ library[k].types[i] \in Range(library[k].types)
  BY <1>1, LibrariesAssumption DEF RegistryInv, Range
<1>5. QED
  BY <1>3, <1>4, NameIsTyped DEF WellFormed, Qualified

LEMMA LastOf ==
    ASSUME NEW S, NEW s \in Seq(S), s # <<>>
    PROVE  /\ Len(s) \in Nat \ {0} /\ Front(s) \in Seq(S)
           /\ Len(Front(s)) = Len(s) - 1 /\ Last(s) \in S /\ Last(s) = s[Len(s)]
           /\ s = Append(Front(s), Last(s)) /\ \A i \in DOMAIN Front(s) : i \in DOMAIN s /\ Front(s)[i] = s[i]
<1>1. PICK k \in Nat : Len(s) = k + 1
  OBVIOUS
<1>2. SubSeq(s, 1, k + 1) = s /\ k + 1 <= Len(s) /\ Last(s) = s[k + 1] /\ Len(SubSeq(s, 1, k)) = k
  BY <1>1 DEF Last
<1>3. s = Append(SubSeq(s, 1, k), s[k + 1]) /\ SubSeq(s, 1, k) \in Seq(S) /\ s[k + 1] \in S
  BY <1>2, PrefixIs
<1>4. Front(s) = SubSeq(s, 1, k)
  BY <1>1 DEF Front
<1>5. \A i \in 1..k : i \in DOMAIN s /\ SubSeq(s, 1, k)[i] = s[i]
  BY <1>1
<1>6. DOMAIN SubSeq(s, 1, k) = 1..k
  BY <1>1
<1>7. QED
  BY <1>1, <1>2, <1>3, <1>4, <1>5, <1>6

LEMMA WalkStarts ==
    ASSUME RegistryInv, NEW name \in Names, Describe(name)
    PROVE  Walking'
<1>1. target' = name /\ visited' = <<>> /\ walk' = <<Frame(name, FALSE)>> /\ typeMap' = typeMap
  BY DEF Describe
<1>2. PICK types : types = typeMap
  OBVIOUS
<1>3. PICK order : order = Order(types)
  OBVIOUS
<1>4. Registered(library, types) /\ Ordered(types, order)
  BY <1>2, <1>3, RegistryWalkable, OrderTyped
<1>5. PICK f \in Walker : f = Frame(name, FALSE)
  BY NewFrame
<1>6. <<f>> \in Seq(Walker) /\ <<f>> = Append(<<>>, f) /\ <<>> \in Seq(Walker) /\ <<>> \in Seq(Visit)
  OBVIOUS
<1>7. f.phase = 0 /\ Piece(types, order, f) = Call(types, order, name, FALSE)
  BY <1>5, NewFrame DEF Piece
<1>8. Resumes(types, <<f>>)
  BY <1>7 DEF Resumes
<1>9. PICK x \in Seq(Visit) : x = Call(types, order, name, FALSE)
  <2>1. KnownIn(types, name) => order[<<name, FALSE>>] \in Seq(Visit)
    BY <1>4, KnownWalkable DEF Walkable, Ordered
  <2>2. QED
    BY <2>1, CallTyped
<1>10. Pending(types, order, <<f>>) = x \o <<>>
  <2>1. Pending(types, order, Append(<<>>, f)) = Piece(types, order, f) \o Pending(types, order, <<>>)
    BY <1>6, PendingAppend
  <2>2. QED
    BY <2>1, <1>6, <1>7, <1>9, PendingNone
<1>11. <<>> \o (x \o <<>>) = x
  OBVIOUS
<1>12. <<>> \o Pending(types, order, <<f>>) = Call(types, order, name, FALSE)
  BY <1>9, <1>10, <1>11
<1>13. QED
  BY <1>1, <1>2, <1>3, <1>5, <1>6, <1>8, <1>12 DEF Walking, Known

(* What the top of a walk is replaced by: a frame in its next phase, and   *)
(* frames for the types named.                                             *)
LEMMA WalkMoves ==
    ASSUME Walking, walk # <<>>, NEW n \in 1..2, NEW names \in Seq(Names), NEW b \in BOOLEAN,
           KnownIn(typeMap, Top.name)
    PROVE  LET f == [Top EXCEPT !.phase = n]
               next == InPhase(n) \o Frames(names, b)
           IN  /\ f \in Walker /\ f.name = Top.name /\ f.trait = Top.trait /\ f.phase = n
               /\ InPhase(n) = Append(Front(walk), f) /\ InPhase(n) \in Seq(Walker) /\ Resumes(typeMap, InPhase(n))
               /\ next \in Seq(Walker) /\ Resumes(typeMap, next)
<1>1. PICK f : f = [Top EXCEPT !.phase = n]
  OBVIOUS
<1>2. PICK r \in Seq(Walker) : r = Front(walk)
  BY LastOf DEF Walking
<1>3. PICK m \in Nat : m = Len(r) /\ Len(walk) = m + 1 /\ DOMAIN walk = 1..m + 1
  <2>1. Len(walk) \in Nat \ {0} /\ Len(r) = Len(walk) - 1
    BY <1>2, LastOf DEF Walking
  <2>2. DOMAIN walk = 1..Len(walk)
    BY DEF Walking
  <2>3. QED
    BY <2>1, <2>2
<1>4. Top \in Walker /\ Top = walk[m + 1]
  BY <1>3, LastOf DEF Top, Walking
<1>5. f \in Walker /\ f.name = Top.name /\ f.trait = Top.trait /\ f.phase = n
  <2>1. PICK top \in Walker : top = Top
    BY <1>4
  <2>2. f = [top EXCEPT !.phase = n] /\ n \in 0..2
    BY <2>1, <1>1
  <2>3. f \in Walker /\ f.name = top.name /\ f.trait = top.trait /\ f.phase = n
    BY <2>2 DEF Walker
  <2>4. QED
    BY <2>1, <2>3
<1>6. PICK w : w = InPhase(n)
  OBVIOUS
<1>7. w = [walk EXCEPT ![m + 1] = f]
  BY <1>1, <1>3, <1>4, <1>6 DEF InPhase
<1>8. PICK v : v = Append(r, f)
  OBVIOUS
<1>9. v \in Seq(Walker) /\ Len(v) = m + 1 /\ DOMAIN v = 1..m + 1 /\ v[m + 1] = f /\ \A i \in 1..m : v[i] = r[i]
  BY <1>3, <1>5, <1>8
<1>10. \A i \in 1..m : r[i] = walk[i] /\ i # m + 1
  <2>1. \A i \in DOMAIN Front(walk) : Front(walk)[i] = walk[i]
    BY LastOf DEF Walking
  <2>2. DOMAIN r = 1..m
    BY <1>3
  <2>3. QED
    BY <2>1, <2>2, <1>2
<1>11. w = v
  <2>1. w \in Seq(Walker) /\ Len(w) = m + 1
    BY <1>3, <1>5, <1>7 DEF Walking
  <2>2. ASSUME NEW i \in 1..m + 1 PROVE w[i] = v[i]
    <3>1. i = m + 1 \/ i \in 1..m
      OBVIOUS
    <3>2. QED
      BY <3>1, <1>3, <1>7, <1>9, <1>10
  <2>3. QED
    BY <2>1, <2>2, <1>9, SeqEqual
<1>12. \A i \in 1..m + 1 : v[i].phase # 0 => KnownIn(typeMap, v[i].name)
  <2>1. ASSUME NEW i \in 1..m + 1, v[i].phase # 0 PROVE KnownIn(typeMap, v[i].name)
    <3>1. CASE i = m + 1
      BY <3>1, <1>5, <1>9
    <3>2. CASE i \in 1..m
      BY <3>2, <2>1, <1>3, <1>9, <1>10 DEF Walking, Resumes
    <3>3. QED
      BY <3>1, <3>2
  <2>2. QED
    BY <2>1
<1>13. PICK x : x = Frames(names, b)
  OBVIOUS
<1>14. PICK k \in Nat : k = Len(names)
  OBVIOUS
<1>15. x \in Seq(Walker) /\ Len(x) = k /\ \A i \in 1..k : x[i].phase = 0
  <2>1. x \in Seq(Walker) /\ Len(x) = k /\ \A i \in 1..k : x[i] = Frame(names[k - i + 1], b)
    BY <1>13, <1>14, FramesAre
  <2>2. QED
    BY <2>1 DEF Frame
<1>16. PICK next : next = v \o x
  OBVIOUS
<1>17. next \in Seq(Walker) /\ Joined(next, v, x)
  BY <1>9, <1>15, <1>16, Joins
<1>18. ASSUME NEW i \in DOMAIN next, next[i].phase # 0 PROVE KnownIn(typeMap, next[i].name)
  <2>1. i \in 1..(m + 1) + k
    BY <1>9, <1>15, <1>17 DEF Joined
  <2>2. CASE i \in 1..m + 1
    BY <2>2, <1>9, <1>12, <1>17, <1>18 DEF Joined
  <2>3. CASE i > m + 1
    <3>1. PICK j \in 1..k : i = (m + 1) + j
      <4>1. i - (m + 1) \in 1..k /\ i = (m + 1) + (i - (m + 1))
        BY <2>1, <2>3
      <4>2. QED
        BY <4>1
    <3>2. next[i] = x[j]
      BY <3>1, <1>9, <1>15, <1>17 DEF Joined
    <3>3. QED
      BY <3>2, <1>15, <1>18
  <2>4. QED
    BY <2>1, <2>2, <2>3
<1>19. Resumes(typeMap, v) /\ Resumes(typeMap, next)
  BY <1>9, <1>12, <1>18 DEF Resumes
<1>20. QED
  BY <1>1, <1>2, <1>5, <1>6, <1>8, <1>9, <1>11, <1>13, <1>16, <1>17, <1>19

(* The facts about the walk that its steps share.                          *)
LEMMA TopWalks ==
    ASSUME RegistryInv, Walking, walk # <<>>
    PROVE  /\ Top \in Walker /\ Top.name \in Names /\ Top.trait \in BOOLEAN
           /\ Front(walk) \in Seq(Walker) /\ Resumes(typeMap, Front(walk)) /\ walk = Append(Front(walk), Top)
           /\ Pending(typeMap, Order(typeMap), Front(walk)) \in Seq(Visit)
           /\ Pending(typeMap, Order(typeMap), walk)
                 = Piece(typeMap, Order(typeMap), Top) \o Pending(typeMap, Order(typeMap), Front(walk))
           /\ Top.phase # 0 => KnownIn(typeMap, Top.name)
<1>1. PICK r \in Seq(Walker) : r = Front(walk)
  BY LastOf DEF Walking
<1>2. PICK top \in Walker : top = Top /\ walk = Append(r, top)
  BY <1>1, LastOf DEF Walking, Top
<1>3. Resumes(typeMap, r)
  <2>1. \A i \in DOMAIN r : i \in DOMAIN walk /\ r[i] = walk[i]
    BY <1>1, LastOf DEF Walking
  <2>2. QED
    BY <2>1 DEF Walking, Resumes
<1>4. Registered(library, typeMap) /\ Ordered(typeMap, Order(typeMap))
  BY RegistryWalkable, OrderTyped
<1>5. Pending(typeMap, Order(typeMap), r) \in Seq(Visit)
  BY <1>3, <1>4, PendingTyped
<1>6. Pending(typeMap, Order(typeMap), walk) = Piece(typeMap, Order(typeMap), top) \o Pending(typeMap, Order(typeMap), r)
  BY <1>2, PendingAppend
<1>7. top.name \in Names /\ top.trait \in BOOLEAN
  BY DEF Walker
<1>8. top.phase # 0 => KnownIn(typeMap, top.name)
  <2>1. Len(walk) \in DOMAIN walk /\ walk[Len(walk)] = top
    BY <1>2, LastOf DEF Walking, Top
  <2>2. QED
    BY <2>1 DEF Walking, Resumes
<1>9. QED
  BY <1>1, <1>2, <1>3, <1>5, <1>6, <1>7, <1>8

(* A supertype is known, or the walk is refused.                           *)
LEMMA TargetKnown ==
    ASSUME RegistryInv, Walking, walk # <<>>, KnownIn(typeMap, Top.name)
    PROVE  Known(target)
<1>1. SUFFICES ASSUME ~Known(target) PROVE FALSE
  OBVIOUS
<1>2. walk = <<Frame(target, FALSE)>> /\ target \in Names
  BY <1>1 DEF Walking
<1>3. Top = Frame(target, FALSE)
  BY <1>2 DEF Top, Last
<1>4. Top.name = target
  BY <1>2, <1>3, NewFrame
<1>5. QED
  BY <1>1, <1>4 DEF Known

LEMMA EnterKeeps ==
    ASSUME RegistryInv, Walking, EnterType, target' # NoType
    PROVE  Walking'
<1>1. walk # <<>> /\ Top.phase = 0 /\ typeMap' = typeMap /\ Known(Top.name)
  BY DEF EnterType, Refuse
<1>2. walk' = InPhase(1) \o Supers(TypeOf(Top.name)) /\ target' = target /\ visited' = visited
  BY <1>1 DEF EnterType
<1>3. PICK types : types = typeMap
  OBVIOUS
<1>4. PICK order : order = Order(types)
  OBVIOUS
<1>5. Registered(library, types) /\ Ordered(types, order)
  BY <1>3, <1>4, RegistryWalkable, OrderTyped
<1>6. PICK n \in Names : n = Top.name
  BY <1>1, TopWalks
<1>7. PICK t \in BOOLEAN : t = Top.trait
  BY <1>1, TopWalks
<1>8. KnownIn(types, n) /\ Walkable(types, n)
  BY <1>1, <1>3, <1>5, <1>6, KnownWalkable DEF Known
<1>9. PICK names \in Seq(Names) : names = SupersIn(types, n)
  BY <1>8 DEF Walkable
<1>10. Supers(TypeOf(Top.name)) = Frames(names, t)
  BY <1>3, <1>6, <1>7, <1>9 DEF Supers, SupersIn, TypeOf
<1>11. PICK f : f = [Top EXCEPT !.phase = 1]
  OBVIOUS
<1>12. 1 \in 1..2
  OBVIOUS
<1>13. /\ f \in Walker /\ f.name = n /\ f.trait = t /\ f.phase = 1
       /\ InPhase(1) = Append(Front(walk), f) /\ InPhase(1) \in Seq(Walker) /\ Resumes(types, InPhase(1))
       /\ walk' \in Seq(Walker) /\ Resumes(types, walk')
  BY <1>1, <1>2, <1>3, <1>6, <1>7, <1>8, <1>9, <1>10, <1>11, <1>12, WalkMoves
<1>14. PICK z \in Seq(Visit) : z = Pending(types, order, Front(walk))
  BY <1>1, <1>3, <1>4, TopWalks
<1>15. \A m \in Names : \A u \in BOOLEAN : KnownIn(types, m) => order[<<m, u>>] \in Seq(Visit)
  BY <1>5, KnownWalkable DEF Walkable, Ordered
<1>16. PICK x \in Seq(Visit) : x = InTurn(Calls(types, order, names, t))
  <2>1. \A m \in Range(names) : m \in Names
    BY DEF Range
  <2>2. QED
    BY <2>1, <1>15, CallsTyped, InTurnTyped
<1>17. PICK traits \in Seq(Names) : traits = TraitsIn(types, n)
  BY <1>8 DEF Walkable
<1>18. PICK y \in Seq(Visit) : y = InTurn(Calls(types, order, traits, TRUE))
  <2>1. \A m \in Range(traits) : m \in Names
    BY DEF Range
  <2>2. QED
    BY <2>1, <1>15, CallsTyped, InTurnTyped
<1>19. PICK o \in Seq(Visit) : o = <<<<n, ~t>>>>
  BY OneVisit
<1>20. Piece(types, order, Top) = (x \o o) \o y
  <2>1. Piece(types, order, Top) = order[<<n, t>>]
    BY <1>1, <1>6, <1>7, <1>8 DEF Piece, Call
  <2>2. order[<<n, t>>] = Traversal(types, order, n, t)
    <3>1. PICK call : call = <<n, t>>
      OBVIOUS
    <3>2. call[1] = n /\ call[2] = t
      BY <3>1
    <3>3. call \in Walked(types)
      BY <3>1, <1>8 DEF Walkable
    <3>4. order[call] = Traversal(types, order, call[1], call[2])
      BY <3>3, <1>4, <1>5, OrderSolves
    <3>5. QED
      BY <3>1, <3>2, <3>4
  <2>3. QED
    BY <2>1, <2>2, <1>9, <1>16, <1>17, <1>18, <1>19 DEF Traversal, SupersIn, TraitsIn
<1>21. Pending(types, order, walk) = ((x \o o) \o y) \o z
  BY <1>1, <1>3, <1>4, <1>14, <1>20, TopWalks
<1>22. Pending(types, order, InPhase(1)) = (o \o y) \o z
  <2>1. Piece(types, order, f) = o \o y
    <3>1. f.phase # 0
      BY <1>13
    <3>2. QED
      BY Zenon, <3>1, <1>13, <1>17, <1>18, <1>19 DEF Piece
  <2>2. Front(walk) \in Seq(Walker)
    BY <1>1, TopWalks
  <2>3. QED
    BY <2>1, <2>2, <1>13, <1>14, PendingAppend
<1>23. Pending(types, order, walk') = x \o ((o \o y) \o z)
  <2>1. walk' = InPhase(1) \o Frames(names, t)
    BY <1>2, <1>10
  <2>2. InPhase(1) \in Seq(Walker) /\ Resumes(types, InPhase(1))
    BY <1>13
  <2>3. Pending(types, order, InPhase(1) \o Frames(names, t))
           = InTurn(Calls(types, order, names, t)) \o Pending(types, order, InPhase(1))
    BY <2>2, <1>5, PendingFrames
  <2>4. QED
    BY <2>1, <2>3, <1>16, <1>22
<1>24. ((x \o o) \o y) \o z = x \o ((o \o y) \o z)
  <2>1. PICK w \in Seq(Visit) : w = o \o y
    BY ConcatProperties
  <2>2. Associates(x, o, y) /\ Associates(x, w, z)
    BY Associate
  <2>3. QED
    BY Zenon, <2>1, <2>2 DEF Associates
<1>25. visited' \o Pending(types, order, walk') = Call(types, order, target', FALSE)
  BY <1>2, <1>3, <1>4, <1>21, <1>23, <1>24 DEF Walking
<1>26. KnownIn(types, target')
  BY <1>1, <1>2, <1>3, TargetKnown DEF Known
<1>27. QED
  BY <1>1, <1>2, <1>3, <1>4, <1>13, <1>25, <1>26 DEF Walking, Known

LEMMA VisitKeeps ==
    ASSUME RegistryInv, Walking, VisitType, target' # NoType
    PROVE  Walking'
<1>1. walk # <<>> /\ Top.phase = 1 /\ typeMap' = typeMap
  BY DEF VisitType
<1>2. PICK types : types = typeMap
  OBVIOUS
<1>3. PICK order : order = Order(types)
  OBVIOUS
<1>4. Registered(library, types) /\ Ordered(types, order)
  BY <1>2, <1>3, RegistryWalkable, OrderTyped
<1>5. PICK n \in Names : n = Top.name
  BY <1>1, TopWalks
<1>6. PICK t \in BOOLEAN : t = Top.trait
  BY <1>1, TopWalks
<1>7. KnownIn(types, n)
  BY <1>1, <1>2, <1>5, TopWalks
<1>8. Walkable(types, n)
  BY <1>4, <1>7, KnownWalkable
<1>9. PICK o \in Seq(Visit) : o = <<<<n, ~t>>>>
  BY OneVisit
<1>10. PICK names \in Seq(Names) : names = TraitsIn(types, n)
  BY <1>8 DEF Walkable
<1>11. /\ visited' = Append(visited, <<n, ~t>>) /\ target' = target
       /\ walk' = InPhase(2) \o Frames(names, TRUE)
  <2>1. TypeOf(Top.name).name = n
    BY <1>2, <1>5, <1>8 DEF TypeOf, Walkable
  <2>2. ~(target' = NoType)
    OBVIOUS
  <2>3. /\ visited' = Append(visited, <<TypeOf(Top.name).name, ~Top.trait>>) /\ target' = target
        /\ walk' = InPhase(2) \o Frames(Relative(TypeOf(Top.name).traits, Top.name[1]), TRUE)
    BY Zenon, <2>2 DEF VisitType, Refuse
  <2>4. QED
    BY <2>1, <2>3, <1>2, <1>5, <1>6, <1>10 DEF TypeOf, TraitsIn
<1>12. PICK f : f = [Top EXCEPT !.phase = 2]
  OBVIOUS
<1>13. 2 \in 1..2 /\ TRUE \in BOOLEAN
  OBVIOUS
<1>14. /\ f \in Walker /\ f.phase = 2
       /\ InPhase(2) = Append(Front(walk), f) /\ InPhase(2) \in Seq(Walker) /\ Resumes(types, InPhase(2))
       /\ walk' \in Seq(Walker) /\ Resumes(types, walk')
  BY <1>1, <1>2, <1>5, <1>7, <1>10, <1>11, <1>12, <1>13, WalkMoves
<1>15. PICK z \in Seq(Visit) : z = Pending(types, order, Front(walk))
  BY <1>1, <1>2, <1>3, TopWalks
<1>16. PICK y \in Seq(Visit) : y = InTurn(Calls(types, order, names, TRUE))
  <2>1. \A m \in Names : KnownIn(types, m) => order[<<m, TRUE>>] \in Seq(Visit)
    BY <1>4, KnownWalkable DEF Walkable, Ordered
  <2>2. \A m \in Range(names) : m \in Names
    BY DEF Range
  <2>3. QED
    BY <2>1, <2>2, CallsTyped, InTurnTyped
<1>17. Pending(types, order, walk) = (o \o y) \o z
  <2>1. Piece(types, order, Top) = o \o y
    <3>1. Top.phase # 0
      BY <1>1
    <3>2. QED
      BY Zenon, <3>1, <1>1, <1>5, <1>6, <1>9, <1>10, <1>16 DEF Piece
  <2>2. QED
    BY <2>1, <1>1, <1>2, <1>3, <1>15, TopWalks
<1>18. Pending(types, order, InPhase(2)) = <<>> \o z
  <2>1. Piece(types, order, f) = <<>>
    BY <1>14 DEF Piece
  <2>2. Front(walk) \in Seq(Walker)
    BY <1>1, TopWalks
  <2>3. QED
    BY <2>1, <2>2, <1>14, <1>15, PendingAppend
<1>19. Pending(types, order, walk') = y \o z
  <2>1. Pending(types, order, walk') = y \o Pending(types, order, InPhase(2))
    BY <1>4, <1>11, <1>13, <1>14, <1>16, PendingFrames
  <2>2. <<>> \o z = z
    OBVIOUS
  <2>3. QED
    BY <2>1, <2>2, <1>18
<1>20. PICK v \in Seq(Visit) : v = visited
  BY DEF Walking
<1>21. visited' = v \o o /\ visited' \in Seq(Visit)
  <2>1. PICK e \in Visit : e = <<n, ~t>>
    BY OneVisit
  <2>2. Append(v, e) = v \o <<e>> /\ Append(v, e) \in Seq(Visit)
    BY AppendIsConcat
  <2>3. QED
    BY <2>1, <2>2, <1>9, <1>11, <1>20
<1>22. (v \o o) \o (y \o z) = v \o ((o \o y) \o z)
  <2>1. PICK w \in Seq(Visit) : w = y \o z
    BY ConcatProperties
  <2>2. Associates(v, o, w) /\ Associates(o, y, z)
    BY Associate
  <2>3. QED
    BY Zenon, <2>1, <2>2 DEF Associates
<1>23. visited' \o Pending(types, order, walk') = Call(types, order, target', FALSE)
  BY <1>2, <1>3, <1>11, <1>17, <1>19, <1>20, <1>21, <1>22 DEF Walking
<1>24. KnownIn(types, target')
  BY <1>1, <1>2, <1>5, <1>7, <1>11, TargetKnown DEF Known
<1>25. QED
  BY <1>1, <1>2, <1>3, <1>11, <1>14, <1>21, <1>23, <1>24 DEF Walking, Known

LEMMA LeaveKeeps ==
    ASSUME RegistryInv, Walking, LeaveType
    PROVE  Walking'
<1>1. walk # <<>> /\ Top.phase = 2 /\ walk' = Front(walk)
      /\ typeMap' = typeMap /\ target' = target /\ visited' = visited
  BY DEF LeaveType
<1>2. PICK types : types = typeMap
  OBVIOUS
<1>3. PICK order : order = Order(types)
  OBVIOUS
<1>4. PICK z \in Seq(Visit) : z = Pending(types, order, walk')
  BY <1>1, <1>2, <1>3, TopWalks
<1>5. Pending(types, order, walk) = <<>> \o z
  <2>1. Piece(types, order, Top) = <<>>
    BY <1>1 DEF Piece
  <2>2. QED
    BY <2>1, <1>1, <1>2, <1>3, <1>4, TopWalks
<1>6. <<>> \o z = z
  OBVIOUS
<1>7. visited' \o Pending(types, order, walk') = Call(types, order, target', FALSE)
  BY <1>1, <1>2, <1>3, <1>4, <1>5, <1>6 DEF Walking
<1>8. KnownIn(types, target')
  <2>1. KnownIn(typeMap, Top.name)
    BY <1>1, TopWalks
  <2>2. QED
    BY <2>1, <1>1, <1>2, TargetKnown DEF Known
<1>9. walk' \in Seq(Walker) /\ Resumes(types, walk')
  BY <1>1, <1>2, TopWalks
<1>10. QED
  BY <1>1, <1>2, <1>3, <1>7, <1>8, <1>9 DEF Walking, Known

LEMMA WalkKept ==
    ASSUME RegistryInv, WalkInv, [Next]_vars
    PROVE  WalkInv'
<1>1. SUFFICES ASSUME target' # NoType PROVE Walking'
  BY DEF WalkInv, Describing
<1>2. CASE \E name \in TypeNames : Describe(name)
  BY <1>2, WalkStarts, TypeNamesTyped
<1>3. CASE EnterType
  BY <1>1, <1>3, EnterKeeps DEF WalkInv, EnterType
<1>4. CASE VisitType
  BY <1>1, <1>4, VisitKeeps DEF WalkInv, VisitType
<1>5. CASE LeaveType
  BY <1>5, LeaveKeeps DEF WalkInv, LeaveType
<1>6. CASE Finish
  BY <1>1, <1>6 DEF Finish
<1>7. CASE \E key \in DOMAIN library : RegisterPackage(key)
  BY <1>1, <1>7 DEF RegisterPackage, Describing
<1>8. CASE UNCHANGED vars
  <2>1. UNCHANGED <<typeMap, walk, visited, target>>
    BY <1>8 DEF vars
  <2>2. Walking
    BY <2>1, <1>1 DEF WalkInv, Describing
  <2>3. QED
    BY <2>1, <2>2 DEF Walking, Known
<1>9. QED
  BY <1>2, <1>3, <1>4, <1>5, <1>6, <1>7, <1>8 DEF Next

(* The walk with its explicit stack gives the builder the types the        *)
(* recursive traversal it replaces would give it, in its order and with    *)
(* its flags, for every hierarchy that is not circular.                    *)
THEOREM WalkVisitsInOrder == Spec => []VisitOrder
<1>1. Init => RegistryInv /\ WalkInv
  BY RegistryStarts DEF Init, WalkInv, Describing
<1>2. RegistryInv /\ WalkInv /\ [Next]_vars => RegistryInv' /\ WalkInv'
  BY RegistryKept, WalkKept
<1>3. RegistryInv /\ WalkInv => VisitOrder
  <2>1. SUFFICES ASSUME RegistryInv, Walking, walk = <<>>
                 PROVE  visited = Order(typeMap)[<<target, FALSE>>]
    BY DEF WalkInv, VisitOrder
  <2>2. Known(target)
    BY <2>1 DEF Walking
  <2>3. PICK v \in Seq(Visit) : v = visited
    BY <2>1 DEF Walking
  <2>4. v \o <<>> = v
    OBVIOUS
  <2>5. visited = Call(typeMap, Order(typeMap), target, FALSE)
    BY <2>1, <2>3, <2>4, PendingNone DEF Walking
  <2>6. QED
    BY <2>2, <2>5 DEF Call, Known
<1>4. QED
  BY <1>1, <1>2, <1>3, PTL DEF Spec

-----------------------------------------------------------------------------
(* A descriptor lists a property once.                                     *)
Distinct(s) == \A i, j \in DOMAIN s : s[i] = s[j] => i = j

LEMMA ListAppended ==
    ASSUME NEW S, NEW s \in Seq(S), NEW e \in S, Distinct(s), e \notin Range(s)
    PROVE  Distinct(Append(s, e))
<1>1. PICK n \in Nat : n = Len(s) /\ DOMAIN s = 1..n
  OBVIOUS
<1>2. PICK t : t = Append(s, e)
  OBVIOUS
<1>3. DOMAIN t = 1..n + 1 /\ t[n + 1] = e /\ \A i \in 1..n : t[i] = s[i]
  BY <1>1, <1>2
<1>4. \A i \in 1..n : s[i] # e
  BY <1>1 DEF Range
<1>5. \A i \in 1..n + 1 : i = n + 1 \/ i \in 1..n
  OBVIOUS
<1>6. \A i, j \in 1..n : s[i] = s[j] => i = j
  BY <1>1 DEF Distinct
<1>7. QED
  BY <1>2, <1>3, <1>4, <1>5, <1>6 DEF Distinct

PartOf(p, s, k, m) == Len(p) = m /\ \A i \in 1..m : p[i] = s[k + i]

LEMMA PartsOf ==
    ASSUME NEW S, NEW s \in Seq(S), NEW k \in Nat, k <= Len(s)
    PROVE  /\ SubSeq(s, 1, k) \in Seq(S) /\ PartOf(SubSeq(s, 1, k), s, 0, k)
           /\ SubSeq(s, k + 1, Len(s)) \in Seq(S) /\ PartOf(SubSeq(s, k + 1, Len(s)), s, k, Len(s) - k)
<1>1. PICK n \in Nat : n = Len(s)
  OBVIOUS
<1>2. /\ SubSeq(s, 1, k) \in Seq(S) /\ Len(SubSeq(s, 1, k)) = k
      /\ \A i \in 1..k : SubSeq(s, 1, k)[i] = s[i] /\ 0 + i = i
  OBVIOUS
<1>3. PICK m \in Nat : m = k + 1 /\ 1 <= m /\ m <= n + 1
  BY <1>1
<1>4. SubSeq(s, m, n) \in Seq(S)
  BY <1>1, <1>3
<1>5. Len(SubSeq(s, m, n)) = n - k
  BY <1>1, <1>3
<1>6. \A i \in 1..n - k : SubSeq(s, m, n)[i] = s[k + i]
  BY <1>1, <1>3
<1>7. PICK p : p = SubSeq(s, 1, k)
  OBVIOUS
<1>8. PICK q : q = SubSeq(s, m, n)
  OBVIOUS
<1>9. PartOf(p, s, 0, k)
  BY <1>2, <1>7 DEF PartOf
<1>10. PartOf(q, s, k, n - k)
  BY <1>5, <1>6, <1>8 DEF PartOf
<1>11. QED
  BY <1>1, <1>2, <1>3, <1>4, <1>7, <1>8, <1>9, <1>10

LEMMA ListRemoved ==
    ASSUME NEW S, NEW s \in Seq(S), NEW at \in 1..Len(s), Distinct(s)
    PROVE  /\ RemoveAt(s, at) \in Seq(S) /\ Len(RemoveAt(s, at)) = Len(s) - 1
           /\ Distinct(RemoveAt(s, at)) /\ Range(RemoveAt(s, at)) = Range(s) \ {s[at]}
<1>1. PICK n \in Nat : n = Len(s) /\ DOMAIN s = 1..n
  OBVIOUS
<1>2. PICK t : t = RemoveAt(s, at)
  OBVIOUS
<1>3. t = SubSeq(s, 1, at - 1) \o SubSeq(s, at + 1, n)
  BY <1>1, <1>2 DEF RemoveAt
<1>4. PICK m \in Nat : m = n - 1
  BY <1>1
<1>5. /\ t \in Seq(S) /\ Len(t) = m /\ DOMAIN t = 1..m
      /\ \A i \in 1..m : t[i] = IF i < at THEN s[i] ELSE s[i + 1]
  <2>1. PICK k \in Nat : k = at - 1 /\ k <= m
    BY <1>1, <1>4
  <2>2. PICK a \in Seq(S) : a = SubSeq(s, 1, k) /\ Len(a) = k /\ \A i \in 1..k : a[i] = s[i]
    <3>1. k <= Len(s)
      BY <1>1, <1>4, <2>1
    <3>2. PICK a \in Seq(S) : a = SubSeq(s, 1, k) /\ PartOf(a, s, 0, k)
      BY <3>1, PartsOf
    <3>3. \A i \in 1..k : 0 + i = i
      OBVIOUS
    <3>4. QED
      BY <3>2, <3>3 DEF PartOf
  <2>3. PICK b \in Seq(S) : b = SubSeq(s, at + 1, n) /\ Len(b) = m - k /\ \A i \in 1..m - k : b[i] = s[k + 1 + i]
    <3>1. at \in Nat /\ at <= Len(s) /\ Len(s) - at = m - k /\ at = k + 1
      BY <1>1, <1>4, <2>1
    <3>2. PICK b \in Seq(S) : b = SubSeq(s, at + 1, Len(s)) /\ PartOf(b, s, at, Len(s) - at)
      BY <3>1, PartsOf
    <3>3. QED
      BY <3>1, <3>2, <1>1 DEF PartOf
  <2>4. t = a \o b
    BY <1>3, <2>1, <2>2, <2>3
  <2>5. t \in Seq(S) /\ Joined(t, a, b)
    BY <2>4, Joins
  <2>6. Len(t) = m /\ DOMAIN t = 1..m
    BY <2>1, <2>2, <2>3, <2>5 DEF Joined
  <2>7. ASSUME NEW i \in 1..m PROVE t[i] = IF i < at THEN s[i] ELSE s[i + 1]
    <3>1. CASE i < at
      <4>1. i \in 1..Len(a)
        BY <3>1, <2>1, <2>2
      <4>2. QED
        BY <4>1, <3>1, <2>2, <2>5 DEF Joined
    <3>2. CASE ~(i < at)
      <4>1. PICK j \in 1..m - k : i = k + j
        <5>1. i - k \in 1..m - k /\ i = k + (i - k)
          BY <3>2, <2>1
        <5>2. QED
          BY <5>1
      <4>2. t[k + j] = b[j]
        BY <4>1, <2>2, <2>3, <2>5 DEF Joined
      <4>3. b[j] = s[k + 1 + j] /\ k + 1 + j = i + 1
        BY <4>1, <2>3
      <4>4. QED
        BY <4>1, <4>2, <4>3, <3>2
    <3>3. QED
      BY <3>1, <3>2
  <2>8. QED
    BY <2>5, <2>6, <2>7
<1>6. \A i, j \in 1..n : s[i] = s[j] => i = j
  BY <1>1 DEF Distinct
<1>7. \A i \in 1..m : (IF i < at THEN i ELSE i + 1) \in (1..n) \ {at} /\ t[i] = s[IF i < at THEN i ELSE i + 1]
  BY <1>1, <1>4, <1>5
<1>8. Distinct(t)
  <2>1. SUFFICES ASSUME NEW i \in 1..m, NEW j \in 1..m, t[i] = t[j]
                 PROVE  i = j
    BY <1>5 DEF Distinct
  <2>2. (IF i < at THEN i ELSE i + 1) = (IF j < at THEN j ELSE j + 1)
    BY <1>6, <1>7, <2>1
  <2>3. at \in Nat
    OBVIOUS
  <2>4. QED
    BY <2>2, <2>3
<1>9. ASSUME NEW i \in (1..n) \ {at} PROVE \E j \in 1..m : t[j] = s[i]
  <2>1. CASE i < at
    BY <2>1, <1>1, <1>4, <1>5
  <2>2. CASE i > at
    <3>1. i - 1 \in 1..m /\ ~(i - 1 < at) /\ (i - 1) + 1 = i
      BY <2>2, <1>1, <1>4
    <3>2. QED
      BY <3>1, <1>5
  <2>3. QED
    BY <1>9, <2>1, <2>2
<1>10. Range(t) = Range(s) \ {s[at]}
  <2>1. ASSUME NEW e \in Range(t) PROVE e \in Range(s) \ {s[at]}
    <3>1. PICK i \in 1..m : e = t[i]
      BY <1>5 DEF Range
    <3>2. PICK j \in (1..n) \ {at} : e = s[j]
      BY <3>1, <1>7
    <3>3. s[j] # s[at]
      BY <1>1, <1>6
    <3>4. QED
      BY <3>2, <3>3, <1>1 DEF Range
  <2>2. ASSUME NEW e \in Range(s) \ {s[at]} PROVE e \in Range(t)
    <3>1. PICK i \in 1..n : e = s[i]
      BY <2>2, <1>1 DEF Range
    <3>2. i \in (1..n) \ {at}
      BY <2>2, <3>1
    <3>3. PICK j \in 1..m : t[j] = s[i]
      BY <3>2, <1>9
    <3>4. j \in DOMAIN t /\ t[j] = e
      BY <1>5, <3>1, <3>3
    <3>5. QED
      BY <3>4 DEF Range
  <2>3. QED
    BY <2>1, <2>2
<1>11. QED
  BY <1>1, <1>2, <1>4, <1>5, <1>8, <1>10

LEMMA ListInserted ==
    ASSUME NEW S, NEW s \in Seq(S), NEW e \in S, NEW at \in 1..Len(s) + 1, Distinct(s), e \notin Range(s)
    PROVE  /\ InsertAt(s, at, e) \in Seq(S)
           /\ Distinct(InsertAt(s, at, e)) /\ Range(InsertAt(s, at, e)) = Range(s) \cup {e}
<1>1. PICK n \in Nat : n = Len(s) /\ DOMAIN s = 1..n
  OBVIOUS
<1>2. PICK t : t = InsertAt(s, at, e)
  OBVIOUS
<1>3. /\ t \in Seq(S) /\ DOMAIN t = 1..n + 1
      /\ \A i \in 1..n + 1 : t[i] = IF i < at THEN s[i] ELSE IF i = at THEN e ELSE s[i - 1]
  <2>1. PICK k \in Nat : k = at - 1 /\ k <= n
    BY <1>1
  <2>2. PICK a \in Seq(S) : a = SubSeq(s, 1, k) /\ Len(a) = k /\ \A i \in 1..k : a[i] = s[i]
    <3>1. k <= Len(s)
      BY <1>1, <2>1
    <3>2. PICK a \in Seq(S) : a = SubSeq(s, 1, k) /\ PartOf(a, s, 0, k)
      BY <3>1, PartsOf
    <3>3. \A i \in 1..k : 0 + i = i
      OBVIOUS
    <3>4. QED
      BY <3>2, <3>3 DEF PartOf
  <2>3. PICK b \in Seq(S) : b = SubSeq(s, at, n) /\ Len(b) = n - k /\ \A i \in 1..n - k : b[i] = s[k + i]
    <3>1. at = k + 1 /\ k <= Len(s)
      BY <1>1, <2>1
    <3>2. PICK b \in Seq(S) : b = SubSeq(s, k + 1, Len(s)) /\ PartOf(b, s, k, Len(s) - k)
      BY <3>1, PartsOf
    <3>3. QED
      BY <3>1, <3>2, <1>1 DEF PartOf
  <2>4. PICK c \in Seq(S) : c = Append(a, e) /\ c = a \o <<e>>
    <3>1. Append(a, e) = a \o <<e>>
      BY AppendIsConcat
    <3>2. Append(a, e) \in Seq(S)
      OBVIOUS
    <3>3. QED
      BY <3>1, <3>2
  <2>5. Len(c) = k + 1 /\ c[k + 1] = e /\ \A i \in 1..k : c[i] = s[i]
    BY <2>2, <2>4
  <2>6. t = c \o b
    <3>1. t = SubSeq(s, 1, at - 1) \o <<e>> \o SubSeq(s, at, n)
      BY <1>1, <1>2 DEF InsertAt
    <3>2. SubSeq(s, 1, at - 1) = a /\ SubSeq(s, at, n) = b
      BY <2>1, <2>2, <2>3
    <3>3. QED
      BY <3>1, <3>2, <2>4
  <2>7. t \in Seq(S) /\ Joined(t, c, b)
    <3>1. c \o b \in Seq(S) /\ Joined(c \o b, c, b)
      BY Joins
    <3>2. QED
      BY <2>6, <3>1
  <2>8. Len(t) = n + 1 /\ DOMAIN t = 1..n + 1
    BY <2>1, <2>3, <2>5, <2>7 DEF Joined
  <2>9. ASSUME NEW i \in 1..n + 1 PROVE t[i] = IF i < at THEN s[i] ELSE IF i = at THEN e ELSE s[i - 1]
    <3>1. CASE i <= at
      <4>1. i \in 1..Len(c) /\ (i = k + 1 \/ i \in 1..k)
        BY <3>1, <2>1, <2>5
      <4>2. t[i] = c[i]
        BY <4>1, <2>7 DEF Joined
      <4>3. QED
        BY <4>1, <4>2, <2>1, <2>5
    <3>2. CASE i > at
      <4>1. PICK j \in 1..n - k : i = (k + 1) + j
        <5>1. i - (k + 1) \in 1..n - k /\ i = (k + 1) + (i - (k + 1))
          BY <3>2, <2>1
        <5>2. QED
          BY <5>1
      <4>2. t[(k + 1) + j] = b[j]
        BY <4>1, <2>3, <2>5, <2>7 DEF Joined
      <4>3. b[j] = s[k + j] /\ k + j = i - 1
        BY <4>1, <2>3
      <4>4. QED
        BY <4>1, <4>2, <4>3, <3>2
    <3>3. QED
      BY <3>1, <3>2
  <2>10. QED
    BY <2>7, <2>8, <2>9
<1>4. \A i, j \in 1..n : s[i] = s[j] => i = j
  BY <1>1 DEF Distinct
<1>5. \A i \in 1..n : s[i] # e
  BY <1>1 DEF Range
<1>6. \A i \in 1..n + 1 : (i < at => i \in 1..n) /\ (i > at => i - 1 \in 1..n)
  BY <1>1
<1>7. Distinct(t)
  <2>1. SUFFICES ASSUME NEW i \in 1..n + 1, NEW j \in 1..n + 1, t[i] = t[j] PROVE i = j
    BY <1>3 DEF Distinct
  <2>2. CASE i = at \/ j = at
    BY <2>1, <2>2, <1>3, <1>5, <1>6
  <2>3. CASE i # at /\ j # at
    <3>1. PICK k \in 1..n : t[i] = s[k] /\ k = IF i < at THEN i ELSE i - 1
      BY <2>3, <1>3, <1>6
    <3>2. PICK l \in 1..n : t[j] = s[l] /\ l = IF j < at THEN j ELSE j - 1
      BY <2>3, <1>3, <1>6
    <3>3. k = l
      BY <2>1, <3>1, <3>2, <1>4
    <3>4. QED
      BY <2>3, <3>1, <3>2, <3>3
  <2>4. QED
    BY <2>2, <2>3
<1>8. ASSUME NEW i \in 1..n PROVE \E j \in 1..n + 1 : t[j] = s[i]
  <2>1. CASE i < at
    BY <2>1, <1>3
  <2>2. CASE i >= at
    <3>1. i + 1 \in 1..n + 1 /\ ~(i + 1 < at) /\ i + 1 # at /\ (i + 1) - 1 = i
      BY <2>2
    <3>2. QED
      BY <3>1, <1>3
  <2>3. QED
    BY <2>1, <2>2
<1>9. at \in 1..n + 1 /\ t[at] = e
  BY <1>1, <1>3
<1>10. Range(t) = Range(s) \cup {e}
  <2>1. ASSUME NEW x \in Range(t) PROVE x \in Range(s) \cup {e}
    <3>1. PICK i \in 1..n + 1 : x = t[i]
      BY <1>3 DEF Range
    <3>2. x = e \/ \E j \in 1..n : x = s[j]
      BY <3>1, <1>3, <1>6
    <3>3. QED
      BY <3>2, <1>1 DEF Range
  <2>2. ASSUME NEW x \in Range(s) \cup {e} PROVE x \in Range(t)
    <3>1. \E j \in 1..n + 1 : x = t[j]
      BY <2>2, <1>1, <1>8, <1>9 DEF Range
    <3>2. QED
      BY <3>1, <1>3 DEF Range
  <2>3. QED
    BY <2>1, <2>2
<1>11. QED
  BY <1>2, <1>3, <1>7, <1>10

LEMMA FoundAt ==
    ASSUME NEW S, NEW s \in Seq(S), NEW e, IndexOf(s, e) # 0
    PROVE  IndexOf(s, e) \in 1..Len(s) /\ s[IndexOf(s, e)] = e
<1>1. PICK found : found = {i \in 1..Len(s) : s[i] = e}
  OBVIOUS
<1>2. PICK at : at = IndexOf(s, e)
  OBVIOUS
<1>3. at = IF found # {} THEN Min(found) ELSE 0
  BY <1>1, <1>2 DEF IndexOf, SelectInSeq
<1>4. found # {} /\ at = Min(found) /\ found \in SUBSET Nat
  BY <1>1, <1>2, <1>3
<1>5. \E m \in found : \A k \in found : m <= k
  BY <1>4, L!Least
<1>6. at \in found
  BY <1>4, <1>5 DEF Min
<1>7. QED
  BY <1>1, <1>2, <1>6

-----------------------------------------------------------------------------
(* What a builder holds between two types: the properties it lists answer  *)
(* to their own names, a name leads to a listed property or to a           *)
(* refinement, and only a refinement answers to a name of another.         *)
Property ==
    [of : Names, ns : Qualifieds, isId : BOOLEAN, isBody : BOOLEAN, refines : Seq(Names), replaces : BOOLEAN,
     inherited : BOOLEAN]
OwnNames(p) == {p.ns, LocalName(p)}

Answers(byName, listed) == \A p \in listed : \A k \in OwnNames(p) : k \in DOMAIN byName /\ byName[k] = p
Leading(byName, listed) ==
    \A k \in DOMAIN byName :
        (byName[k] \in listed \/ Refines(byName[k])) /\ (k \in OwnNames(byName[k]) \/ Refines(byName[k]))

LEMMA NameParts == ASSUME NEW n \in Names PROVE n = <<n[1], n[2]>> /\ n[1] \in STRING /\ n[2] \in STRING
BY DEF Names

LEMMA NamesApart ==
    ASSUME NEW p \in Property, NEW q \in Property, OwnNames(p) \cap OwnNames(q) # {}
    PROVE  LocalName(p) = LocalName(q)
<1>1. PICK a \in STRING, x \in STRING : p.ns = <<a, x>> /\ a # ""
  <2>1. PICK n \in Qualifieds : n = p.ns
    BY DEF Property
  <2>2. n \in Names /\ n[1] # ""
    BY DEF Qualifieds
  <2>3. n = <<n[1], n[2]>> /\ n[1] \in STRING /\ n[2] \in STRING
    BY <2>2, NameParts
  <2>4. QED
    BY <2>1, <2>2, <2>3
<1>2. PICK b \in STRING, y \in STRING : q.ns = <<b, y>> /\ b # ""
  <2>1. PICK n \in Qualifieds : n = q.ns
    BY DEF Property
  <2>2. n \in Names /\ n[1] # ""
    BY DEF Qualifieds
  <2>3. n = <<n[1], n[2]>> /\ n[1] \in STRING /\ n[2] \in STRING
    BY <2>2, NameParts
  <2>4. QED
    BY <2>1, <2>2, <2>3
<1>3. LocalName(p) = <<"", x>> /\ LocalName(q) = <<"", y>>
  <2>1. p.ns[2] = x /\ q.ns[2] = y
    <3>1. <<a, x>>[2] = x /\ <<b, y>>[2] = y
      OBVIOUS
    <3>2. QED
      BY <3>1, <1>1, <1>2
  <2>2. QED
    BY <2>1 DEF LocalName, Name
<1>4. x = y
  <2>1. PICK k : (k = <<a, x>> \/ k = <<"", x>>) /\ (k = <<b, y>> \/ k = <<"", y>>)
    BY <1>1, <1>2, <1>3 DEF OwnNames
  <2>2. k[2] = x
    <3>1. <<a, x>>[2] = x /\ <<"", x>>[2] = x
      OBVIOUS
    <3>2. QED
      BY <2>1, <3>1
  <2>3. k[2] = y
    <3>1. <<b, y>>[2] = y /\ <<"", y>>[2] = y
      OBVIOUS
    <3>2. QED
      BY <2>1, <3>1
  <2>4. QED
    BY <2>2, <2>3
<1>5. QED
  BY <1>3, <1>4

(* Two listed properties have no name in common.                           *)
LEMMA ListedApart ==
    ASSUME NEW listed \in SUBSET Property, NEW byName, Answers(byName, listed), NEW p \in listed, NEW q \in listed,
           LocalName(p) = LocalName(q)
    PROVE  p = q
BY DEF Answers, OwnNames

LEMMA NamedIs ==
    ASSUME NEW byName, NEW p
    PROVE  /\ DOMAIN Named(byName, p) = DOMAIN byName \cup OwnNames(p)
           /\ \A k \in OwnNames(p) : Named(byName, p)[k] = p
           /\ \A k \in DOMAIN byName \ OwnNames(p) : Named(byName, p)[k] = byName[k]
<1>1. PICK x : x = p.ns
  OBVIOUS
<1>2. PICK y : y = LocalName(p)
  OBVIOUS
<1>3. PICK m : m = Put(byName, x, p)
  OBVIOUS
<1>4. DOMAIN m = DOMAIN byName \cup {x} /\ m[x] = p /\ \A k \in DOMAIN byName \ {x} : m[k] = byName[k]
  BY <1>3 DEF Put
<1>5. PICK r : r = Put(m, y, p)
  OBVIOUS
<1>6. DOMAIN r = DOMAIN m \cup {y} /\ r[y] = p /\ \A k \in DOMAIN m \ {y} : r[k] = m[k]
  BY <1>5 DEF Put
<1>7. r = Named(byName, p)
  BY <1>1, <1>2, <1>3, <1>5 DEF Named
<1>8. OwnNames(p) = {x, y}
  BY <1>1, <1>2 DEF OwnNames
<1>9. QED
  BY <1>4, <1>6, <1>7, <1>8

LEMMA AddedLeads ==
    ASSUME NEW listed \in SUBSET Property, NEW byName, Answers(byName, listed), Leading(byName, listed),
           NEW p \in Property, \A q \in listed : LocalName(q) # LocalName(p)
    PROVE  Answers(Named(byName, p), listed \cup {p}) /\ Leading(Named(byName, p), listed \cup {p})
<1>1. PICK m : m = Named(byName, p)
  OBVIOUS
<1>2. /\ DOMAIN m = DOMAIN byName \cup OwnNames(p)
      /\ \A k \in OwnNames(p) : m[k] = p
      /\ \A k \in DOMAIN byName \ OwnNames(p) : m[k] = byName[k]
  BY <1>1, NamedIs
<1>3. ASSUME NEW q \in listed, NEW k \in OwnNames(q) PROVE k \in DOMAIN m /\ m[k] = q
  <2>1. k \in DOMAIN byName /\ byName[k] = q
    BY <1>3 DEF Answers
  <2>2. k \notin OwnNames(p)
    <3>1. LocalName(q) # LocalName(p) /\ q \in Property
      OBVIOUS
    <3>2. QED
      BY <3>1, <1>3, NamesApart
  <2>3. QED
    BY <2>1, <2>2, <1>2
<1>4. Answers(m, listed \cup {p})
  BY <1>2, <1>3 DEF Answers
<1>5. Leading(m, listed \cup {p})
  BY <1>2 DEF Leading
<1>6. QED
  BY <1>1, <1>4, <1>5

LEMMA ReplacedLeads ==
    ASSUME NEW listed \in SUBSET Property, NEW byName, Answers(byName, listed), Leading(byName, listed),
           NEW old \in listed, NEW new \in Property, Refines(new),
           \A q \in listed \ {old} : LocalName(q) # LocalName(new)
    PROVE  LET m == Put(Put(Named(byName, new), old.ns, new), LocalName(old), new)
           IN  Answers(m, (listed \ {old}) \cup {new}) /\ Leading(m, (listed \ {old}) \cup {new})
<1>1. PICK m : m = Put(Put(Named(byName, new), old.ns, new), LocalName(old), new)
  OBVIOUS
<1>2. PICK first : first = Named(byName, new)
  OBVIOUS
<1>3. /\ DOMAIN first = DOMAIN byName \cup OwnNames(new)
      /\ \A k \in OwnNames(new) : first[k] = new
      /\ \A k \in DOMAIN byName \ OwnNames(new) : first[k] = byName[k]
  BY <1>2, NamedIs
<1>4. /\ DOMAIN m = DOMAIN first \cup OwnNames(old)
      /\ \A k \in OwnNames(old) : m[k] = new
      /\ \A k \in DOMAIN first \ OwnNames(old) : m[k] = first[k]
  <2>1. PICK x : x = old.ns
    OBVIOUS
  <2>2. PICK y : y = LocalName(old)
    OBVIOUS
  <2>3. PICK r : r = Put(first, x, new)
    OBVIOUS
  <2>4. DOMAIN r = DOMAIN first \cup {x} /\ r[x] = new /\ \A k \in DOMAIN first \ {x} : r[k] = first[k]
    BY <2>3 DEF Put
  <2>5. m = Put(r, y, new)
    BY <1>1, <1>2, <2>1, <2>2, <2>3
  <2>6. DOMAIN m = DOMAIN r \cup {y} /\ m[y] = new /\ \A k \in DOMAIN r \ {y} : m[k] = r[k]
    BY <2>5 DEF Put
  <2>7. OwnNames(old) = {x, y}
    BY <2>1, <2>2 DEF OwnNames
  <2>8. QED
    BY <2>4, <2>6, <2>7
<1>5. PICK left : left = listed \ {old}
  OBVIOUS
<1>6. \A k \in OwnNames(new) : k \in DOMAIN m /\ m[k] = new
  BY <1>3, <1>4
<1>7. ASSUME NEW q \in left, NEW k \in OwnNames(q) PROVE k \in DOMAIN m /\ m[k] = q
  <2>1. q \in listed /\ q \in Property /\ old \in Property /\ q # old
    BY <1>5
  <2>2. k \in DOMAIN byName /\ byName[k] = q
    BY <1>7, <2>1 DEF Answers
  <2>3. LocalName(q) # LocalName(new)
    BY <1>5
  <2>4. k \notin OwnNames(new)
    BY <2>1, <2>3, <1>7, NamesApart
  <2>5. LocalName(q) # LocalName(old)
    BY <2>1, ListedApart
  <2>6. k \notin OwnNames(old)
    BY <2>1, <2>5, <1>7, NamesApart
  <2>7. QED
    BY <2>2, <2>4, <2>6, <1>3, <1>4
<1>8. Answers(m, left \cup {new})
  BY <1>6, <1>7 DEF Answers
<1>9. ASSUME NEW k \in DOMAIN m
      PROVE  (m[k] \in left \cup {new} \/ Refines(m[k])) /\ (k \in OwnNames(m[k]) \/ Refines(m[k]))
  <2>1. CASE k \in OwnNames(old) \cup OwnNames(new)
    <3>1. m[k] = new
      BY <2>1, <1>4, <1>6
    <3>2. QED
      BY <3>1
  <2>2. CASE k \notin OwnNames(old) \cup OwnNames(new)
    <3>1. k \in DOMAIN byName /\ m[k] = byName[k]
      BY <2>2, <1>3, <1>4
    <3>2. (byName[k] \in listed \/ Refines(byName[k])) /\ (k \in OwnNames(byName[k]) \/ Refines(byName[k]))
      BY <3>1 DEF Leading
    <3>3. byName[k] = old => Refines(old)
      BY <3>2, <2>2
    <3>4. QED
      BY <3>1, <3>2, <3>3, <1>5
  <2>3. QED
    BY <2>1, <2>2
<1>10. Leading(m, left \cup {new})
  BY <1>9 DEF Leading
<1>11. QED
  BY <1>1, <1>5, <1>8, <1>10

-----------------------------------------------------------------------------
(* The builder, and what it keeps while it has not failed.                 *)
Made(ok, types, props, byName, body, id) ==
    [ok |-> ok, types |-> types, props |-> props, byName |-> byName, body |-> body, id |-> id]
IsBuilder(b) == b.ok \in BOOLEAN /\ b = Made(b.ok, b.types, b.props, b.byName, b.body, b.id)

Live(props, byName, body, id) ==
    /\ props \in Seq(Property) /\ Distinct(props)
    /\ Answers(byName, Range(props)) /\ Leading(byName, Range(props))
    /\ body = NoProperty \/ (body \in Range(props) /\ body.isBody)
    /\ id = NoProperty \/ (id \in Range(props) /\ id.isId)
IsLive(b) == IsBuilder(b) /\ (b.ok => Live(b.props, b.byName, b.body, b.id))

LEMMA Failing ==
    ASSUME NEW b, IsBuilder(b)
    PROVE  IsLive(Fail(b)) /\ Fail(b).types = b.types /\ ~Fail(b).ok
<1>1. b = Made(b.ok, b.types, b.props, b.byName, b.body, b.id)
  BY DEF IsBuilder
<1>2. PICK n : n = Fail(b)
  OBVIOUS
<1>3. n = Made(FALSE, b.types, b.props, b.byName, b.body, b.id)
  BY <1>1, <1>2 DEF Fail, Made
<1>4. IsBuilder(n) /\ n.ok = FALSE /\ n.types = b.types
  BY <1>3 DEF IsBuilder, Made
<1>5. QED
  BY <1>2, <1>4 DEF IsLive

(* add_property, on a builder that has not failed.                         *)
Added(n, b, p, at, validate) ==
    IF validate /\ LocalName(p) \in DOMAIN b.byName THEN n = Fail(b)
    ELSE n = Made(TRUE, b.types, IF at = 0 THEN Append(b.props, p) ELSE InsertAt(b.props, at, p),
                  Named(b.byName, p), b.body, b.id)

LEMMA Adding ==
    ASSUME NEW b, IsBuilder(b), b.ok, NEW p, NEW at, NEW validate
    PROVE  Added(AddProperty(b, p, at, validate), b, p, at, validate)
<1>1. PICK next : next = Named(b.byName, p)
  OBVIOUS
<1>2. PICK list : list = IF at = 0 THEN Append(b.props, p) ELSE InsertAt(b.props, at, p)
  OBVIOUS
<1>3. b = Made(TRUE, b.types, b.props, b.byName, b.body, b.id)
  BY DEF IsBuilder
<1>4. PICK n : n = AddProperty(b, p, at, validate)
  OBVIOUS
<1>5. CASE validate /\ LocalName(p) \in DOMAIN b.byName
  BY <1>5 DEF AddProperty, Added
<1>6. CASE ~(validate /\ LocalName(p) \in DOMAIN b.byName)
  <2>1. n = [b EXCEPT !.byName = next, !.props = list]
    BY <1>1, <1>2, <1>4, <1>6 DEF AddProperty
  <2>2. n = Made(TRUE, b.types, list, next, b.body, b.id)
    BY <2>1, <1>3 DEF Made
  <2>3. QED
    BY <2>2, <1>1, <1>2, <1>4, <1>6 DEF Added
<1>7. QED
  BY <1>5, <1>6

LEMMA ListedTyped ==
    ASSUME NEW props \in Seq(Property)
    PROVE  Range(props) \in SUBSET Property
BY DEF Range

(* A property that refines no other is added, its flags set.               *)
LEMMA FreshFolded ==
    ASSUME NEW b, IsLive(b), b.ok, NEW p \in Property, ~Refines(p)
    PROVE  IsLive(FoldProperty(b, p)) /\ FoldProperty(b, p).types = b.types
<1>1. PICK types, props, byName, body, id : b = Made(TRUE, types, props, byName, body, id)
  BY DEF IsLive, IsBuilder
<1>2. /\ IsBuilder(b) /\ b.types = types /\ b.props = props /\ b.byName = byName /\ b.body = body /\ b.id = id
      /\ Live(props, byName, body, id)
  BY <1>1 DEF IsLive, Made
<1>3. PICK bodied : bodied = IF p.isBody THEN SetBody(b, p) ELSE b
  OBVIOUS
<1>4. PICK marked : marked = IF bodied.ok /\ p.isId THEN SetId(bodied, p) ELSE bodied
  OBVIOUS
<1>5. FoldProperty(b, p) = IF ~marked.ok THEN marked ELSE AddProperty(marked, p, 0, TRUE)
  BY <1>3, <1>4 DEF FoldProperty
<1>6. p.isBody \in BOOLEAN /\ p.isId \in BOOLEAN
  BY DEF Property
<1>7. \/ bodied = Fail(b)
      \/ \E bd : /\ bodied = Made(TRUE, types, props, byName, bd, id)
                 /\ bd = body \/ (bd = p /\ p.isBody)
  <2>1. CASE p.isBody /\ body # NoProperty
    BY <2>1, <1>2, <1>3 DEF SetBody
  <2>2. CASE p.isBody /\ body = NoProperty
    <3>1. bodied = [b EXCEPT !.body = p]
      BY <2>2, <1>2, <1>3 DEF SetBody
    <3>2. bodied = Made(TRUE, types, props, byName, p, id)
      BY <3>1, <1>1 DEF Made
    <3>3. QED
      BY <3>2, <2>2
  <2>3. CASE ~p.isBody
    BY <2>3, <1>1, <1>3
  <2>4. QED
    BY <2>1, <2>2, <2>3
<1>8. CASE bodied = Fail(b)
  <2>1. IsLive(bodied) /\ bodied.types = types /\ ~bodied.ok
    BY <1>2, <1>8, Failing
  <2>2. marked = bodied
    BY <2>1, <1>4
  <2>3. QED
    BY <2>1, <2>2, <1>2, <1>5
<1>9. CASE \E bd : bodied = Made(TRUE, types, props, byName, bd, id) /\ (bd = body \/ (bd = p /\ p.isBody))
  <2>1. PICK bd : bodied = Made(TRUE, types, props, byName, bd, id) /\ (bd = body \/ (bd = p /\ p.isBody))
    BY <1>9
  <2>2. IsBuilder(bodied) /\ bodied.ok /\ bodied.types = types /\ bodied.id = id
    BY <2>1 DEF IsBuilder, Made
  <2>3. \/ marked = Fail(bodied)
        \/ \E i : /\ marked = Made(TRUE, types, props, byName, bd, i)
                  /\ i = id \/ (i = p /\ p.isId)
    <3>1. CASE p.isId /\ id # NoProperty
      BY <3>1, <2>2, <1>4 DEF SetId
    <3>2. CASE p.isId /\ id = NoProperty
      <4>1. marked = [bodied EXCEPT !.id = p]
        BY <3>2, <2>2, <1>4 DEF SetId
      <4>2. marked = Made(TRUE, types, props, byName, bd, p)
        BY <4>1, <2>1 DEF Made
      <4>3. QED
        BY <4>2, <3>2
    <3>3. CASE ~p.isId
      BY <3>3, <2>1, <1>4
    <3>4. QED
      BY <3>1, <3>2, <3>3
  <2>4. CASE marked = Fail(bodied)
    <3>1. IsLive(marked) /\ marked.types = types /\ ~marked.ok
      BY <2>2, <2>4, Failing
    <3>2. QED
      BY <3>1, <1>2, <1>5
  <2>5. CASE \E i : marked = Made(TRUE, types, props, byName, bd, i) /\ (i = id \/ (i = p /\ p.isId))
    <3>1. PICK i : marked = Made(TRUE, types, props, byName, bd, i) /\ (i = id \/ (i = p /\ p.isId))
      BY <2>5
    <3>2. /\ IsBuilder(marked) /\ marked.ok /\ marked.types = types /\ marked.props = props
          /\ marked.byName = byName /\ marked.body = bd /\ marked.id = i
      BY <3>1 DEF IsBuilder, Made
    <3>3. PICK n : n = AddProperty(marked, p, 0, TRUE)
      OBVIOUS
    <3>4. FoldProperty(b, p) = n
      BY <3>2, <3>3, <1>5
    <3>5. CASE LocalName(p) \in DOMAIN byName
      <4>1. n = Fail(marked)
        BY <3>2, <3>3, <3>5, Adding DEF Added
      <4>2. IsLive(n) /\ n.types = types
        BY <4>1, <3>2, Failing
      <4>3. QED
        BY <4>2, <3>4, <1>2
    <3>6. CASE LocalName(p) \notin DOMAIN byName
      <4>1. PICK next : next = Named(byName, p)
        OBVIOUS
      <4>2. PICK list : list = Append(props, p)
        OBVIOUS
      <4>3. n = Made(TRUE, types, list, next, bd, i)
        BY <4>1, <4>2, <3>2, <3>3, <3>6, Adding DEF Added
      <4>4. n.ok /\ IsBuilder(n) /\ n.types = types /\ n.props = list /\ n.byName = next /\ n.body = bd /\ n.id = i
        BY <4>3 DEF IsBuilder, Made
      <4>5. PICK listed \in SUBSET Property : listed = Range(props)
        BY <1>2, ListedTyped DEF Live
      <4>6. Answers(byName, listed) /\ Leading(byName, listed) /\ Distinct(props) /\ props \in Seq(Property)
        BY <4>5, <1>2 DEF Live
      <4>7. \A q \in listed : LocalName(q) # LocalName(p)
        BY <4>6, <3>6 DEF Answers, OwnNames
      <4>8. p \notin listed
        BY <4>7
      <4>9. list \in Seq(Property) /\ Range(list) = listed \cup {p} /\ Distinct(list)
        BY <4>2, <4>5, <4>6, <4>8, RangeAppend, ListAppended
      <4>10. Answers(next, listed \cup {p}) /\ Leading(next, listed \cup {p})
        BY <4>1, <4>6, <4>7, AddedLeads
      <4>11. bd = NoProperty \/ (bd \in listed \cup {p} /\ bd.isBody)
        BY <2>1, <4>5, <1>2 DEF Live
      <4>12. i = NoProperty \/ (i \in listed \cup {p} /\ i.isId)
        BY <3>1, <4>5, <1>2 DEF Live
      <4>13. Live(list, next, bd, i)
        BY <4>9, <4>10, <4>11, <4>12 DEF Live
      <4>14. QED
        BY <4>4, <4>13, <3>4, <1>2 DEF IsLive
    <3>7. QED
      BY <3>5, <3>6
  <2>6. QED
    BY <2>3, <2>4, <2>5
<1>10. QED
  BY <1>7, <1>8, <1>9

(* A refinement takes the place or the names of what it refines.           *)
LEMMA RefinementReplaces ==
    ASSUME NEW b, IsLive(b), b.ok, NEW old, NEW new \in Property, Refines(new)
    PROVE  IsLive(ReplaceProperty(b, old, new)) /\ ReplaceProperty(b, old, new).types = b.types
<1>1. PICK types, props, byName, body, id : b = Made(TRUE, types, props, byName, body, id)
  BY DEF IsLive, IsBuilder
<1>2. /\ IsBuilder(b) /\ b.types = types /\ b.props = props /\ b.byName = byName /\ b.body = body /\ b.id = id
      /\ Live(props, byName, body, id)
  BY <1>1 DEF IsLive, Made
<1>3. PICK bd : bd = IF old.isBody THEN new ELSE body
  OBVIOUS
<1>4. PICK i : i = IF old.isId THEN new ELSE id
  OBVIOUS
<1>5. PICK marked : marked = [b EXCEPT !.id = IF old.isId THEN new ELSE @, !.body = IF old.isBody THEN new ELSE @]
  OBVIOUS
<1>6. marked = Made(TRUE, types, props, byName, bd, i)
  BY <1>1, <1>3, <1>4, <1>5 DEF Made
<1>7. PICK at : at = IndexOf(marked.props, old)
  OBVIOUS
<1>8. PICK less : less = RemoveAt(props, at)
  OBVIOUS
<1>9. PICK without : without = [marked EXCEPT !.props = RemoveAt(@, at)]
  OBVIOUS
<1>10. without = Made(TRUE, types, less, byName, bd, i)
  BY <1>6, <1>8, <1>9 DEF Made
<1>11. marked.props = props
  BY <1>6 DEF Made
<1>12. PICK place : place = IF new.replaces THEN 0 ELSE at
  OBVIOUS
<1>0. PICK added : added = AddProperty([marked EXCEPT !.props = RemoveAt(@, at)], new,
                                       IF new.replaces THEN 0 ELSE at, LocalName(old) # LocalName(new))
  OBVIOUS
<1>13. added = AddProperty(without, new, place, LocalName(old) # LocalName(new))
  BY <1>0, <1>9, <1>12
<1>14. PICK n : n = ReplaceProperty(b, old, new)
  OBVIOUS
<1>15. n = IF (old.isId /\ ~new.isId) \/ (old.isBody /\ ~new.isBody) \/ at = 0 THEN Fail(b)
           ELSE IF ~added.ok THEN added
           ELSE [added EXCEPT !.byName = Put(Put(@, old.ns, new), LocalName(old), new)]
  BY <1>0, <1>5, <1>7, <1>14 DEF ReplaceProperty
<1>16. CASE (old.isId /\ ~new.isId) \/ (old.isBody /\ ~new.isBody) \/ at = 0
  BY <1>2, <1>14, <1>15, <1>16, Failing
<1>17. CASE ~((old.isId /\ ~new.isId) \/ (old.isBody /\ ~new.isBody) \/ at = 0)
  <2>1. /\ IsBuilder(without) /\ without.ok /\ without.types = types /\ without.props = less
        /\ without.byName = byName /\ without.body = bd /\ without.id = i
    BY <1>10 DEF IsBuilder, Made
  <2>2. PICK listed \in SUBSET Property : listed = Range(props)
    BY <1>2, ListedTyped DEF Live
  <2>3. Answers(byName, listed) /\ Leading(byName, listed) /\ Distinct(props) /\ props \in Seq(Property)
    BY <2>2, <1>2 DEF Live
  <2>4. at \in 1..Len(props) /\ props[at] = old
    BY <1>7, <1>11, <1>17, <2>3, FoundAt
  <2>5. old \in listed
    BY <2>2, <2>3, <2>4 DEF Range
  <2>6. PICK left : left = listed \ {old}
    OBVIOUS
  <2>7. less \in Seq(Property) /\ Len(less) = Len(props) - 1 /\ Distinct(less) /\ Range(less) = left
    BY <1>8, <2>2, <2>3, <2>4, <2>6, ListRemoved
  <2>8. CASE LocalName(old) # LocalName(new) /\ LocalName(new) \in DOMAIN byName
    <3>1. added = Fail(without)
      BY <1>13, <2>1, <2>8, Adding DEF Added
    <3>2. IsLive(added) /\ added.types = types /\ ~added.ok
      BY <2>1, <3>1, Failing
    <3>3. n = added
      BY <1>15, <1>17, <3>2
    <3>4. QED
      BY <3>2, <3>3, <1>2, <1>14
  <2>9. CASE ~(LocalName(old) # LocalName(new) /\ LocalName(new) \in DOMAIN byName)
    <3>1. PICK list : list = IF place = 0 THEN Append(less, new) ELSE InsertAt(less, place, new)
      OBVIOUS
    <3>2. added = Made(TRUE, types, list, Named(byName, new), bd, i)
      BY <1>13, <2>1, <2>9, <3>1, Adding DEF Added
    <3>3. PICK names : names = Put(Put(Named(byName, new), old.ns, new), LocalName(old), new)
      OBVIOUS
    <3>4. added.ok /\ added.byName = Named(byName, new)
      BY <3>2 DEF Made
    <3>5. n = [added EXCEPT !.byName = names]
      BY <3>3, <3>4, <1>15, <1>17
    <3>6. n = Made(TRUE, types, list, names, bd, i)
      BY <3>2, <3>5 DEF Made
    <3>7. n.ok /\ IsBuilder(n) /\ n.types = types /\ n.props = list /\ n.byName = names /\ n.body = bd /\ n.id = i
      BY <3>6 DEF IsBuilder, Made
    <3>8. ASSUME NEW q \in left PROVE LocalName(q) # LocalName(new)
      <4>1. q \in listed /\ q # old
        BY <2>6
      <4>2. LocalName(q) # LocalName(old)
        BY <4>1, <2>3, <2>5, ListedApart
      <4>3. LocalName(q) \in DOMAIN byName
        BY <4>1, <2>3 DEF Answers, OwnNames
      <4>4. QED
        BY <4>2, <4>3, <2>9
    <3>9. new \notin left
      BY <3>8
    <3>10. list \in Seq(Property) /\ Range(list) = left \cup {new} /\ Distinct(list)
      <4>1. CASE place = 0
        BY <4>1, <3>1, <3>9, <2>7, RangeAppend, ListAppended
      <4>2. CASE place # 0
        <5>1. at \in 1..Len(less) + 1 /\ place = at
          <6>1. Len(props) \in Nat
            BY <2>3
          <6>2. QED
            BY <6>1, <2>4, <2>7, <4>2, <1>12
        <5>2. QED
          BY <5>1, <4>2, <3>1, <3>9, <2>7, ListInserted
      <4>3. QED
        BY <4>1, <4>2
    <3>11. Answers(names, left \cup {new}) /\ Leading(names, left \cup {new})
      BY <3>3, <3>8, <2>3, <2>5, <2>6, ReplacedLeads
    <3>12. bd = NoProperty \/ (bd \in left \cup {new} /\ bd.isBody)
      BY <1>2, <1>3, <1>17, <2>2, <2>6 DEF Live
    <3>13. i = NoProperty \/ (i \in left \cup {new} /\ i.isId)
      BY <1>2, <1>4, <1>17, <2>2, <2>6 DEF Live
    <3>14. Live(list, names, bd, i)
      BY <3>10, <3>11, <3>12, <3>13 DEF Live
    <3>15. QED
      BY <3>7, <3>14, <1>2, <1>14 DEF IsLive
  <2>10. QED
    BY <2>8, <2>9
<1>18. QED
  BY <1>16, <1>17

LEMMA PropertyFolded ==
    ASSUME NEW b, IsLive(b), NEW p \in Property
    PROVE  IsLive(FoldProperty(b, p)) /\ FoldProperty(b, p).types = b.types
<1>1. CASE ~b.ok
  BY <1>1 DEF FoldProperty
<1>2. CASE b.ok /\ ~Refines(p)
  BY <1>2, FreshFolded
<1>3. CASE b.ok /\ Refines(p)
  <2>1. PICK attr : attr = Resolve(p.refines[2], Resolve(p.refines[1], p.ns[1])[1])
    OBVIOUS
  <2>2. FoldProperty(b, p) = IF attr \in DOMAIN b.byName THEN ReplaceProperty(b, b.byName[attr], p) ELSE Fail(b)
    BY <2>1, <1>3 DEF FoldProperty, RedefineProperty
  <2>3. QED
    BY <2>2, <1>3, RefinementReplaces, Failing DEF IsLive
<1>4. b.ok \in BOOLEAN
  BY DEF IsLive, IsBuilder
<1>5. QED
  BY <1>1, <1>2, <1>3

-----------------------------------------------------------------------------
(* A type adds its properties and itself.                                  *)
Adds(c, b, p) == FoldProperty(b, p)
LiveWith(c, b) == IsLive(b) /\ b.types = c

B == INSTANCE Folding WITH Op <- Adds, Holds <- LiveWith

LEMMA PropertiesFold ==
    ASSUME NEW b, NEW props, NEW c
    PROVE  FoldProperties(b, props) = B!Fold(c, b, props)
BY Zenon DEF FoldProperties, Adds, B!Fold, FoldLeft, MapThenFoldSet, Max, B!FoldLeft, B!MapThenFoldSet, B!Max

LEMMA DescriptorsTyped ==
    ASSUME NEW t, t.props \in Seq(PropertyDefs(Qualifieds)), NEW inherited \in BOOLEAN, t.name \in Names
    PROVE  Descriptors(t, inherited) \in Seq(Property)
<1>1. PICK defs \in Seq(PropertyDefs(Qualifieds)) : defs = t.props
  OBVIOUS
<1>2. PICK n \in Nat : n = Len(defs) /\ DOMAIN defs = 1..n
  OBVIOUS
<1>3. PICK props : props = Descriptors(t, inherited)
  OBVIOUS
<1>4. props = [i \in 1..n |-> Descriptor(defs[i], t.name, inherited)]
  BY <1>1, <1>2, <1>3 DEF Descriptors
<1>5. ASSUME NEW i \in 1..n PROVE props[i] \in Property
  <2>1. PICK p \in PropertyDefs(Qualifieds) : p = defs[i]
    BY <1>2
  <2>2. Descriptor(p, t.name, inherited) \in Property
    BY DEF Descriptor, PropertyDefs, Property
  <2>3. QED
    BY <2>1, <2>2, <1>4
<1>6. PICK S : S = Property
  OBVIOUS
<1>7. \A i \in 1..n : props[i] \in S
  BY <1>5, <1>6
<1>8. props = [i \in 1..n |-> props[i]]
  BY <1>4
<1>9. props \in Seq(S)
  BY <1>7, <1>8
<1>10. QED
  BY <1>3, <1>6, <1>9

LEMMA TraitAdded ==
    ASSUME NEW b, IsLive(b), b.types \in Seq(Names), NEW t, t.props \in Seq(PropertyDefs(Qualifieds)),
           NEW inherited \in BOOLEAN, t.name \in Names
    PROVE  /\ IsLive(AddTrait(b, t, inherited)) /\ AddTrait(b, t, inherited).types \in Seq(Names)
           /\ AddTrait(b, t, inherited).ok => Range(AddTrait(b, t, inherited).types) = Range(b.types) \cup {t.name}
<1>1. PICK name \in Names : name = t.name
  OBVIOUS
<1>2. PICK types \in Seq(Names) : types = b.types
  OBVIOUS
<1>3. PICK props \in Seq(Property) : props = Descriptors(t, inherited)
  BY DescriptorsTyped
<1>4. PICK folded : folded = FoldProperties(b, props)
  OBVIOUS
<1>5. LiveWith(types, b)
  BY <1>2 DEF LiveWith
<1>6. ASSUME NEW a, NEW p \in Property, LiveWith(types, a) PROVE LiveWith(types, Adds(types, a, p))
  BY <1>6, PropertyFolded DEF LiveWith, Adds
<1>7. LiveWith(types, B!Fold(types, b, props))
  BY <1>5, <1>6, B!FoldKeeps
<1>8. LiveWith(types, folded)
  BY <1>4, <1>7, PropertiesFold
<1>11. IsLive(folded) /\ folded.types = types
  BY <1>8 DEF LiveWith
<1>12. PICK n : n = AddTrait(b, t, inherited)
  OBVIOUS
<1>13. n = IF inherited /\ t.extends # <<>> THEN Fail(b)
           ELSE IF Contains(types, name) THEN b
           ELSE [folded EXCEPT !.types = Append(@, name)]
  BY <1>1, <1>2, <1>3, <1>4, <1>12 DEF AddTrait
<1>14. CASE inherited /\ t.extends # <<>>
  BY <1>2, <1>12, <1>13, <1>14, Failing DEF IsLive
<1>15. CASE ~(inherited /\ t.extends # <<>>) /\ Contains(types, name)
  <2>1. name \in Range(types)
    BY <1>15 DEF Contains, Range
  <2>2. n = b
    BY <1>13, <1>15
  <2>3. QED
    BY <2>1, <2>2, <1>1, <1>2, <1>12
<1>16. CASE ~(inherited /\ t.extends # <<>>) /\ ~Contains(types, name)
  <2>1. n = [folded EXCEPT !.types = Append(@, name)]
    BY <1>13, <1>16
  <2>2. folded = Made(folded.ok, types, folded.props, folded.byName, folded.body, folded.id) /\ folded.ok \in BOOLEAN
    BY <1>11 DEF IsLive, IsBuilder
  <2>3. PICK more : more = Append(types, name)
    OBVIOUS
  <2>4. n = Made(folded.ok, more, folded.props, folded.byName, folded.body, folded.id)
    <3>1. PICK ok, props1, byName, body, id : folded = Made(ok, types, props1, byName, body, id)
      BY <2>2
    <3>2. n = Made(ok, more, props1, byName, body, id)
      BY <2>1, <2>3, <3>1 DEF Made
    <3>3. /\ folded.ok = ok /\ folded.props = props1 /\ folded.byName = byName
          /\ folded.body = body /\ folded.id = id
      BY <3>1 DEF Made
    <3>4. QED
      BY <3>2, <3>3
  <2>5. /\ IsBuilder(n) /\ n.types = more /\ n.ok = folded.ok /\ n.props = folded.props
        /\ n.byName = folded.byName /\ n.body = folded.body /\ n.id = folded.id
    BY <2>2, <2>4 DEF IsBuilder, Made
  <2>6. IsLive(n)
    BY <2>5, <1>11 DEF IsLive
  <2>7. more \in Seq(Names) /\ Range(more) = Range(types) \cup {name}
    BY <2>3, RangeAppend
  <2>8. QED
    BY <2>5, <2>6, <2>7, <1>1, <1>2, <1>12
<1>17. QED
  BY <1>14, <1>15, <1>16

-----------------------------------------------------------------------------
(* The types met on a traversal: with each, those it leads to, unless one  *)
(* of them is not known.                                                   *)
Met(visits) == {v[1] : v \in Range(visits)}
Closed(types, names) ==
    \A m \in names :
        m = NoType \/ (/\ KnownIn(types, m)
                       /\ \A x \in Range(SupersIn(types, m)) \cup Range(TraitsIn(types, m)) :
                             x \in names \/ NoType \in names)

FollowedUpTo(c, visits) ==
    visits \in Seq(Visit) /\ \A v : v \in Range(visits) <=> \E i \in 1..c[2] : v \in Range(c[1][i])
W == INSTANCE Folding WITH Op <- Follow, Holds <- FollowedUpTo

LEMMA RangeJoined ==
    ASSUME NEW S, NEW s \in Seq(S), NEW t \in Seq(S)
    PROVE  Range(s \o t) = Range(s) \cup Range(t)
<1>1. PICK m \in Nat : m = Len(s) /\ DOMAIN s = 1..m
  OBVIOUS
<1>2. PICK n \in Nat : n = Len(t) /\ DOMAIN t = 1..n
  OBVIOUS
<1>3. PICK a : a = s \o t
  OBVIOUS
<1>4. /\ DOMAIN a = 1..m + n /\ \A i \in 1..m : a[i] = s[i]
      /\ \A i \in 1..n : a[m + i] = t[i]
  <2>1. a \in Seq(S) /\ Joined(a, s, t)
    BY <1>3, Joins
  <2>2. Len(a) = m + n /\ DOMAIN a = 1..Len(a)
    BY <2>1, <1>1, <1>2 DEF Joined
  <2>3. QED
    BY <2>1, <2>2, <1>1, <1>2 DEF Joined
<1>5. ASSUME NEW e \in Range(a) PROVE e \in Range(s) \cup Range(t)
  <2>1. PICK i \in 1..m + n : e = a[i]
    BY <1>4 DEF Range
  <2>2. CASE i <= m
    <3>1. i \in 1..m
      BY <2>2
    <3>2. QED
      BY <3>1, <2>1, <1>1, <1>4 DEF Range
  <2>3. CASE i > m
    <3>1. i - m \in 1..n /\ m + (i - m) = i
      BY <2>3
    <3>2. QED
      BY <3>1, <2>1, <1>2, <1>4 DEF Range
  <2>4. QED
    BY <2>2, <2>3
<1>6. ASSUME NEW e \in Range(s) PROVE e \in Range(a)
  <2>1. PICK i \in 1..m : e = s[i]
    BY <1>1 DEF Range
  <2>2. i \in 1..m + n
    OBVIOUS
  <2>3. QED
    BY <2>1, <2>2, <1>4 DEF Range
<1>7. ASSUME NEW e \in Range(t) PROVE e \in Range(a)
  <2>1. PICK i \in 1..n : e = t[i]
    BY <1>2 DEF Range
  <2>2. m + i \in 1..m + n
    OBVIOUS
  <2>3. QED
    BY <2>1, <2>2, <1>4 DEF Range
<1>8. QED
  BY <1>3, <1>5, <1>6, <1>7

LEMMA InTurnFollows ==
    ASSUME NEW calls \in Seq(Seq(Visit))
    PROVE  \A v : v \in Range(InTurn(calls)) <=> \E i \in 1..Len(calls) : v \in Range(calls[i])
<1>1. FollowedUpTo(<<calls, 0>>, <<>>)
  <2>1. <<>> \in Seq(Visit) /\ Range(<<>>) = {}
    BY DEF Range
  <2>2. \A c : c = <<calls, 0>> => c[1] = calls /\ c[2] = 0
    OBVIOUS
  <2>3. 1..0 = {}
    OBVIOUS
  <2>4. QED
    BY <2>1, <2>2, <2>3 DEF FollowedUpTo
<1>2. ASSUME NEW a, NEW n \in 1..Len(calls), FollowedUpTo(<<calls, n - 1>>, a)
      PROVE  FollowedUpTo(<<calls, n>>, Follow({}, a, calls[n]))
  <2>1. PICK k : k = <<calls, n - 1>>
    OBVIOUS
  <2>2. k[1] = calls /\ k[2] = n - 1
    BY <2>1
  <2>3. a \in Seq(Visit) /\ \A v : v \in Range(a) <=> \E i \in 1..n - 1 : v \in Range(calls[i])
    BY <2>1, <2>2, <1>2 DEF FollowedUpTo
  <2>4. PICK call \in Seq(Visit) : call = calls[n]
    OBVIOUS
  <2>5. a \o call \in Seq(Visit) /\ Range(a \o call) = Range(a) \cup Range(call)
    <3>1. a \o call \in Seq(Visit)
      BY <2>3, ConcatProperties
    <3>2. QED
      BY <3>1, <2>3, RangeJoined
  <2>6. \A i : i \in 1..n <=> i = n \/ i \in 1..n - 1
    OBVIOUS
  <2>7. PICK b \in Seq(Visit) : b = Follow({}, a, calls[n]) /\ Range(b) = Range(a) \cup Range(call)
    BY <2>4, <2>5 DEF Follow
  <2>8. \A v : v \in Range(b) <=> \E i \in 1..n : v \in Range(calls[i])
    BY <2>3, <2>4, <2>6, <2>7
  <2>9. PICK c : c = <<calls, n>>
    OBVIOUS
  <2>10. c[1] = calls /\ c[2] = n
    BY <2>9
  <2>11. FollowedUpTo(c, b)
    BY <2>8, <2>10 DEF FollowedUpTo
  <2>12. QED
    BY <2>7, <2>9, <2>11
<1>3. FollowedUpTo(<<calls, Len(calls)>>, W!Fold({}, <<>>, calls))
  BY <1>1, <1>2, W!FoldCounts
<1>4. InTurn(calls) = W!Fold({}, <<>>, calls)
  BY Zenon DEF InTurn, Follow, W!Fold, FoldLeft, MapThenFoldSet, Max, W!FoldLeft, W!MapThenFoldSet, W!Max
<1>5. PICK k : k = <<calls, Len(calls)>>
  OBVIOUS
<1>6. k[1] = calls /\ k[2] = Len(calls)
  BY <1>5
<1>7. QED
  BY <1>3, <1>4, <1>5, <1>6 DEF FollowedUpTo

(* What is met for a list of names is closed, as what is met for each is.  *)
Covers(types, visits, n) == (n \in Met(visits) \/ NoType \in Met(visits)) /\ Closed(types, Met(visits))

LEMMA CallCovers ==
    ASSUME NEW types, NEW f, NEW n, NEW t, KnownIn(types, n) => Covers(types, f[<<n, t>>], n)
    PROVE  Covers(types, Call(types, f, n, t), n)
<1>1. CASE KnownIn(types, n)
  BY <1>1 DEF Call
<1>2. CASE ~KnownIn(types, n)
  <2>1. PICK s : s = <<<<NoType, t>>>>
    OBVIOUS
  <2>2. Range(s) = {<<NoType, t>>}
    BY <2>1 DEF Range
  <2>3. <<NoType, t>>[1] = NoType
    OBVIOUS
  <2>4. Met(s) = {NoType}
    BY <2>2, <2>3 DEF Met
  <2>5. Covers(types, s, n)
    BY <2>4 DEF Covers, Closed
  <2>6. QED
    BY <2>1, <2>5, <1>2 DEF Call
<1>3. QED
  BY <1>1, <1>2

LEMMA CallsCover ==
    ASSUME NEW types, NEW f, NEW names \in Seq(Names), NEW t \in BOOLEAN,
           \A n \in Range(names) : KnownIn(types, n) => f[<<n, t>>] \in Seq(Visit) /\ Covers(types, f[<<n, t>>], n)
    PROVE  LET met == Met(InTurn(Calls(types, f, names, t)))
           IN  Closed(types, met) /\ \A n \in Range(names) : n \in met \/ NoType \in met
<1>1. PICK c \in Seq(Seq(Visit)) : c = Calls(types, f, names, t)
  BY CallsTyped
<1>2. PICK k \in Nat : k = Len(names) /\ DOMAIN names = 1..k
  OBVIOUS
<1>3. Len(c) = k /\ \A i \in 1..k : c[i] = Call(types, f, names[i], t)
  BY <1>1, <1>2, CallsTyped
<1>4. ASSUME NEW i \in 1..k PROVE Covers(types, c[i], names[i]) /\ names[i] \in Range(names)
  <2>1. names[i] \in Range(names)
    BY <1>2 DEF Range
  <2>2. QED
    BY <2>1, <1>3, CallCovers
<1>5. PICK met : met = Met(InTurn(c))
  OBVIOUS
<1>6. \A v : v \in Range(InTurn(c)) <=> \E i \in 1..k : v \in Range(c[i])
  BY <1>3, InTurnFollows
<1>7. \A m : m \in met <=> \E i \in 1..k : m \in Met(c[i])
  BY <1>5, <1>6 DEF Met
<1>8. Closed(types, met)
  <2>1. SUFFICES ASSUME NEW m \in met, m # NoType
                 PROVE  /\ KnownIn(types, m)
                        /\ \A x \in Range(SupersIn(types, m)) \cup Range(TraitsIn(types, m)) :
                              x \in met \/ NoType \in met
    BY DEF Closed
  <2>2. PICK i \in 1..k : m \in Met(c[i])
    BY <1>7
  <2>3. Closed(types, Met(c[i]))
    BY <1>4 DEF Covers
  <2>4. QED
    BY <2>1, <2>2, <2>3, <1>7 DEF Closed
<1>9. ASSUME NEW n \in Range(names) PROVE n \in met \/ NoType \in met
  <2>1. PICK i \in 1..k : n = names[i]
    BY <1>2 DEF Range
  <2>2. QED
    BY <2>1, <1>4, <1>7 DEF Covers
<1>10. QED
  BY <1>1, <1>5, <1>8, <1>9

LEMMA OrderCovers ==
    ASSUME NEW lib, NEW types, Registered(lib, types)
    PROVE  \A p \in Walked(types) : Covers(types, Order(types)[p], p[1])
<1>1. PICK o : o = Order(types)
  OBVIOUS
<1>2. PICK bad : bad = {p \in Walked(types) : ~Covers(types, o[p], p[1])}
  OBVIOUS
<1>3. SUFFICES ASSUME bad # {} PROVE FALSE
  BY <1>1, <1>2
<1>4. PICK p \in bad : R!Below(types, Walked(types), p) \cap bad = {}
  BY <1>2, <1>3, WalkGrounded DEF R!Grounded
<1>5. p \in Walked(types) /\ ~Covers(types, o[p], p[1])
  BY <1>2
<1>6. PICK n \in Names, t \in BOOLEAN : p = <<n, t>> /\ p[1] = n /\ p[2] = t /\ Walkable(types, n) /\ KnownIn(types, n)
  BY <1>5, WalkedKnown
<1>7. \A q \in R!Below(types, Walked(types), p) : Covers(types, o[q], q[1]) /\ o[q] \in Seq(Visit)
  BY <1>1, <1>2, <1>4, OrderTyped DEF R!Below, Ordered
<1>8. PICK supers \in Seq(Names) : supers = SupersIn(types, n)
  BY <1>6 DEF Walkable
<1>9. PICK traits \in Seq(Names) : traits = TraitsIn(types, n)
  BY <1>6 DEF Walkable
<1>10. \A m, u : <<m, u>>[1] = m
  OBVIOUS
<1>11. \A m \in Range(supers) : KnownIn(types, m) => o[<<m, t>>] \in Seq(Visit) /\ Covers(types, o[<<m, t>>], m)
  BY <1>6, <1>7, <1>8, <1>10, AsksBelow
<1>12. \A m \in Range(traits) : KnownIn(types, m) => o[<<m, TRUE>>] \in Seq(Visit) /\ Covers(types, o[<<m, TRUE>>], m)
  BY <1>6, <1>7, <1>9, <1>10, AsksBelow
<1>13. PICK a \in Seq(Visit) : a = InTurn(Calls(types, o, supers, t))
  BY <1>11, CallsTyped, InTurnTyped
<1>14. PICK c \in Seq(Visit) : c = InTurn(Calls(types, o, traits, TRUE))
  BY <1>12, CallsTyped, InTurnTyped
<1>15. PICK b \in Seq(Visit) : b = <<<<n, ~t>>>>
  BY OneVisit
<1>16. o[p] = a \o b \o c
  <2>1. o[p] = Traversal(types, o, n, t)
    BY <1>1, <1>5, <1>6, OrderSolves
  <2>2. QED
    BY <2>1, <1>8, <1>9, <1>13, <1>14, <1>15 DEF Traversal, SupersIn, TraitsIn
<1>17. Closed(types, Met(a)) /\ \A m \in Range(supers) : m \in Met(a) \/ NoType \in Met(a)
  BY <1>11, <1>13, CallsCover
<1>18. Closed(types, Met(c)) /\ \A m \in Range(traits) : m \in Met(c) \/ NoType \in Met(c)
  BY <1>12, <1>14, CallsCover
<1>19. Range(b) = {<<n, ~t>>}
  BY <1>15 DEF Range
<1>20. Range(o[p]) = (Range(a) \cup Range(b)) \cup Range(c)
  <2>1. PICK ab \in Seq(Visit) : ab = a \o b
    BY ConcatProperties
  <2>2. Range(ab) = Range(a) \cup Range(b)
    BY <2>1, RangeJoined
  <2>3. Range(ab \o c) = Range(ab) \cup Range(c)
    BY RangeJoined
  <2>4. QED
    BY <2>1, <2>2, <2>3, <1>16
<1>21. Met(o[p]) = Met(a) \cup {n} \cup Met(c)
  <2>1. PICK v : v = <<n, ~t>> /\ v[1] = n
    <3>1. PICK u : u = ~t
      OBVIOUS
    <3>2. <<n, u>>[1] = n
      OBVIOUS
    <3>3. QED
      BY <3>1, <3>2
  <2>2. PICK r : r = Range(o[p])
    OBVIOUS
  <2>3. r = (Range(a) \cup {v}) \cup Range(c)
    BY <2>1, <2>2, <1>19, <1>20
  <2>4. \A m : (\E w \in r : m = w[1]) <=> (\E w \in Range(a) : m = w[1]) \/ m = n \/ (\E w \in Range(c) : m = w[1])
    BY <2>1, <2>3
  <2>5. \A m : m \in Met(o[p]) <=> m \in Met(a) \cup {n} \cup Met(c)
    <3>1. \A m : /\ m \in Met(o[p]) <=> \E w \in r : m = w[1]
                 /\ m \in Met(a) <=> \E w \in Range(a) : m = w[1]
                 /\ m \in Met(c) <=> \E w \in Range(c) : m = w[1]
      BY Zenon, <2>2 DEF Met
    <3>2. QED
      BY <2>4, <3>1
  <2>6. QED
    BY <2>5
<1>22. Closed(types, Met(o[p]))
  BY <1>6, <1>8, <1>9, <1>17, <1>18, <1>21 DEF Closed
<1>23. QED
  BY <1>5, <1>6, <1>21, <1>22 DEF Covers

-----------------------------------------------------------------------------
(* The builder of a walk is what the types visited make, and lists them.   *)
Builds(types, b, v) == AddTrait(b, TypeIn(types, v[1]), v[2])
D == INSTANCE Folding WITH Op <- Builds, Holds <- LiveWith

Built(types, visits) == D!Fold(types, EmptyBuilder, visits)

Building ==
    /\ builder = Built(typeMap, visited) /\ builder.ok /\ IsLive(builder)
    /\ builder.types \in Seq(Names) /\ Range(builder.types) = Met(visited)
    /\ \A m \in Met(visited) : Known(m)

BuildInv == Describing => Building

LEMMA EmptyIsLive == IsLive(EmptyBuilder) /\ EmptyBuilder.ok /\ EmptyBuilder.types = <<>>
<1>1. PICK b : b = EmptyBuilder
  OBVIOUS
<1>2. PICK m : m = [n \in {} |-> NoProperty]
  OBVIOUS
<1>3. DOMAIN m = {}
  BY <1>2
<1>4. b = Made(TRUE, <<>>, <<>>, m, NoProperty, NoProperty)
  BY <1>1, <1>2 DEF EmptyBuilder, Made
<1>5. /\ IsBuilder(b) /\ b.ok /\ b.types = <<>> /\ b.props = <<>> /\ b.byName = m
      /\ b.body = NoProperty /\ b.id = NoProperty
  BY <1>4 DEF IsBuilder, Made
<1>6. <<>> \in Seq(Property) /\ Range(<<>>) = {} /\ DOMAIN <<>> = {}
  BY DEF Range
<1>7. Live(<<>>, m, NoProperty, NoProperty)
  BY <1>3, <1>6 DEF Live, Distinct, Answers, Leading
<1>8. QED
  BY <1>1, <1>5, <1>7 DEF IsLive

LEMMA BuiltAppend ==
    ASSUME NEW types, NEW visits \in Seq(Visit), NEW n \in Names, NEW t \in BOOLEAN
    PROVE  Built(types, Append(visits, <<n, ~t>>)) = AddTrait(Built(types, visits), TypeIn(types, n), ~t)
<1>1. PICK v \in Visit : v = <<n, ~t>>
  BY OneVisit
<1>2. v[1] = n /\ v[2] = ~t
  <2>1. PICK u : u = ~t
    OBVIOUS
  <2>2. <<n, u>>[1] = n /\ <<n, u>>[2] = u
    OBVIOUS
  <2>3. QED
    BY <2>1, <2>2, <1>1
<1>3. D!Fold(types, EmptyBuilder, Append(visits, v)) = Builds(types, D!Fold(types, EmptyBuilder, visits), v)
  BY D!FoldAppend
<1>4. Builds(types, D!Fold(types, EmptyBuilder, visits), v)
         = AddTrait(D!Fold(types, EmptyBuilder, visits), TypeIn(types, n), ~t)
  BY <1>2 DEF Builds
<1>5. QED
  BY <1>1, <1>3, <1>4 DEF Built

LEMMA TypeTyped ==
    ASSUME NEW lib, NEW types, Registered(lib, types), NEW n \in Names, KnownIn(types, n)
    PROVE  TypeIn(types, n).props \in Seq(PropertyDefs(Qualifieds)) /\ TypeIn(types, n).name = n
<1>1. TypeIn(types, n).name = n
  BY KnownWalkable DEF Walkable
<1>2. CASE IsBuiltIn(n)
  <2>1. TypeIn(types, n).props = <<>>
    BY <1>2 DEF TypeIn, BuiltInType
  <2>2. QED
    BY <2>1, <1>1
<1>3. CASE ~IsBuiltIn(n)
  <2>1. TypeIn(types, n) = types[n] /\ n \in DOMAIN types
    BY <1>3 DEF TypeIn, KnownIn
  <2>2. QED
    BY <2>1, <1>1 DEF Registered, Sound, Declared
<1>4. QED
  BY <1>2, <1>3

LEMMA BuildStarts ==
    ASSUME NEW name, Describe(name)
    PROVE  Building'
<1>1. builder' = EmptyBuilder /\ visited' = <<>> /\ typeMap' = typeMap
  BY DEF Describe
<1>2. Built(typeMap, <<>>) = EmptyBuilder
  BY D!FoldEmpty DEF Built
<1>3. Range(<<>>) = {} /\ Met(<<>>) = {} /\ <<>> \in Seq(Names)
  BY DEF Range, Met
<1>4. QED
  BY <1>1, <1>2, <1>3, EmptyIsLive DEF Building

LEMMA BuildVisits ==
    ASSUME RegistryInv, Walking, Building, VisitType, target' # NoType
    PROVE  Building'
<1>1. walk # <<>> /\ Top.phase = 1 /\ typeMap' = typeMap
  BY DEF VisitType
<1>2. PICK types : types = typeMap
  OBVIOUS
<1>3. Registered(library, types)
  BY <1>2, RegistryWalkable
<1>4. PICK n \in Names : n = Top.name
  BY <1>1, TopWalks
<1>5. PICK t \in BOOLEAN : t = Top.trait
  BY <1>1, TopWalks
<1>6. KnownIn(types, n)
  BY <1>1, <1>2, <1>4, TopWalks
<1>7. PICK type : type = TypeIn(types, n)
  OBVIOUS
<1>8. type.props \in Seq(PropertyDefs(Qualifieds)) /\ type.name = n
  BY <1>3, <1>6, <1>7, TypeTyped
<1>9. PICK b : b = AddTrait(builder, type, ~t)
  OBVIOUS
<1>10. b.ok /\ builder' = b /\ visited' = Append(visited, <<n, ~t>>)
  <2>1. AddTrait(builder, TypeOf(Top.name), ~Top.trait) = b
    BY <1>2, <1>4, <1>5, <1>7, <1>9 DEF TypeOf
  <2>2. TypeOf(Top.name).name = n
    BY <1>2, <1>4, <1>7, <1>8 DEF TypeOf
  <2>3. ~(target' = NoType)
    OBVIOUS
  <2>4. /\ AddTrait(builder, TypeOf(Top.name), ~Top.trait).ok
        /\ builder' = AddTrait(builder, TypeOf(Top.name), ~Top.trait)
        /\ visited' = Append(visited, <<TypeOf(Top.name).name, ~Top.trait>>)
    BY Zenon, <2>3 DEF VisitType, Refuse
  <2>5. QED
    BY <2>1, <2>2, <2>4, <1>5
<1>11. PICK visits \in Seq(Visit) : visits = visited
  BY DEF Walking
<1>12. b = Built(types, Append(visits, <<n, ~t>>))
  <2>1. builder = Built(types, visits)
    BY <1>2, <1>11 DEF Building
  <2>2. QED
    BY <2>1, <1>7, <1>9, BuiltAppend
<1>13. PICK u \in BOOLEAN : u = ~t
  OBVIOUS
<1>14. IsLive(b) /\ b.types \in Seq(Names) /\ Range(b.types) = Range(builder.types) \cup {n}
  BY <1>8, <1>9, <1>10, <1>13, TraitAdded DEF Building
<1>15. Met(Append(visits, <<n, ~t>>)) = Met(visits) \cup {n}
  <2>1. PICK v \in Visit : v = <<n, ~t>> /\ v[1] = n
    <3>1. <<n, u>>[1] = n
      OBVIOUS
    <3>2. <<n, ~t>> \in Visit
      BY OneVisit
    <3>3. QED
      BY <3>1, <3>2, <1>13
  <2>2. PICK r : r = Range(Append(visits, v))
    OBVIOUS
  <2>3. r = Range(visits) \cup {v}
    BY <2>2, RangeAppend
  <2>4. \A m : (\E w \in r : m = w[1]) <=> (\E w \in Range(visits) : m = w[1]) \/ m = n
    BY <2>1, <2>3
  <2>5. \A m : m \in Met(Append(visits, v)) <=> m \in Met(visits) \cup {n}
    <3>1. \A m : /\ m \in Met(Append(visits, v)) <=> \E w \in r : m = w[1]
                 /\ m \in Met(visits) <=> \E w \in Range(visits) : m = w[1]
      BY Zenon, <2>2 DEF Met
    <3>2. QED
      BY <2>4, <3>1
  <2>6. QED
    BY <2>1, <2>5
<1>16. Range(b.types) = Met(visited') /\ \A m \in Met(visited') : KnownIn(types, m)
  BY <1>2, <1>6, <1>10, <1>11, <1>14, <1>15 DEF Building, Known
<1>17. QED
  BY <1>1, <1>2, <1>10, <1>11, <1>12, <1>14, <1>16 DEF Building, Known

LEMMA BuildKept ==
    ASSUME RegistryInv, WalkInv, BuildInv, [Next]_vars
    PROVE  BuildInv'
<1>1. SUFFICES ASSUME target' # NoType PROVE Building'
  BY DEF BuildInv, Describing
<1>2. CASE \E name \in TypeNames : Describe(name)
  BY <1>2, BuildStarts
<1>3. CASE VisitType
  BY <1>1, <1>3, BuildVisits DEF WalkInv, BuildInv, VisitType
<1>4. CASE Describing /\ UNCHANGED <<typeMap, visited, builder>>
  BY <1>4 DEF BuildInv, Building, Known
<1>5. CASE EnterType
  <2>1. ~(target' = NoType)
    BY <1>1
  <2>2. Describing /\ UNCHANGED <<typeMap, visited, builder>>
    BY Zenon, <1>5, <2>1 DEF EnterType, Refuse
  <2>3. QED
    BY <1>4, <2>2
<1>6. CASE LeaveType
  BY <1>4, <1>6 DEF LeaveType
<1>7. CASE Finish
  BY <1>1, <1>7 DEF Finish
<1>8. CASE \E key \in DOMAIN library : RegisterPackage(key)
  BY <1>1, <1>8 DEF RegisterPackage, Describing
<1>9. CASE UNCHANGED vars
  BY <1>1, <1>4, <1>9 DEF vars, Describing
<1>10. QED
  BY <1>2, <1>3, <1>5, <1>6, <1>7, <1>8, <1>9 DEF Next

-----------------------------------------------------------------------------
(* What a descriptor in the cache is as long as none of its types has been *)
(* extended or registered again: made of a walk over types that are known. *)
EffectiveIn(types, b) ==
    [types |-> b.types, props |-> b.props, byName |-> b.byName, body |-> b.body, id |-> b.id,
     pkg |-> TypeIn(types, Last(b.types)).pkg]
RebuiltIn(types, n) == EffectiveIn(types, Built(types, Order(types)[<<n, FALSE>>]))

Settles(types, c, n, names) ==
    /\ n \in Names /\ KnownIn(types, n) /\ names = Met(Order(types)[<<n, FALSE>>])
    /\ NoType \notin names /\ c = RebuiltIn(types, n)
Entry(n) ==
    LET c == cache[n]
    IN  /\ Live(c.props, c.byName, c.body, c.id) /\ c.types \in Seq(Names)
        /\ Touched(Range(c.types)) \/ Settles(typeMap, c, n, Range(c.types))
CacheInv == \A n \in DOMAIN cache : Entry(n)

LEMMA RebuiltIs ==
    ASSUME NEW n
    PROVE  Rebuilt(n) = RebuiltIn(typeMap, n)
<1>1. PICK visits : visits = Order(typeMap)[<<n, FALSE>>]
  OBVIOUS
<1>2. FoldLeft(LAMBDA b, v : AddTrait(b, TypeOf(v[1]), v[2]), EmptyBuilder, visits) = Built(typeMap, visits)
  BY Zenon DEF Built, Builds, TypeOf, D!Fold, FoldLeft, MapThenFoldSet, Max, D!FoldLeft, D!MapThenFoldSet, D!Max
<1>3. Rebuilt(n) = Effective(Built(typeMap, visits))
  BY Zenon, <1>1, <1>2 DEF Rebuilt
<1>4. QED
  BY <1>1, <1>3 DEF RebuiltIn, Effective, EffectiveIn, TypeOf

(* The mark of what is not registered is not the name of a type.           *)
LEMMA NoTypeUnknown ==
    ASSUME NEW lib, NEW types, Registered(lib, types)
    PROVE  ~KnownIn(types, NoType)
<1>1. PICK n \in Names : n = NoType
  BY NoTypeNamed
<1>2. n[1] = "" /\ n[2] = "none"
  BY <1>1 DEF NoType, Name
<1>3. ~IsBuiltIn(n)
  BY <1>2, LibrariesAssumption DEF IsBuiltIn
<1>4. ASSUME n \in DOMAIN types PROVE FALSE
  <2>1. PICK d \in Places(lib, DOMAIN lib) : n = NameAt(lib, d)
    BY <1>4 DEF Registered, Sound, Declared, Comes
  <2>2. QED
    BY <2>1, <1>2, PlaceIsTyped DEF Registered
<1>5. QED
  BY <1>1, <1>3, <1>4 DEF KnownIn

(* What a finished walk has built is put in the cache.                     *)
LEMMA CacheFilled ==
    ASSUME RegistryInv, Walking, Building, Finish
    PROVE  \A n : n = target => Entry(n)'
<1>1. SUFFICES ASSUME NEW n, n = target PROVE Entry(n)'
  OBVIOUS
<1>2. walk = <<>> /\ typeMap' = typeMap /\ cache' = Put(cache, target, Effective(builder))
  BY DEF Finish
<1>3. PICK types : types = typeMap
  OBVIOUS
<1>4. Registered(library, types)
  BY <1>3, RegistryWalkable
<1>5. n \in Names /\ KnownIn(types, n)
  BY <1>1, <1>2, <1>3 DEF Walking, Known
<1>6. PICK visits \in Seq(Visit) : visits = visited
  BY DEF Walking
<1>7. visits = Order(types)[<<n, FALSE>>]
  <2>1. visits \o <<>> = visits
    OBVIOUS
  <2>2. visits = Call(types, Order(types), n, FALSE)
    BY <2>1, <1>1, <1>2, <1>3, <1>6, PendingNone DEF Walking
  <2>3. QED
    BY <2>2, <1>5 DEF Call
<1>8. PICK b : b = builder
  OBVIOUS
<1>9. /\ b = Built(types, visits) /\ Live(b.props, b.byName, b.body, b.id)
      /\ b.types \in Seq(Names) /\ Range(b.types) = Met(visits) /\ \A m \in Met(visits) : KnownIn(types, m)
  BY <1>3, <1>6, <1>8 DEF Building, IsLive, Known
<1>10. NoType \notin Met(visits)
  BY <1>4, <1>9, NoTypeUnknown
<1>11. PICK c : c = Effective(b)
  OBVIOUS
<1>12. c = RebuiltIn(types, n)
  BY <1>3, <1>7, <1>9, <1>11 DEF RebuiltIn, Effective, EffectiveIn, TypeOf
<1>13. c.types = b.types /\ c.props = b.props /\ c.byName = b.byName /\ c.body = b.body /\ c.id = b.id
  BY <1>11 DEF Effective
<1>14. cache'[n] = c
  BY <1>1, <1>2, <1>8, <1>11 DEF Put
<1>15. Settles(types, c, n, Range(c.types))
  BY <1>5, <1>7, <1>9, <1>10, <1>12, <1>13 DEF Settles
<1>16. QED
  BY <1>2, <1>3, <1>9, <1>13, <1>14, <1>15 DEF Entry

-----------------------------------------------------------------------------
(* Types that lead to one another only, and are the same in two            *)
(* registries, are met in the same order and make the same descriptor.     *)
Alike(types, more, names) ==
    /\ Closed(types, names) /\ NoType \notin names
    /\ \A m \in names : KnownIn(more, m) /\ TypeIn(more, m) = TypeIn(types, m)

LEMMA CallsAlike ==
    ASSUME NEW types, NEW more, NEW f, NEW g, NEW names \in Seq(Names), NEW t \in BOOLEAN,
           \A n \in Range(names) : KnownIn(types, n) /\ KnownIn(more, n) /\ f[<<n, t>>] = g[<<n, t>>]
    PROVE  Calls(types, f, names, t) = Calls(more, g, names, t)
<1>1. ASSUME NEW i \in DOMAIN names
      PROVE  Call(types, f, names[i], t) = Call(more, g, names[i], t)
  <2>1. names[i] \in Range(names)
    BY DEF Range
  <2>2. QED
    BY <2>1 DEF Call
<1>2. QED
  BY <1>1 DEF Calls

LEMMA OrderAlike ==
    ASSUME NEW lib, NEW types, NEW more, Registered(lib, types), Registered(lib, more),
           NEW names \in SUBSET Names, Alike(types, more, names), NEW n \in names, NEW t \in BOOLEAN
    PROVE  Order(types)[<<n, t>>] = Order(more)[<<n, t>>]
<1>1. PICK f : f = Order(types)
  OBVIOUS
<1>2. PICK g : g = Order(more)
  OBVIOUS
<1>3. PICK apart : apart = {p \in Walked(types) : p[1] \in names /\ f[p] # g[p]}
  OBVIOUS
<1>4. ASSUME apart # {} PROVE FALSE
  <2>1. PICK p \in apart : R!Below(types, Walked(types), p) \cap apart = {}
    BY <1>3, <1>4, WalkGrounded DEF R!Grounded
  <2>2. p \in Walked(types) /\ p[1] \in names /\ f[p] # g[p]
    BY <1>3
  <2>3. PICK m \in Names, u \in BOOLEAN : p = <<m, u>> /\ p[1] = m /\ p[2] = u /\ Walkable(types, m)
    BY <2>2, WalkedKnown
  <2>4. KnownIn(more, m) /\ TypeIn(more, m) = TypeIn(types, m) /\ <<m, u>> \in Walked(more)
    BY <2>2, <2>3, KnownWalkable DEF Alike, Walkable
  <2>5. PICK supers \in Seq(Names) : supers = SupersIn(types, m) /\ supers = SupersIn(more, m)
    BY <2>3, <2>4 DEF Walkable, SupersIn
  <2>6. PICK traits \in Seq(Names) : traits = TraitsIn(types, m) /\ traits = TraitsIn(more, m)
    BY <2>3, <2>4 DEF Walkable, TraitsIn
  <2>7. \A x \in Range(supers) \cup Range(traits) : x \in names
    <3>1. m # NoType
      BY <2>2, <2>3 DEF Alike
    <3>2. QED
      BY <3>1, <2>2, <2>3, <2>5, <2>6 DEF Alike, Closed
  <2>8. \A x \in names : KnownIn(types, x) /\ KnownIn(more, x)
    BY DEF Alike, Closed
  <2>9. \A q \in R!Below(types, Walked(types), p) : q[1] \in names => f[q] = g[q]
    BY <1>3, <2>1 DEF R!Below
  <2>10. \A x, w : <<x, w>>[1] = x
    OBVIOUS
  <2>11. \A x \in Range(supers) : f[<<x, u>>] = g[<<x, u>>]
    BY <2>3, <2>5, <2>7, <2>8, <2>9, <2>10, AsksBelow
  <2>12. \A x \in Range(traits) : f[<<x, TRUE>>] = g[<<x, TRUE>>]
    BY <2>3, <2>6, <2>7, <2>8, <2>9, <2>10, AsksBelow
  <2>13. PICK v : v = TRUE
    OBVIOUS
  <2>14. Calls(types, f, traits, v) = Calls(more, g, traits, v)
    <3>1. v \in BOOLEAN /\ \A x \in Range(traits) : f[<<x, v>>] = g[<<x, v>>]
      BY <2>12, <2>13
    <3>2. \A x \in Range(traits) : KnownIn(types, x) /\ KnownIn(more, x)
      BY <2>7, <2>8
    <3>3. QED
      BY <3>1, <3>2, CallsAlike
  <2>15. Calls(types, f, supers, u) = Calls(more, g, supers, u)
    BY <2>7, <2>8, <2>11, CallsAlike
  <2>16. f[p] = Traversal(types, f, m, u)
    BY <1>1, <2>2, <2>3, OrderSolves
  <2>17. g[p] = Traversal(more, g, m, u)
    BY <1>2, <2>3, <2>4, OrderSolves
  <2>18. Traversal(types, f, m, u) = Traversal(more, g, m, u)
    BY <2>5, <2>6, <2>13, <2>14, <2>15 DEF Traversal, SupersIn, TraitsIn
  <2>19. QED
    BY <2>2, <2>16, <2>17, <2>18
<1>5. <<n, t>> \in Walked(types) /\ <<n, t>>[1] = n
  <2>1. n \in Names /\ KnownIn(types, n)
    BY DEF Alike, Closed
  <2>2. Walkable(types, n)
    BY <2>1, KnownWalkable
  <2>3. QED
    BY <2>2 DEF Walkable
<1>6. QED
  BY <1>1, <1>2, <1>3, <1>4, <1>5

(* A descriptor is what would be built from types that are the same.       *)
LEMMA RebuiltAlike ==
    ASSUME NEW lib, NEW types, NEW more, Registered(lib, types), Registered(lib, more),
           NEW c, NEW n, c.types \in Seq(Names), NEW names, names = Range(c.types),
           Alike(types, more, names), Settles(types, c, n, names)
    PROVE  Settles(more, c, n, names)
<1>1. names \in SUBSET Names
  BY DEF Range
<1>2. PICK visits : visits = Order(types)[<<n, FALSE>>]
  OBVIOUS
<1>3. n \in Names /\ KnownIn(types, n) /\ names = Met(visits) /\ c = RebuiltIn(types, n)
  BY <1>2 DEF Settles
<1>4. Covers(types, visits, n) /\ visits \in Seq(Visit)
  <2>1. PICK t \in BOOLEAN : t = FALSE
    OBVIOUS
  <2>2. PICK p : p = <<n, t>> /\ p[1] = n
    <3>1. \A x, y : <<x, y>>[1] = x
      OBVIOUS
    <3>2. QED
      BY <3>1
  <2>3. p \in Walked(types)
    BY <2>2, <1>3, KnownWalkable DEF Walkable
  <2>4. visits = Order(types)[p]
    BY <2>1, <2>2, <1>2
  <2>5. QED
    BY <2>2, <2>3, <2>4, OrderCovers, OrderTyped DEF Ordered
<1>5. n \in names
  BY <1>3, <1>4 DEF Covers, Alike
<1>6. visits = Order(more)[<<n, FALSE>>]
  <2>1. \A t \in BOOLEAN : Order(types)[<<n, t>>] = Order(more)[<<n, t>>]
    BY <1>1, <1>5, OrderAlike
  <2>2. QED
    BY <2>1, <1>2
<1>7. PICK S : S = {v \in Visit : v[1] \in names}
  OBVIOUS
<1>8. visits \in Seq(S)
  <2>1. PICK k \in Nat : k = Len(visits) /\ DOMAIN visits = 1..k
    BY <1>4
  <2>2. ASSUME NEW i \in 1..k PROVE visits[i] \in S
    <3>1. visits[i] \in Visit /\ visits[i] \in Range(visits)
      BY <2>1, <1>4 DEF Range
    <3>2. visits[i][1] \in Met(visits)
      BY <3>1 DEF Met
    <3>3. QED
      BY <3>1, <3>2, <1>3, <1>7
  <2>3. visits = [i \in 1..k |-> visits[i]]
    BY <2>1, <1>4
  <2>4. QED
    BY <2>2, <2>3
<1>9. ASSUME NEW a, NEW e \in S PROVE Builds(types, a, e) = Builds(more, a, e)
  BY <1>7 DEF Builds, Alike
<1>10. D!Fold(types, EmptyBuilder, visits) = D!Fold(more, EmptyBuilder, visits)
  BY <1>8, <1>9, D!FoldSame
<1>11. PICK b : b = Built(types, visits) /\ b = Built(more, visits)
  BY <1>10 DEF Built
<1>12. c = EffectiveIn(types, b)
  BY <1>2, <1>3, <1>11 DEF RebuiltIn
<1>13. c.types = b.types
  BY <1>12 DEF EffectiveIn
<1>14. Last(b.types) \in names
  <2>1. PICK s \in Seq(Names) : s = b.types /\ Range(s) = names
    BY <1>13
  <2>2. s # <<>>
    <3>1. Range(<<>>) = {}
      BY DEF Range
    <3>2. QED
      BY <3>1, <2>1, <1>5
  <2>3. Len(s) \in DOMAIN s /\ Last(s) = s[Len(s)]
    BY <2>2 DEF Last
  <2>4. QED
    BY <2>1, <2>3 DEF Range
<1>15. EffectiveIn(types, b) = EffectiveIn(more, b)
  BY <1>14 DEF EffectiveIn, Alike
<1>16. c = RebuiltIn(more, n)
  BY <1>6, <1>11, <1>12, <1>15 DEF RebuiltIn
<1>17. QED
  BY <1>3, <1>5, <1>6, <1>2, <1>16 DEF Settles, Alike

(* A name stays with its package, as all that declare it have one uri.     *)
LEMMA PackageKept ==
    ASSUME RegistryInv, RegistryInv', library' = library, NEW n \in DOMAIN typeMap, n \in DOMAIN typeMap'
    PROVE  typeMap'[n].pkg = typeMap[n].pkg
<1>1. PICK lib \in Libraries : lib = library
  BY DEF RegistryInv
<1>2. Registered(lib, typeMap) /\ Registered(lib, typeMap')
  <2>1. Registered(library, typeMap)'
    <3>1. Range(attempts') \subseteq DOMAIN lib
      BY <1>1 DEF RegistryInv, Range
    <3>2. Places(lib, Range(attempts')) \subseteq Places(lib, DOMAIN lib)
      BY <3>1 DEF Places
    <3>3. QED
      BY <3>2, <1>1 DEF RegistryInv, Registered, Sound, Declared
  <2>2. QED
    BY <2>1, <1>1, RegistryWalkable
<1>3. PICK d \in Places(lib, DOMAIN lib) : n = NameAt(lib, d) /\ typeMap[n].pkg = lib[d[1]].uri
  BY <1>2 DEF Registered, Sound, Declared, Comes
<1>4. PICK e \in Places(lib, DOMAIN lib) : n = NameAt(lib, e) /\ typeMap'[n].pkg = lib[e[1]].uri
  BY <1>2 DEF Registered, Sound, Declared, Comes
<1>5. QED
  BY <1>3, <1>4, PlacesApart

(* A type the package that is registered declares is registered again.     *)
LEMMA MetAgain ==
    ASSUME RegistryInv, NEW key \in DOMAIN library, RegisterPackage(key),
           NEW names, NEW m \in names, m \in DOMAIN typeMap, m \in DeclaredIn(library[key])
    PROVE  Again(names)'
<1>1. PICK lib \in Libraries : lib = library
  BY DEF RegistryInv
<1>2. library' = lib /\ attempts' = Append(attempts, key)
  BY <1>1 DEF RegisterPackage
<1>3. RegistryInv' /\ m \in DOMAIN typeMap'
  BY PackageRegistered DEF Kept
<1>4. typeMap'[m].pkg = typeMap[m].pkg
  BY <1>1, <1>2, <1>3, PackageKept
<1>5. PICK d \in Places(lib, Range(attempts)) : m = NameAt(lib, d) /\ typeMap[m].pkg = lib[d[1]].uri
  BY <1>1 DEF RegistryInv, Sound, Declared, Comes
<1>6. d[1] \in Range(attempts) /\ d \in Places(lib, DOMAIN lib)
  BY <1>1, <1>5 DEF Places
<1>7. PICK i \in DOMAIN lib[key].types : m = Qualified(lib[key], i)
  BY <1>1 DEF DeclaredIn
<1>8. lib[d[1]].uri = lib[key].uri
  <2>1. \A k, l \in DOMAIN lib : \A x \in DOMAIN lib[k].types : \A y \in DOMAIN lib[l].types :
           Qualified(lib[k], x) = Qualified(lib[l], y) => lib[k].uri = lib[l].uri /\ (k = l => x = y)
    BY Zenon, LibrariesAssumption
  <2>2. PICK k, j : k \in DOMAIN lib /\ k = d[1] /\ j = d[2] /\ j \in DOMAIN lib[k].types
    BY <1>5 DEF Places
  <2>3. Qualified(lib[k], j) = Qualified(lib[key], i)
    BY <2>2, <1>5, <1>7 DEF NameAt
  <2>4. lib[k].uri = lib[key].uri
    BY <2>1, <2>2, <2>3, <1>1, <1>7
  <2>5. QED
    BY <2>2, <2>4
<1>9. lib[key].uri \in Twice'
  BY <1>1, <1>2, <1>6, <1>8, AttemptAdded DEF RegistryInv
<1>10. PICK u : u = typeMap'[m].pkg
  OBVIOUS
<1>11. Cardinality(Attempts(u)') > 1
  BY <1>4, <1>5, <1>8, <1>9, <1>10 DEF Twice
<1>12. Attempts(typeMap[m].pkg)' = Attempts(u)'
  BY <1>10 DEF Attempts
<1>13. QED
  BY <1>3, <1>11, <1>12 DEF Again

(* What has been touched stays so.                                         *)
LEMMA TouchedKept ==
    ASSUME RegistryInv, NEW key \in DOMAIN library, RegisterPackage(key), NEW names, Touched(names)
    PROVE  Touched(names)'
<1>1. library' = library /\ attempts' = Append(attempts, key)
  BY DEF RegisterPackage
<1>2. RegistryInv' /\ Kept(typeMap, typeMap', DeclaredIn(library[key]))
  BY PackageRegistered
<1>3. CASE Again(names)
  <2>1. PICK m \in names \cap DOMAIN typeMap : Cardinality(Attempts(typeMap[m].pkg)) > 1
    BY <1>3 DEF Again
  <2>2. m \in DOMAIN typeMap' /\ typeMap'[m].pkg = typeMap[m].pkg
    BY <1>1, <1>2, PackageKept DEF Kept
  <2>3. typeMap[m].pkg \in Twice
    <3>1. PICK d \in Places(library, Range(attempts)) : typeMap[m].pkg = library[d[1]].uri
      BY DEF RegistryInv, Sound, Declared, Comes
    <3>2. d[1] \in DOMAIN library
      BY <3>1 DEF Places
    <3>3. QED
      BY <3>1, <3>2, <2>1 DEF Twice
  <2>4. Twice \subseteq Twice'
    BY <1>1, AttemptAdded DEF RegistryInv
  <2>5. PICK u : u = typeMap'[m].pkg
    OBVIOUS
  <2>6. Cardinality(Attempts(u)') > 1
    BY <2>2, <2>3, <2>4, <2>5 DEF Twice
  <2>7. Attempts(typeMap[m].pkg)' = Attempts(u)'
    BY <2>5 DEF Attempts
  <2>8. QED
    BY <2>2, <2>6, <2>7 DEF Touched, Again
<1>4. CASE Extended(names)
  <2>1. PICK m \in names \cap DOMAIN typeMap : \E t \in Range(typeMap[m].traits) : t \notin names
    BY <1>4 DEF Extended
  <2>2. CASE m \in DeclaredIn(library[key])
    BY <2>1, <2>2, MetAgain DEF Touched
  <2>3. CASE m \notin DeclaredIn(library[key])
    <3>1. m \in DOMAIN typeMap' /\ Range(typeMap[m].traits) \subseteq Range(typeMap'[m].traits)
      BY <2>3, <1>2 DEF Kept
    <3>2. QED
      BY <2>1, <3>1 DEF Touched, Extended
  <2>4. QED
    BY <2>2, <2>3
<1>5. QED
  BY <1>3, <1>4 DEF Touched

(* Unless they are touched, the types of a descriptor are what they were.  *)
LEMMA TypesAlike ==
    ASSUME RegistryInv, NEW key \in DOMAIN library, RegisterPackage(key),
           NEW names \in SUBSET Names, Closed(typeMap, names), NoType \notin names, ~Touched(names)'
    PROVE  Alike(typeMap, typeMap', names)
<1>1. RegistryInv' /\ Kept(typeMap, typeMap', DeclaredIn(library[key]))
  BY PackageRegistered
<1>2. \A m \in names : KnownIn(typeMap, m)
  BY DEF Closed
<1>3. ASSUME NEW m \in names, m \in DeclaredIn(library[key]) PROVE FALSE
  <2>1. m[1] # ""
    <3>1. PICK i \in DOMAIN library[key].types : m = Qualified(library[key], i)
      BY <1>3 DEF DeclaredIn
    <3>2. WellFormed(library[key]) /\ library[key].types[i] \in Range(library[key].types)
      BY LibrariesAssumption DEF RegistryInv, Range
    <3>3. QED
      BY <3>1, <3>2, NameIsTyped DEF WellFormed, Qualified
  <2>2. m \in DOMAIN typeMap
    BY <2>1, <1>2 DEF KnownIn, IsBuiltIn
  <2>3. QED
    BY <2>2, <1>3, MetAgain DEF Touched
<1>4. ASSUME NEW m \in names
      PROVE  KnownIn(typeMap', m) /\ TypeIn(typeMap', m) = TypeIn(typeMap, m)
  <2>1. CASE IsBuiltIn(m)
    BY <2>1 DEF KnownIn, TypeIn
  <2>2. CASE ~IsBuiltIn(m)
    <3>1. m \in DOMAIN typeMap \ DeclaredIn(library[key]) /\ m \in DOMAIN typeMap'
      BY <2>2, <1>1, <1>2, <1>3 DEF KnownIn, Kept
    <3>2. Range(typeMap'[m].traits) \subseteq names
      BY <3>1 DEF Touched, Extended
    <3>3. typeMap'[m] = typeMap[m]
      BY <3>1, <3>2, <1>1, <1>3 DEF Kept
    <3>4. QED
      BY <2>2, <3>1, <3>3 DEF KnownIn, TypeIn
  <2>3. QED
    BY <2>1, <2>2
<1>5. QED
  BY <1>4 DEF Alike

(* Registering a package touches a descriptor or leaves it current.        *)
LEMMA EntryKept ==
    ASSUME RegistryInv, NEW key \in DOMAIN library, RegisterPackage(key), NEW n \in DOMAIN cache, Entry(n)
    PROVE  Entry(n)'
<1>1. PICK c : c = cache[n]
  OBVIOUS
<1>2. PICK names : names = Range(c.types)
  OBVIOUS
<1>3. Live(c.props, c.byName, c.body, c.id) /\ c.types \in Seq(Names) /\ names \in SUBSET Names
  BY <1>1, <1>2 DEF Entry, Range
<1>4. ASSUME Settles(typeMap, c, n, names), ~Touched(names)' PROVE Settles(typeMap', c, n, names)
  <2>1. Registered(library, typeMap) /\ Registered(library, typeMap')
    <3>1. library' = library /\ RegistryInv'
      BY PackageRegistered DEF RegisterPackage
    <3>2. Range(attempts') \subseteq DOMAIN library
      BY <3>1 DEF RegistryInv, Range
    <3>3. Places(library, Range(attempts')) \subseteq Places(library, DOMAIN library)
      BY <3>2 DEF Places
    <3>4. QED
      BY <3>1, <3>3, RegistryWalkable DEF RegistryInv, Registered, Sound, Declared
  <2>2. n \in Names /\ KnownIn(typeMap, n) /\ names = Met(Order(typeMap)[<<n, FALSE>>]) /\ NoType \notin names
    BY <1>4 DEF Settles
  <2>3. Closed(typeMap, names)
    <3>1. Walkable(typeMap, n)
      BY <2>1, <2>2, KnownWalkable
    <3>2. <<n, FALSE>> \in Walked(typeMap)
      BY <3>1 DEF Walkable
    <3>3. QED
      BY <3>2, <2>1, <2>2, OrderCovers DEF Covers
  <2>4. Alike(typeMap, typeMap', names)
    BY <2>2, <2>3, <1>3, <1>4, TypesAlike
  <2>5. QED
    BY <2>1, <2>4, <1>2, <1>3, <1>4, RebuiltAlike
<1>5. Touched(names) => Touched(names)'
  BY TouchedKept
<1>6. Touched(names) \/ Settles(typeMap, c, n, names)
  BY <1>1, <1>2 DEF Entry
<1>7. Touched(names)' \/ Settles(typeMap', c, n, names)
  BY <1>4, <1>5, <1>6
<1>8. cache'[n] = c
  BY <1>1 DEF RegisterPackage
<1>9. Entry(n)'
  <2>1. Touched(Range(cache[n].types))' <=> Touched(names)'
    BY <1>2, <1>8 DEF Touched, Extended, Again
  <2>2. QED
    BY <2>1, <1>2, <1>3, <1>7, <1>8 DEF Entry
<1>10. QED
  BY <1>9

LEMMA CacheKept ==
    ASSUME RegistryInv, WalkInv, BuildInv, CacheInv, [Next]_vars
    PROVE  CacheInv'
<1>1. CASE \E key \in DOMAIN library : RegisterPackage(key)
  <2>1. cache' = cache
    BY <1>1 DEF RegisterPackage
  <2>2. QED
    BY <2>1, <1>1, EntryKept DEF CacheInv
<1>2. CASE Finish
  <2>1. \A n : n = target => Entry(n)'
    BY <1>2, CacheFilled DEF WalkInv, BuildInv, Finish
  <2>2. ASSUME NEW n \in DOMAIN cache', n # target PROVE Entry(n)'
    <3>1. UNCHANGED <<library, typeMap, attempts>> /\ cache'[n] = cache[n] /\ n \in DOMAIN cache
      BY <1>2, <2>2 DEF Finish, Put
    <3>2. Entry(n)
      BY <3>1 DEF CacheInv
    <3>3. Touched(Range(cache[n].types)) => Touched(Range(cache[n].types))'
      BY <3>1 DEF Touched, Extended, Again, Attempts
    <3>4. QED
      BY <3>1, <3>2, <3>3 DEF Entry
  <2>3. QED
    BY <2>1, <2>2 DEF CacheInv
<1>3. CASE UNCHANGED <<library, typeMap, attempts, cache>>
  <2>1. ASSUME NEW n \in DOMAIN cache PROVE Entry(n)'
    <3>1. Entry(n)
      BY DEF CacheInv
    <3>2. Touched(Range(cache[n].types)) => Touched(Range(cache[n].types))'
      BY <1>3 DEF Touched, Extended, Again, Attempts
    <3>3. QED
      BY <3>1, <3>2, <1>3 DEF Entry
  <2>2. QED
    BY <2>1, <1>3 DEF CacheInv
<1>4. [Next]_vars => \/ \E key \in DOMAIN library : RegisterPackage(key)
                     \/ Finish
                     \/ UNCHANGED <<library, typeMap, attempts, cache>>
  BY DEF Next, vars, Describe, EnterType, VisitType, LeaveType
<1>5. QED
  BY <1>1, <1>2, <1>3, <1>4

(* A cached descriptor is the one that would be built now, unless one of   *)
(* its types was extended or registered again since; and its names lead to *)
(* properties it lists, or to a refinement that was refined in turn.       *)
THEOREM DescriptorsStayFaithful == Spec => []DescriptorsFaithful
<1>1. Init => RegistryInv /\ WalkInv /\ BuildInv /\ CacheInv
  BY RegistryStarts DEF Init, WalkInv, BuildInv, CacheInv, Describing
<1>2. RegistryInv /\ WalkInv /\ BuildInv /\ CacheInv /\ [Next]_vars
          => RegistryInv' /\ WalkInv' /\ BuildInv' /\ CacheInv'
  BY RegistryKept, WalkKept, BuildKept, CacheKept
<1>3. CacheInv => DescriptorsFaithful
  <2>1. SUFFICES ASSUME CacheInv PROVE CacheFresh /\ NamesLive
    BY DEF DescriptorsFaithful
  <2>2. ASSUME NEW n \in DOMAIN cache, ~Touched(Range(cache[n].types)) PROVE cache[n] = Rebuilt(n)
    BY <2>1, <2>2, RebuiltIs DEF CacheInv, Entry, Settles
  <2>3. ASSUME NEW n \in DOMAIN cache, NEW c, c = cache[n]
        PROVE  /\ \A p \in Range(c.props) : \A k \in {p.ns, LocalName(p)} : k \in DOMAIN c.byName /\ c.byName[k] = p
               /\ {c.body, c.id} \subseteq Range(c.props) \cup {NoProperty}
               /\ \A k \in DOMAIN c.byName : c.byName[k] \in Range(c.props) \/ Refines(c.byName[k])
    <3>1. Live(c.props, c.byName, c.body, c.id)
      BY <2>1, <2>3 DEF CacheInv, Entry
    <3>2. QED
      BY <3>1 DEF Live, Answers, Leading, OwnNames
  <2>4. NamesLive
    BY <2>3 DEF NamesLive
  <2>5. QED
    BY <2>2, <2>4 DEF CacheFresh
<1>4. QED
  BY <1>1, <1>2, <1>3, PTL DEF Spec
=============================================================================
