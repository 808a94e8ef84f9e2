---------------------------- MODULE ReaderProofs ----------------------------
(***************************************************************************)
(* The reader keeps one handler per open tag, an exact index and bounded   *)
(* warnings for every document, meta-model and set of ids, strict or lax.  *)
(***************************************************************************)
EXTENDS Reader, SequenceTheorems, TLAPS

-----------------------------------------------------------------------------
(* Sequences in three parts, of which the middle one loses its head.       *)
Joined(a, p, b) == a \o p \o b

InParts(S, s, a, p, b) ==
    /\ s \in Seq(S) /\ Len(s) = Len(a) + Len(p) + Len(b)
    /\ \A i \in 1..Len(a) : s[i] = a[i]
    /\ \A i \in 1..Len(p) : s[Len(a) + i] = p[i]
    /\ \A i \in 1..Len(b) : s[Len(a) + Len(p) + i] = b[i]

LEMMA Parts ==
    ASSUME NEW S, NEW a \in Seq(S), NEW p \in Seq(S), NEW b \in Seq(S)
    PROVE  InParts(S, Joined(a, p, b), a, p, b)
<1>1. PICK q : q = a \o p
  OBVIOUS
<1>2. /\ q \in Seq(S) /\ Len(q) = Len(a) + Len(p)
      /\ \A i \in 1..Len(a) + Len(p) : q[i] = IF i <= Len(a) THEN a[i] ELSE p[i - Len(a)]
  BY <1>1, ConcatProperties
<1>3. PICK s : s = Joined(a, p, b)
  OBVIOUS
<1>4. /\ s \in Seq(S) /\ Len(s) = Len(q) + Len(b)
      /\ \A i \in 1..Len(q) + Len(b) : s[i] = IF i <= Len(q) THEN q[i] ELSE b[i - Len(q)]
  BY <1>1, <1>2, <1>3, ConcatProperties DEF Joined
<1>5. ASSUME NEW i \in 1..Len(a)
      PROVE  s[i] = a[i]
  BY <1>2, <1>4
<1>6. ASSUME NEW i \in 1..Len(p)
      PROVE  s[Len(a) + i] = p[i]
  <2>1. Len(a) + i \in 1..Len(q) /\ ~ (Len(a) + i <= Len(a)) /\ (Len(a) + i) - Len(a) = i
    BY <1>2
  <2>2. PICK k \in 1..Len(q) : k = Len(a) + i
    BY <2>1
  <2>3. QED
    BY <2>1, <2>2, <1>2, <1>4
<1>7. ASSUME NEW i \in 1..Len(b)
      PROVE  s[Len(a) + Len(p) + i] = b[i]
  <2>1. Len(q) + i \in 1..(Len(q) + Len(b)) /\ ~ (Len(q) + i <= Len(q)) /\ (Len(q) + i) - Len(q) = i
    BY <1>2
  <2>2. PICK k \in 1..(Len(q) + Len(b)) : k = Len(q) + i
    BY <2>1
  <2>3. QED
    BY <2>1, <2>2, <1>2, <1>4
<1>8. InParts(S, s, a, p, b)
  BY <1>2, <1>4, <1>5, <1>6, <1>7 DEF InParts
<1>9. QED
  BY <1>3, <1>8

(* Every place is in one of the parts.                                     *)
LEMMA Places ==
    ASSUME NEW a \in Nat, NEW p \in Nat, NEW b \in Nat, NEW i \in 1..(a + p + b)
    PROVE  \/ i \in 1..a
           \/ \E k \in 1..p : i = a + k
           \/ \E k \in 1..b : i = a + p + k
<1>1. CASE i <= a
  BY <1>1
<1>2. CASE i > a /\ i <= a + p
  <2>1. i - a \in 1..p /\ i = a + (i - a)
    BY <1>2
  <2>2. QED
    BY <2>1
<1>3. CASE i > a + p
  <2>1. i - (a + p) \in 1..b /\ i = a + p + (i - (a + p))
    BY <1>3
  <2>2. QED
    BY <2>1
<1>4. QED
  BY <1>1, <1>2, <1>3

(* Two sequences are the same if their parts are.                          *)
LEMMA SameParts ==
    ASSUME NEW S, NEW a \in Seq(S), NEW p \in Seq(S), NEW b \in Seq(S), NEW s,
           InParts(S, s, a, p, b)
    PROVE  s = Joined(a, p, b)
<1>1. PICK t : t = Joined(a, p, b)
  OBVIOUS
<1>2. InParts(S, t, a, p, b)
  BY <1>1, Parts
<1>3. ASSUME NEW i \in 1..(Len(a) + Len(p) + Len(b))
      PROVE  s[i] = t[i]
  <2>1. \/ i \in 1..Len(a)
        \/ \E k \in 1..Len(p) : i = Len(a) + k
        \/ \E k \in 1..Len(b) : i = Len(a) + Len(p) + k
    <3>1. PICK x \in Nat : x = Len(a)
      OBVIOUS
    <3>2. PICK y \in Nat : y = Len(p)
      OBVIOUS
    <3>3. PICK z \in Nat : z = Len(b)
      OBVIOUS
    <3>4. i \in 1..(x + y + z)
      BY <3>1, <3>2, <3>3
    <3>5. \/ i \in 1..x
          \/ \E k \in 1..y : i = x + k
          \/ \E k \in 1..z : i = x + y + k
      BY <3>4, Places
    <3>6. QED
      BY <3>1, <3>2, <3>3, <3>5
  <2>2. CASE i \in 1..Len(a)
    BY <2>2, <1>2 DEF InParts
  <2>3. ASSUME NEW k \in 1..Len(p), i = Len(a) + k PROVE s[i] = t[i]
    BY <2>3, <1>2 DEF InParts
  <2>4. ASSUME NEW k \in 1..Len(b), i = Len(a) + Len(p) + k PROVE s[i] = t[i]
    BY <2>4, <1>2 DEF InParts
  <2>5. QED
    BY <2>1, <2>2, <2>3, <2>4
<1>4. s = t
  BY <1>2, <1>3, SeqEqual DEF InParts
<1>5. QED
  BY <1>1, <1>4

(* What is left when an element is cut out.                                *)
LEMMA CutIs ==
    ASSUME NEW S, NEW s \in Seq(S), NEW m \in 1..Len(s)
    PROVE  /\ RemoveAt(s, m) \in Seq(S) /\ Len(RemoveAt(s, m)) = Len(s) - 1
           /\ \A i \in 1..(m - 1) : RemoveAt(s, m)[i] = s[i]
           /\ \A i \in m..(Len(s) - 1) : RemoveAt(s, m)[i] = s[i + 1]
<1>1. /\ 1 \in Int /\ m \in Int /\ m - 1 \in Int /\ m + 1 \in Int /\ Len(s) \in Nat
      /\ \A i \in 1..(m - 1) : s[i] \in S
      /\ \A i \in (m + 1)..Len(s) : s[i] \in S
  OBVIOUS
<1>2. PICK a : a = SubSeq(s, 1, m - 1)
  OBVIOUS
<1>3. PICK b : b = SubSeq(s, m + 1, Len(s))
  OBVIOUS
<1>4. a \in Seq(S) /\ Len(a) = m - 1 /\ \A i \in 1..(m - 1) : a[i] = s[i]
  <2>1. a \in Seq(S) /\ Len(a) = (IF 1 <= m - 1 THEN m - 1 - 1 + 1 ELSE 0) /\ \A i \in 1..(m - 1 - 1 + 1) : a[i] = s[1 + i - 1]
    BY <1>1, <1>2, SubSeqProperties
  <2>2. QED
    BY <2>1, <1>1
<1>5. b \in Seq(S) /\ Len(b) = Len(s) - m /\ \A i \in 1..(Len(s) - m) : b[i] = s[m + i]
  <2>1. b \in Seq(S) /\ Len(b) = (IF m + 1 <= Len(s) THEN Len(s) - (m + 1) + 1 ELSE 0)
        /\ \A i \in 1..(Len(s) - (m + 1) + 1) : b[i] = s[m + 1 + i - 1]
    BY <1>1, <1>3, SubSeqProperties
  <2>2. QED
    BY <2>1, <1>1
<1>6. /\ a \o b \in Seq(S) /\ Len(a \o b) = Len(a) + Len(b)
      /\ \A i \in 1..(Len(a) + Len(b)) : (a \o b)[i] = IF i <= Len(a) THEN a[i] ELSE b[i - Len(a)]
  BY <1>4, <1>5, ConcatProperties
<1>7. PICK u : u = RemoveAt(s, m) /\ u = a \o b
  BY <1>2, <1>3 DEF RemoveAt
<1>8. u \in Seq(S) /\ Len(u) = Len(s) - 1
  <2>1. Len(a) + Len(b) = Len(s) - 1
    BY <1>1, <1>4, <1>5
  <2>2. QED
    BY <2>1, <1>6, <1>7
<1>9. \A i \in 1..(m - 1) : u[i] = s[i]
  BY <1>1, <1>4, <1>5, <1>6, <1>7
<1>10. ASSUME NEW i \in m..(Len(s) - 1)
      PROVE  u[i] = s[i + 1]
  <2>1. i - (m - 1) \in 1..(Len(s) - m) /\ m + (i - (m - 1)) = i + 1
    BY <1>1
  <2>2. PICK k \in 1..(Len(s) - m) : k = i - (m - 1)
    BY <2>1
  <2>3. i \in 1..(Len(a) + Len(b)) /\ ~ (i <= Len(a)) /\ i - Len(a) = k
    BY <2>2, <1>1, <1>4, <1>5
  <2>4. u[i] = b[k]
    BY <2>3, <1>6, <1>7
  <2>5. QED
    BY <2>1, <2>2, <2>4, <1>5
<1>11. QED
  BY <1>7, <1>8, <1>9, <1>10

(* The head of the middle one replaced by what is added to the first.      *)
LEMMA HeadReplaced ==
    ASSUME NEW S, NEW a \in Seq(S), NEW p \in Seq(S), NEW b \in Seq(S), NEW x \in S, p # <<>>,
           NEW m, m = Len(a) + 1
    PROVE  [Joined(a, p, b) EXCEPT ![m] = x] = Joined(Append(a, x), Tail(p), b)
<1>1. PICK s : s = Joined(a, p, b)
  OBVIOUS
<1>2. InParts(S, s, a, p, b)
  BY <1>1, Parts
<1>3. /\ s \in Seq(S) /\ Len(s) = Len(a) + Len(p) + Len(b)
      /\ \A i \in 1..Len(a) : s[i] = a[i]
      /\ \A i \in 1..Len(p) : s[Len(a) + i] = p[i]
      /\ \A i \in 1..Len(b) : s[Len(a) + Len(p) + i] = b[i]
  BY <1>2 DEF InParts
<1>4. Len(p) >= 1 /\ m \in 1..Len(s)
  BY <1>3
<1>5. PICK u : u = [s EXCEPT ![m] = x]
  OBVIOUS
<1>6. u \in Seq(S) /\ Len(u) = Len(s) /\ \A i \in 1..Len(s) : u[i] = IF i = m THEN x ELSE s[i]
  <2>1. PICK r \in Seq(S) : r = s
    BY <1>3
  <2>2. PICK k \in 1..Len(r) : k = m
    BY <2>1, <1>4
  <2>3. /\ [r EXCEPT ![k] = x] \in Seq(S) /\ Len([r EXCEPT ![k] = x]) = Len(r)
        /\ \A i \in 1..Len(r) : [r EXCEPT ![k] = x][i] = IF i = k THEN x ELSE r[i]
    BY ExceptSeq
  <2>4. QED
    BY <2>1, <2>2, <2>3, <1>5
<1>7. PICK c : c = Append(a, x)
  OBVIOUS
<1>8. c \in Seq(S) /\ Len(c) = m /\ c[m] = x /\ \A i \in 1..Len(a) : c[i] = a[i]
  BY <1>7, AppendProperties
<1>9. PICK t : t = Tail(p)
  OBVIOUS
<1>10. t \in Seq(S) /\ Len(t) = Len(p) - 1 /\ \A i \in 1..Len(t) : t[i] = p[i + 1]
  BY <1>9, HeadTailProperties
<1>11. Len(u) = Len(c) + Len(t) + Len(b)
  BY <1>3, <1>6, <1>8, <1>10
<1>12. ASSUME NEW i \in 1..Len(c)
       PROVE  u[i] = c[i]
  <2>1. CASE i = m
    BY <2>1, <1>4, <1>6, <1>8
  <2>2. CASE i # m
    <3>1. i \in 1..Len(a) /\ i \in 1..Len(s)
      BY <2>2, <1>3, <1>8
    <3>2. QED
      BY <2>2, <3>1, <1>3, <1>6, <1>8
  <2>3. QED
    BY <2>1, <2>2
<1>13. ASSUME NEW i \in 1..Len(t)
       PROVE  u[Len(c) + i] = t[i]
  <2>1. i + 1 \in 1..Len(p) /\ Len(c) + i = Len(a) + (i + 1) /\ Len(c) + i # m /\ Len(c) + i \in 1..Len(s)
    BY <1>3, <1>4, <1>8, <1>10
  <2>2. QED
    BY <2>1, <1>3, <1>6, <1>10
<1>14. ASSUME NEW i \in 1..Len(b)
       PROVE  u[Len(c) + Len(t) + i] = b[i]
  <2>1. Len(c) + Len(t) + i = Len(a) + Len(p) + i /\ Len(c) + Len(t) + i # m /\ Len(c) + Len(t) + i \in 1..Len(s)
    BY <1>3, <1>4, <1>8, <1>10
  <2>2. QED
    BY <2>1, <1>3, <1>6
<1>15. u = Joined(c, t, b)
  <2>1. InParts(S, u, c, t, b)
    BY <1>6, <1>11, <1>12, <1>13, <1>14 DEF InParts
  <2>2. QED
    BY <2>1, <1>8, <1>10, SameParts
<1>16. QED
  BY <1>5, <1>7, <1>9, <1>15, <1>1

(* The head of the middle one cut out.                                     *)
LEMMA HeadCut ==
    ASSUME NEW S, NEW a \in Seq(S), NEW p \in Seq(S), NEW b \in Seq(S), p # <<>>,
           NEW m, m = Len(a) + 1
    PROVE  RemoveAt(Joined(a, p, b), m) = Joined(a, Tail(p), b)
<1>1. PICK s : s = Joined(a, p, b)
  OBVIOUS
<1>2. InParts(S, s, a, p, b)
  BY <1>1, Parts
<1>3. /\ s \in Seq(S) /\ Len(s) = Len(a) + Len(p) + Len(b)
      /\ \A i \in 1..Len(a) : s[i] = a[i]
      /\ \A i \in 1..Len(p) : s[Len(a) + i] = p[i]
      /\ \A i \in 1..Len(b) : s[Len(a) + Len(p) + i] = b[i]
  BY <1>2 DEF InParts
<1>4. Len(p) >= 1 /\ m \in 1..Len(s)
  BY <1>3
<1>5. PICK u : u = RemoveAt(s, m)
  OBVIOUS
<1>6. /\ u \in Seq(S) /\ Len(u) = Len(s) - 1
      /\ \A i \in 1..(m - 1) : u[i] = s[i]
      /\ \A i \in m..(Len(s) - 1) : u[i] = s[i + 1]
  BY <1>3, <1>4, <1>5, CutIs
<1>7. PICK t : t = Tail(p)
  OBVIOUS
<1>8. t \in Seq(S) /\ Len(t) = Len(p) - 1 /\ \A i \in 1..Len(t) : t[i] = p[i + 1]
  BY <1>7, HeadTailProperties
<1>9. Len(u) = Len(a) + Len(t) + Len(b)
  BY <1>3, <1>6, <1>8
<1>10. ASSUME NEW i \in 1..Len(a)
       PROVE  u[i] = a[i]
  <2>1. i \in 1..(m - 1)
    OBVIOUS
  <2>2. u[i] = s[i] /\ s[i] = a[i]
    BY <2>1, <1>3, <1>6
  <2>3. QED
    BY <2>2
<1>11. ASSUME NEW i \in 1..Len(t)
       PROVE  u[Len(a) + i] = t[i]
  <2>1. i + 1 \in 1..Len(p) /\ (Len(a) + i) + 1 = Len(a) + (i + 1) /\ Len(a) + i \in m..(Len(s) - 1)
    BY <1>3, <1>4, <1>8
  <2>2. PICK k \in m..(Len(s) - 1) : k = Len(a) + i
    BY <2>1
  <2>3. u[k] = s[k + 1]
    BY <1>6
  <2>4. s[Len(a) + (i + 1)] = p[i + 1] /\ t[i] = p[i + 1]
    BY <2>1, <1>3, <1>8
  <2>5. QED
    BY <2>1, <2>2, <2>3, <2>4
<1>12. ASSUME NEW i \in 1..Len(b)
       PROVE  u[Len(a) + Len(t) + i] = b[i]
  <2>1. (Len(a) + Len(t) + i) + 1 = Len(a) + Len(p) + i /\ Len(a) + Len(t) + i \in m..(Len(s) - 1)
    BY <1>3, <1>4, <1>8
  <2>2. PICK k \in m..(Len(s) - 1) : k = Len(a) + Len(t) + i
    BY <2>1
  <2>3. u[k] = s[k + 1]
    BY <1>6
  <2>4. s[Len(a) + Len(p) + i] = b[i]
    BY <1>3
  <2>5. QED
    BY <2>1, <2>2, <2>3, <2>4
<1>13. u = Joined(a, t, b)
  <2>1. InParts(S, u, a, t, b)
    BY <1>6, <1>9, <1>10, <1>11, <1>12 DEF InParts
  <2>2. QED
    BY <2>1, <1>8, SameParts
<1>14. QED
  BY <1>5, <1>7, <1>13, <1>1

(* What is added to the whole is added to the last one.                    *)
LEMMA LastAppended ==
    ASSUME NEW S, NEW a \in Seq(S), NEW p \in Seq(S), NEW b \in Seq(S), NEW x \in S
    PROVE  Append(Joined(a, p, b), x) = Joined(a, p, Append(b, x))
<1>1. PICK q : q = a \o p
  OBVIOUS
<1>2. q \in Seq(S) /\ <<x>> \in Seq(S)
  BY <1>1, ConcatProperties
<1>3. q \o b \in Seq(S)
  BY <1>2, ConcatProperties
<1>4. Append(q \o b, x) = (q \o b) \o <<x>> /\ Append(b, x) = b \o <<x>>
  BY <1>3, AppendIsConcat
<1>5. (q \o b) \o <<x>> = q \o (b \o <<x>>)
  BY <1>2, ConcatAssociative, SMTT(30)
<1>6. QED
  BY <1>1, <1>4, <1>5 DEF Joined

-----------------------------------------------------------------------------
USE IdAssumption, ShapesAssumption, BoundsAssumption

(* Filling a property changes neither the id nor the parent of an element. *)
LEMMA PutKeeps ==
    ASSUME NEW e \in ElementType, NEW prop \in {"children", "child", "refs", "ref"}, NEW entry \in EntryType
    PROVE  /\ Put(e, prop, entry) \in ElementType
           /\ Put(e, prop, entry).id = e.id /\ Put(e, prop, entry).parent = e.parent
<1>1. CASE prop \in Many
  <2>1. e[prop] \in Seq(EntryType)
    BY <1>1 DEF Many, ElementType
  <2>2. Append(e[prop], entry) \in Seq(EntryType)
    BY <2>1
  <2>3. QED
    BY <1>1, <2>2 DEF Put, Many, ElementType
<1>2. CASE prop \notin Many
  BY <1>2 DEF Put, Many, ElementType
<1>3. QED
  BY <1>1, <1>2

(* A sequence stays one when an element is cut out or replaced.            *)
LEMMA CutKeeps ==
    ASSUME NEW S, NEW s \in Seq(S), NEW i \in 1..Len(s)
    PROVE  RemoveAt(s, i) \in Seq(S)
<1>1. /\ \A j \in 1..(i - 1) : s[j] \in S
      /\ \A j \in (i + 1)..Len(s) : s[j] \in S
  OBVIOUS
<1>2. SubSeq(s, 1, i - 1) \in Seq(S) /\ SubSeq(s, i + 1, Len(s)) \in Seq(S)
  <2>1. i \in Int /\ i - 1 \in Int /\ i + 1 \in Int /\ Len(s) \in Int
    OBVIOUS
  <2>2. QED
    BY <1>1, <2>1, SubSeqProperties
<1>3. QED
  BY <1>2, ConcatProperties DEF RemoveAt

(* A collection stays a collection when one of its references is resolved. *)
LEMMA ResolveManyKeeps ==
    ASSUME NEW s \in Seq(EntryType), NEW r \in Nat, NEW target \in Nat
    PROVE  ResolveMany(s, r, target) \in Seq(EntryType)
<1> DEFINE at == Position(s, Entry("placeholder", r))
           found == CHOOSE i \in at : TRUE
<1>1. Entry("element", target) \in EntryType
  BY DEF Entry, EntryType
<1>2. CASE at = {}
  BY <1>1, <1>2 DEF ResolveMany
<1>3. CASE at # {}
  <2>1. found \in 1..Len(s)
    BY <1>3 DEF Position
  <2>2. RemoveAt(s, found) \in Seq(EntryType)
    BY <2>1, CutKeeps
  <2>3. [s EXCEPT ![found] = Entry("element", target)] \in Seq(EntryType)
    BY <1>1, <2>1, ExceptSeq
  <2>4. QED
    BY <1>3, <2>2, <2>3 DEF ResolveMany
<1>4. QED
  BY <1>2, <1>3

(* The references of a tag's attributes are references.                    *)
LEMMA AttributeReferencesType ==
    ASSUME NEW e \in Nat, NEW shape \in Shapes
    PROVE  AttributeReferences(e, shape) \in Seq(ReferenceType)
<1> DEFINE s == shape.references
<1>1. s \in Seq(Reference)
  BY DEF Shape
<1>2. DOMAIN s = 1..Len(s) /\ Len(s) \in Nat
  BY <1>1
<1>3. ASSUME NEW i \in 1..Len(s)
      PROVE  AttributeReferences(e, shape)[i] \in ReferenceType
  <2>1. s[i] \in Reference
    BY <1>1, ElementOfSeq
  <2>2. AttributeReferences(e, shape)[i] = [element |-> e, prop |-> s[i].prop, id |-> s[i].id, child |-> FALSE]
    BY <1>2 DEF AttributeReferences
  <2>3. QED
    BY <2>1, <2>2 DEF Reference, ReferenceType
<1>4. AttributeReferences(e, shape) \in [1..Len(s) -> ReferenceType]
  BY <1>2, <1>3 DEF AttributeReferences
<1>5. AttributeReferences(e, shape) \in UNION {[1..n -> ReferenceType] : n \in Nat}
  BY <1>2, <1>4
<1>6. QED
  BY <1>5, SeqDef

-----------------------------------------------------------------------------
(* Warnings                                                                *)
Warned(ws) ==
    /\ ws \in Seq(WarningType) /\ Len(ws) <= MaxWarnings + 1
    /\ \A i \in DOMAIN ws : ws[i] = "truncated" <=> i = MaxWarnings + 1

LEMMA AddWarningKeeps ==
    ASSUME NEW ws, Warned(ws), NEW w \in WarningType \ {"truncated"}
    PROVE  Warned(AddWarning(ws, w))
<1>1. CASE Len(ws) > MaxWarnings
  BY <1>1 DEF AddWarning, Warned
<1>2. CASE Len(ws) <= MaxWarnings
  <2> DEFINE x == IF Len(ws) = MaxWarnings THEN "truncated" ELSE w
  <2>1. AddWarning(ws, w) = Append(ws, x) /\ x \in WarningType
    BY <1>2 DEF AddWarning, Warned, WarningType
  <2>2. /\ Append(ws, x) \in Seq(WarningType) /\ Len(Append(ws, x)) = Len(ws) + 1
        /\ \A i \in 1..(Len(ws) + 1) : Append(ws, x)[i] = IF i = Len(ws) + 1 THEN x ELSE ws[i]
    BY <2>1 DEF Warned
  <2>3. \A i \in 1..(Len(ws) + 1) : Append(ws, x)[i] = "truncated" <=> i = MaxWarnings + 1
    BY <2>2, <1>2 DEF Warned, WarningType
  <2>4. QED
    BY <2>1, <2>2, <2>3, <1>2 DEF Warned
<1>3. QED
  BY <1>1, <1>2 DEF Warned

-----------------------------------------------------------------------------
(* What an opening tag may do: a handler is pushed, or the parse fails.    *)
Grows(h) ==
    \/ stack' = Append(stack, h) /\ UNCHANGED <<pc, cause>>
    \/ stack' = stack /\ pc' = "failed" /\ cause' = "node"

LEMMA NoopType == Noop \in HandlerType /\ Noop.kind = "noop"
BY DEF Noop, Handler, HandlerType, Kinds

LEMMA Refusing ==
    ASSUME NEW ws, Warned(ws), Refuse(ws)
    PROVE  Grows(Noop) /\ Warned(warnings')
BY AddWarningKeeps DEF Refuse, Push, Grows, WarningType

LEMMA Pushing ==
    ASSUME NEW h, NEW ws, Warned(ws), Push(h, ws)
    PROVE  Grows(h) /\ Warned(warnings')
BY DEF Push, Grows

(* An element keeps its id and its parent.                                 *)
Kept(es, fs) ==
    /\ fs \in Seq(ElementType) /\ Len(fs) = Len(es)
    /\ \A e \in DOMAIN es : fs[e].id = es[e].id /\ fs[e].parent = es[e].parent

LEMMA PutInKeeps ==
    ASSUME NEW es \in Seq(ElementType), NEW owner, NEW prop \in {"children", "child", "refs", "ref"}, NEW entry \in EntryType
    PROVE  Kept(es, [es EXCEPT ![owner] = Put(@, prop, entry)])
<1>1. CASE owner \in 1..Len(es)
  <2>1. es[owner] \in ElementType
    BY <1>1, ElementOfSeq
  <2>2. /\ Put(es[owner], prop, entry) \in ElementType
        /\ Put(es[owner], prop, entry).id = es[owner].id /\ Put(es[owner], prop, entry).parent = es[owner].parent
    BY <2>1, PutKeeps
  <2> DEFINE fs == [es EXCEPT ![owner] = Put(es[owner], prop, entry)]
  <2>3. /\ fs \in Seq(ElementType) /\ Len(fs) = Len(es)
        /\ \A j \in 1..Len(es) : fs[j] = IF j = owner THEN Put(es[owner], prop, entry) ELSE es[j]
    BY <1>1, <2>2, ExceptSeq
  <2>4. QED
    BY <2>2, <2>3 DEF Kept
<1>2. CASE owner \notin 1..Len(es)
  <2>1. [es EXCEPT ![owner] = Put(@, prop, entry)] = es
    BY <1>2
  <2>2. QED
    BY <2>1 DEF Kept
<1>3. QED
  BY <1>1, <1>2

(* One element more, the others keep their ids and parents.                *)
Added(e) ==
    /\ elements' \in Seq(ElementType) /\ Len(elements') = Len(elements) + 1
    /\ elements'[Len(elements) + 1] = e
    /\ \A i \in DOMAIN elements : elements'[i].id = elements[i].id /\ elements'[i].parent = elements[i].parent

LEMMA Adding ==
    ASSUME elements \in Seq(ElementType), NEW fs, Kept(elements, fs), NEW e \in ElementType, elements' = Append(fs, e)
    PROVE  Added(e)
BY DEF Kept, Added

LEMMA NewElementType ==
    ASSUME NEW typed \in BOOLEAN, NEW id \in Text \cup {None}, NEW parent \in Nat
    PROVE  /\ NewElement(typed, id, parent) \in ElementType
           /\ NewElement(typed, id, parent).id = id /\ NewElement(typed, id, parent).parent = parent
BY DEF NewElement, ElementType, Unset, Entry, EntryType

(* What CreateTyped does, whatever the element is attached to.             *)
LEMMA Creating ==
    ASSUME TypeOK, Warned(warnings), NEW shape \in Shapes, NEW attached, Kept(elements, attached),
           NEW parent \in Nat, NEW handler, CreateTyped(shape, attached, parent, handler)
    PROVE  LET ok == Accepts(shape.id) IN
           /\ references' \in Seq(ReferenceType) /\ Len(references') >= Len(references)
           /\ Added(NewElement(TRUE, shape.id, IF ok THEN parent ELSE 0))
           /\ byId' = IF ok /\ shape.id # None THEN [byId EXCEPT ![shape.id] = Len(elements) + 1] ELSE byId
           /\ Grows(IF ok THEN handler ELSE Noop) /\ Warned(warnings')
<1> DEFINE e == Len(elements) + 1
           ok == Accepts(shape.id)
<1>1. e \in Nat /\ elements \in Seq(ElementType) /\ shape.id \in Text \cup {None}
  BY DEF TypeOK, Shape
<1>2. references' \in Seq(ReferenceType) /\ Len(references') >= Len(references)
  <2>1. AttributeReferences(e, shape) \in Seq(ReferenceType)
    BY <1>1, AttributeReferencesType
  <2>2. references' = references \o AttributeReferences(e, shape)
    BY DEF CreateTyped
  <2>3. QED
    BY <2>1, <2>2, ConcatProperties DEF TypeOK
<1>3. Added(NewElement(TRUE, shape.id, IF ok THEN parent ELSE 0))
  <2>1. NewElement(TRUE, shape.id, IF ok THEN parent ELSE 0) \in ElementType
    BY <1>1, NewElementType
  <2>2. Kept(elements, IF ok THEN attached ELSE elements)
    BY <1>1 DEF Kept
  <2>3. QED
    BY <1>1, <2>1, <2>2, Adding DEF CreateTyped
<1>4. Warned(AttributeWarnings(shape))
  BY AddWarningKeeps DEF AttributeWarnings, WarningType
<1>5. Grows(IF ok THEN handler ELSE Noop) /\ Warned(warnings')
  BY <1>4, Refusing, Pushing DEF CreateTyped
<1>6. QED
  BY <1>2, <1>3, <1>5 DEF CreateTyped

-----------------------------------------------------------------------------
(* The invariant: an element's handler has an element, and there is none   *)
(* before the root.                                                        *)
Held == \A i \in DOMAIN stack : stack[i].kind \in {"element", "generic"} => stack[i].at \in DOMAIN elements
Rooted == root <= Len(elements) /\ (root = 0 => elements = <<>> /\ \A id \in Id : byId[id] = 0)
TreeType == root \in Nat /\ elements \in Seq(ElementType) /\ byId \in [Id -> Nat]
TreeOK == TreeType /\ Rooted /\ IndexExact
StackOK == stack \in Seq(HandlerType) /\ depth \in Nat /\ StackAligned /\ Held
IInv == TypeOK /\ Warned(warnings) /\ StackOK /\ TreeOK

(* The tree does not change but for what its elements hold.                *)
LEMMA TreeKept ==
    ASSUME TreeOK, Kept(elements, elements'), root' = root, byId' = byId
    PROVE  TreeOK' /\ Len(elements') = Len(elements)
<1>1. elements' \in Seq(ElementType) /\ Len(elements') = Len(elements) /\ DOMAIN elements' = DOMAIN elements
  BY DEF Kept, TreeOK, TreeType
<1>2. Rooted'
  BY <1>1 DEF TreeOK, TreeType, Rooted
<1>3. \A e \in Elements : InTree(e)' <=> InTree(e)
  BY <1>1 DEF Kept, InTree, Elements
<1>4. IndexExact'
  BY <1>1, <1>3 DEF Kept, TreeOK, IndexExact, Elements
<1>5. QED
  BY <1>1, <1>2, <1>4 DEF TreeOK, TreeType

LEMMA TreeUnchanged ==
    ASSUME TreeOK, UNCHANGED treeVars
    PROVE  TreeOK' /\ Len(elements') = Len(elements)
BY DEF treeVars, TreeOK, TreeType, Rooted, IndexExact, Elements, InTree

(* One more element, indexed if it is accepted.                            *)
LEMMA Indexing ==
    ASSUME TreeOK, NEW id \in Text \cup {None}, NEW parent \in Nat, NEW typed \in BOOLEAN,
           Added(NewElement(typed, id, IF Accepts(id) THEN parent ELSE 0)),
           \/ root # 0 /\ root' = root /\ parent # 0
           \/ root = 0 /\ root' = Len(elements) + 1,
           byId' = IF Accepts(id) /\ id # None THEN [byId EXCEPT ![id] = Len(elements) + 1] ELSE byId
    PROVE  TreeOK' /\ Len(elements') = Len(elements) + 1
<1> DEFINE n == Len(elements) + 1
           InNext(e) == e = root' \/ elements'[e].parent # 0
<1>1. /\ elements' \in Seq(ElementType) /\ Len(elements') = n /\ n \in Nat /\ Elements = 1..(n - 1) /\ Elements' = 1..n
      /\ \A e \in 1..(n - 1) : elements'[e].id = elements[e].id /\ elements'[e].parent = elements[e].parent
      /\ elements'[n].id = id /\ elements'[n].parent = IF Accepts(id) THEN parent ELSE 0
  <2>1. PICK x \in ElementType : x = NewElement(typed, id, IF Accepts(id) THEN parent ELSE 0)
    BY NewElementType
  <2>2. x.id = id /\ x.parent = IF Accepts(id) THEN parent ELSE 0
    BY <2>1 DEF NewElement
  <2>3. PICK m \in Nat : m = Len(elements)
    BY DEF TreeOK, TreeType
  <2>4. DOMAIN elements = 1..m /\ n = m + 1
    BY <2>3 DEF TreeOK, TreeType
  <2>5. /\ elements' \in Seq(ElementType) /\ Len(elements') = n /\ elements'[n] = x
        /\ \A e \in 1..m : elements'[e].id = elements[e].id /\ elements'[e].parent = elements[e].parent
    BY <2>1, <2>4 DEF Added
  <2>6. n \in Nat /\ Elements = 1..(n - 1) /\ Elements' = 1..n /\ n - 1 = m
    BY <2>3, <2>4, <2>5 DEF Elements
  <2>7. QED
    BY <2>2, <2>5, <2>6
<1>2. TreeType'
  BY <1>1 DEF TreeOK, TreeType, Accepts
<1>3. Rooted'
  BY <1>1 DEF TreeOK, TreeType, Rooted
<1>4. \A e \in 1..(n - 1) : InNext(e) <=> InTree(e)
  BY <1>1 DEF InTree, TreeOK, TreeType, Rooted
<1>5. id \in Id => (InNext(n) <=> Accepts(id))
  <2>1. CASE root # 0
    BY <1>1, <2>1 DEF InTree, TreeOK, TreeType, Rooted
  <2>2. CASE root = 0
    BY <1>1, <2>2 DEF InTree, Accepts, TreeOK, TreeType, Rooted
  <2>3. QED
    BY <2>1, <2>2
<1>6. ASSUME NEW j \in Id, byId'[j] # 0
      PROVE  byId'[j] \in Elements' /\ elements'[byId'[j]].id = j /\ InNext(byId'[j])
  <2>1. CASE Accepts(id) /\ id = j
    BY <1>1, <1>5, <2>1 DEF TreeOK, TreeType, Text
  <2>2. CASE ~(Accepts(id) /\ id = j)
    <3>1. byId'[j] = byId[j]
      BY <2>2 DEF TreeOK, TreeType, Accepts
    <3>2. byId[j] \in 1..(n - 1) /\ elements[byId[j]].id = j /\ InTree(byId[j])
      BY <3>1, <1>6, <1>1 DEF TreeOK, IndexExact
    <3>3. QED
      BY <3>1, <3>2, <1>1, <1>4
  <2>3. QED
    BY <2>1, <2>2
<1>7. ASSUME NEW e \in Elements', elements'[e].id \in Id, InNext(e)
      PROVE  byId'[elements'[e].id] = e
  <2>1. CASE e = n
    BY <1>1, <1>5, <1>7, <2>1 DEF TreeOK, TreeType, Text
  <2>2. CASE e # n
    <3>1. e \in 1..(n - 1) /\ elements[e].id \in Id /\ InTree(e)
      BY <2>2, <1>1, <1>4, <1>7
    <3>2. byId[elements[e].id] = e /\ e # 0
      BY <3>1, <1>1 DEF TreeOK, IndexExact
    <3>3. Accepts(id) => id # elements[e].id
      BY <3>1, <3>2 DEF Accepts, Text
    <3>4. QED
      BY <3>1, <3>2, <3>3, <1>1 DEF TreeOK, TreeType
  <2>3. QED
    BY <2>1, <2>2, <1>1
<1>8. IndexExact'
  BY <1>6, <1>7 DEF IndexExact, InTree
<1>9. QED
  BY <1>1, <1>2, <1>3, <1>8 DEF TreeOK

(* The stack after an opening tag.                                         *)
LEMMA StackGrows ==
    ASSUME StackOK, pc = "reading", depth' = depth + 1, NEW h \in HandlerType, Grows(h), Len(elements') >= Len(elements),
           elements \in Seq(ElementType), elements' \in Seq(ElementType),
           h.kind \in {"element", "generic"} => h.at \in 1..Len(elements')
    PROVE  StackOK'
<1>1. CASE stack' = Append(stack, h) /\ UNCHANGED <<pc, cause>>
  <2>1. /\ stack' \in Seq(HandlerType) /\ Len(stack') = Len(stack) + 1
        /\ \A i \in 1..(Len(stack) + 1) : stack'[i] = IF i = Len(stack) + 1 THEN h ELSE stack[i]
    BY <1>1 DEF StackOK
  <2>2. Head(stack').kind = "root"
    BY <2>1 DEF StackOK, StackAligned
  <2>3. Held'
    <3>1. PICK m \in Nat : m = Len(stack)
      BY DEF StackOK
    <3>2. ASSUME NEW i \in 1..m, stack'[i].kind \in {"element", "generic"}
          PROVE  stack'[i].at \in 1..Len(elements')
      <4>1. stack'[i] = stack[i]
        BY <2>1, <3>1
      <4>2. stack[i].at \in 1..Len(elements)
        BY <3>1, <3>2, <4>1 DEF StackOK, Held
      <4>3. QED
        BY <4>1, <4>2
    <3>3. stack'[m + 1] = h /\ DOMAIN stack' = 1..m + 1
      BY <2>1, <3>1
    <3>4. \A i \in 1..m + 1 : i = m + 1 \/ i \in 1..m
      BY <3>1
    <3>5. QED
      BY <3>2, <3>3, <3>4 DEF Held
  <2>4. QED
    BY <2>1, <2>2, <2>3, <1>1 DEF StackOK, StackAligned
<1>2. CASE stack' = stack /\ pc' = "failed" /\ cause' = "node"
  <2>1. Held'
    BY <1>2 DEF StackOK, Held
  <2>2. QED
    BY <2>1, <1>2 DEF StackOK, StackAligned
<1>3. QED
  BY <1>1, <1>2 DEF Grows

LEMMA StackUnchanged ==
    ASSUME StackOK, stack' = stack, depth' = depth, pc' \in {"reading", "resolving"} => pc \in {"reading", "resolving"},
           elements \in Seq(ElementType), elements' \in Seq(ElementType), Len(elements') = Len(elements)
    PROVE  StackOK'
BY DEF StackOK, StackAligned, Held

-----------------------------------------------------------------------------
(* Steps                                                                   *)
LEMMA OwnerHeld ==
    ASSUME IInv, InElement \/ Top.kind = "generic", pc = "reading"
    PROVE  Owner(Top) \in 1..Len(elements) /\ root # 0 /\ Top \in HandlerType
<1>1. Len(stack) >= 1 /\ Top = stack[Len(stack)] /\ Len(stack) \in 1..Len(stack) /\ stack \in Seq(HandlerType)
  BY DEF IInv, StackOK, StackAligned, Top, Last
<1>2. Top \in HandlerType
  BY <1>1, ElementOfSeq
<1>3. Top.kind \in {"element", "generic"} => Top.at \in 1..Len(elements)
  BY <1>1 DEF IInv, StackOK, Held, TypeOK
<1>4. root \in Nat /\ root <= Len(elements) /\ (root = 0 => elements = <<>>)
  BY DEF IInv, TreeOK, TreeType, Rooted
<1>5. QED
  BY <1>2, <1>3, <1>4 DEF InElement, Owner, HandlerType, IInv, TypeOK

(* An opening tag that is taken: the tree and the stack are as they must   *)
(* be when the handler pushed has its element.                             *)
LEMMA Opened ==
    ASSUME IInv, Opening, TreeOK', NEW h \in HandlerType, Grows(h), Warned(warnings'), Len(elements') >= Len(elements),
           h.kind \in {"element", "generic"} => h.at \in 1..Len(elements'),
           references' \in Seq(ReferenceType), Len(references') >= Len(references)
    PROVE  IInv'
<1>1. elements \in Seq(ElementType) /\ elements' \in Seq(ElementType)
  BY DEF IInv, TreeOK, TreeType
<1>2. StackOK'
  BY <1>1, StackGrows DEF IInv, Opening
<1>3. TypeOK'
  BY <1>1, <1>2 DEF IInv, TypeOK, Opening, Grows, StackOK, TreeOK, TreeType, Warned
<1>4. Warned(warnings)'
  BY DEF Warned
<1>5. QED
  BY <1>2, <1>3, <1>4 DEF IInv

LEMMA HandlerIsTyped ==
    ASSUME NEW kind \in Kinds, NEW at \in Nat
    PROVE  Handler(kind, at) \in HandlerType /\ Handler(kind, at).kind = kind /\ Handler(kind, at).at = at
BY DEF Handler, HandlerType

LEMMA RootOpened ==
    ASSUME IInv, NEW shape \in Shapes, OpenRoot(shape)
    PROVE  IInv'
<1> DEFINE ok == Accepts(shape.id)
           h == IF ok THEN Handler("root", 0) ELSE Noop
<1>1. elements \in Seq(ElementType) /\ Kept(elements, elements) /\ root = 0 /\ root' = Len(elements) + 1 /\ Opening
  BY DEF IInv, TypeOK, Kept, OpenRoot
<1>2. /\ references' \in Seq(ReferenceType) /\ Len(references') >= Len(references)
      /\ Added(NewElement(TRUE, shape.id, 0))
      /\ byId' = IF ok /\ shape.id # None THEN [byId EXCEPT ![shape.id] = Len(elements) + 1] ELSE byId
      /\ Grows(h) /\ Warned(warnings')
  BY <1>1, Creating DEF IInv, OpenRoot
<1>3. shape.id \in Text \cup {None}
  BY DEF Shape
<1>4. TreeOK' /\ Len(elements') = Len(elements) + 1
  BY <1>1, <1>2, <1>3, Indexing DEF IInv
<1>5. h \in HandlerType /\ h.kind \in {"root", "noop"}
  BY HandlerIsTyped, NoopType DEF Kinds
<1>6. QED
  BY <1>1, <1>2, <1>4, <1>5, Opened

LEMMA ContainedOpened ==
    ASSUME IInv, NEW shape \in Shapes, NEW prop \in {"children", "child"}, OpenContained(prop, shape)
    PROVE  IInv'
<1> DEFINE ok == Accepts(shape.id)
           e == Len(elements) + 1
           owner == Owner(Top)
           attached == [elements EXCEPT ![owner] = Put(@, prop, Entry("element", e))]
           h == IF ok THEN Handler("element", e) ELSE Noop
<1>1. elements \in Seq(ElementType) /\ e \in Nat /\ root' = root /\ Opening /\ owner \in 1..Len(elements) /\ root # 0
  BY OwnerHeld DEF IInv, TypeOK, OpenContained, Opening
<1>2. Entry("element", e) \in EntryType
  BY <1>1 DEF Entry, EntryType
<1>3. Kept(elements, attached)
  BY <1>1, <1>2, PutInKeeps
<1>4. CreateTyped(shape, attached, owner, Handler("element", e))
  BY DEF OpenContained
<1>5. /\ references' \in Seq(ReferenceType) /\ Len(references') >= Len(references)
      /\ Added(NewElement(TRUE, shape.id, IF ok THEN owner ELSE 0))
      /\ byId' = IF ok /\ shape.id # None THEN [byId EXCEPT ![shape.id] = e] ELSE byId
      /\ Grows(h) /\ Warned(warnings')
  <2>1. owner \in Nat /\ TypeOK /\ Warned(warnings)
    BY <1>1 DEF IInv
  <2> HIDE DEF attached, owner
  <2>2. QED
    BY <2>1, <1>3, <1>4, Creating
<1>6. shape.id \in Text \cup {None}
  BY DEF Shape
<1>7. TreeOK' /\ Len(elements') = Len(elements) + 1
  <2>1. owner \in Nat /\ owner # 0 /\ TreeOK
    BY <1>1 DEF IInv
  <2> HIDE DEF owner
  <2>2. QED
    BY <2>1, <1>1, <1>5, <1>6, Indexing
<1>8. h \in HandlerType /\ (h.kind \in {"element", "generic"} => h.at = e)
  BY <1>1, HandlerIsTyped, NoopType DEF Kinds
<1>9. QED
  BY <1>1, <1>5, <1>7, <1>8, Opened

LEMMA AnyOpened ==
    ASSUME IInv, OpenAny
    PROVE  IInv'
<1> DEFINE e == Len(elements) + 1
           owner == Owner(Top)
           attached == [elements EXCEPT ![owner] = Put(@, "children", Entry("element", e))]
           h == Handler("generic", e)
<1>1. /\ elements \in Seq(ElementType) /\ e \in Nat /\ root' = root /\ byId' = byId /\ references' = references /\ Opening
      /\ owner \in 1..Len(elements) /\ root # 0
  BY OwnerHeld DEF IInv, TypeOK, OpenAny, Opening
<1>2. Entry("element", e) \in EntryType
  BY <1>1 DEF Entry, EntryType
<1>3. Kept(elements, attached)
  BY <1>1, <1>2, PutInKeeps
<1>4. elements' = Append(attached, NewElement(FALSE, None, owner)) /\ Push(h, warnings)
  BY DEF OpenAny
<1>5. NewElement(FALSE, None, owner) \in ElementType /\ Accepts(None) /\ owner \in Nat
  <2>1. owner \in Nat /\ None \in Text \cup {None}
    BY <1>1
  <2>2. NewElement(FALSE, None, owner) \in ElementType
    BY <2>1, NewElementType
  <2>3. QED
    BY <2>1, <2>2 DEF Accepts
<1>6. Added(NewElement(FALSE, None, owner))
  <2> HIDE DEF attached, owner
  <2>1. QED
    BY <1>1, <1>3, <1>4, <1>5, Adding
<1>7. TreeOK' /\ Len(elements') = Len(elements) + 1
  <2>1. owner # 0 /\ TreeOK /\ (IF Accepts(None) THEN owner ELSE 0) = owner
    BY <1>1, <1>5 DEF IInv
  <2>2. byId' = IF Accepts(None) /\ None # None THEN [byId EXCEPT ![None] = e] ELSE byId
    BY <1>1
  <2> HIDE DEF owner
  <2>3. Added(NewElement(FALSE, None, IF Accepts(None) THEN owner ELSE 0))
    BY <2>1, <1>6
  <2>4. QED
    BY <2>1, <2>2, <2>3, <1>1, <1>5, Indexing
<1>8. h \in HandlerType /\ h.at = e /\ Grows(h) /\ Warned(warnings')
  BY <1>1, <1>4, HandlerIsTyped, Pushing DEF Kinds, IInv
<1>9. references' \in Seq(ReferenceType) /\ Len(references') >= Len(references)
  BY <1>1 DEF IInv, TypeOK
<1>10. QED
  BY <1>1, <1>7, <1>8, <1>9, Opened

LEMMA ReferenceOpened ==
    ASSUME IInv, NEW prop \in {"ref", "refs"}, OpenReference(prop)
    PROVE  IInv'
<1> DEFINE r == Len(references) + 1
           owner == Owner(Top)
           filled == [elements EXCEPT ![owner] = Put(@, prop, Entry("placeholder", r))]
           h == Handler("reference", r)
<1>1. /\ elements \in Seq(ElementType) /\ r \in Nat /\ root' = root /\ byId' = byId /\ Opening
      /\ owner \in 1..Len(elements) /\ elements' = filled /\ Push(h, warnings)
  BY OwnerHeld DEF IInv, TypeOK, OpenReference, Opening
<1>2. Entry("placeholder", r) \in EntryType
  BY <1>1 DEF Entry, EntryType
<1>3. Kept(elements, filled)
  BY <1>1, <1>2, PutInKeeps
<1>4. TreeOK' /\ Len(elements') = Len(elements)
  BY <1>1, <1>3, TreeKept DEF IInv
<1>5. h \in HandlerType /\ h.kind = "reference" /\ Grows(h) /\ Warned(warnings')
  BY <1>1, HandlerIsTyped, Pushing DEF Kinds, IInv
<1>6. references' \in Seq(ReferenceType) /\ Len(references') >= Len(references)
  <2>1. [element |-> owner, prop |-> prop, id |-> None, child |-> TRUE] \in ReferenceType
    BY <1>1 DEF ReferenceType
  <2>2. QED
    BY <2>1 DEF OpenReference, IInv, TypeOK
<1>7. Len(elements') >= Len(elements)
  BY <1>1, <1>4
<1>8. QED
  BY <1>1, <1>4, <1>5, <1>6, <1>7, Opened

(* A tag that leaves the tree alone, refused or not.                       *)
LEMMA PlainOpened ==
    ASSUME IInv, Opening, UNCHANGED <<treeVars, references>>, NEW h \in HandlerType, Grows(h), Warned(warnings'),
           h.kind \notin {"element", "generic"}
    PROVE  IInv'
<1>1. TreeOK' /\ Len(elements') = Len(elements) /\ Len(elements) \in Nat
  BY TreeUnchanged DEF IInv, TypeOK
<1>2. references' \in Seq(ReferenceType) /\ Len(references') >= Len(references)
  BY DEF IInv, TypeOK
<1>3. Len(elements') >= Len(elements)
  BY <1>1
<1>4. QED
  BY <1>1, <1>2, <1>3, Opened

LEMMA WithoutElement ==
    ASSUME IInv, OpenWrongRoot \/ OpenValue \/ OpenRefused \/ OpenIgnored
    PROVE  IInv'
<1>1. Warned(warnings) /\ root \in Nat
  BY DEF IInv, TypeOK
<1>2. CASE OpenWrongRoot \/ OpenRefused
  <2>1. Opening /\ Refuse(warnings) /\ UNCHANGED <<treeVars, references>>
    BY <1>2 DEF OpenWrongRoot, OpenRefused
  <2>2. Grows(Noop) /\ Warned(warnings')
    BY <1>1, <2>1, Refusing
  <2>3. QED
    BY <2>1, <2>2, NoopType, PlainOpened
<1>3. CASE OpenValue
  <2> DEFINE h == Handler("value", Owner(Top))
  <2>1. Opening /\ InElement /\ Push(h, warnings) /\ UNCHANGED <<treeVars, references>>
    BY <1>3 DEF OpenValue
  <2>2. Grows(h) /\ Warned(warnings')
    BY <1>1, <2>1, Pushing
  <2>3. Owner(Top) \in Nat
    BY <2>1, OwnerHeld DEF Opening
  <2>4. h \in HandlerType /\ h.kind = "value"
    BY <2>3, HandlerIsTyped DEF Kinds
  <2>5. QED
    BY <2>1, <2>2, <2>4, PlainOpened
<1>4. CASE OpenIgnored
  <2> DEFINE h == IF Top.kind = "value" THEN Handler("none", 0) ELSE Noop
  <2>1. Opening /\ Push(h, warnings) /\ UNCHANGED <<treeVars, references>>
    BY <1>4 DEF OpenIgnored
  <2>2. Grows(h) /\ Warned(warnings')
    BY <1>1, <2>1, Pushing
  <2>3. h \in HandlerType /\ h.kind \in {"none", "noop"}
    BY HandlerIsTyped, NoopType DEF Kinds
  <2>4. QED
    BY <2>1, <2>2, <2>3, PlainOpened
<1>5. QED
  BY <1>2, <1>3, <1>4

(* A closing tag pops the handler its opening tag has pushed.              *)
LEMMA Closing ==
    ASSUME IInv, Close
    PROVE  IInv'
<1>1. /\ stack \in Seq(HandlerType) /\ Len(stack) = depth + 1 /\ Head(stack).kind = "root" /\ depth \in Nat \ {0}
      /\ stack' = Front(stack) /\ depth' = depth - 1
  BY DEF IInv, StackOK, StackAligned, Close
<1>2. /\ stack' \in Seq(HandlerType) /\ Len(stack') = depth
      /\ \A i \in 1..depth : stack'[i] = stack[i]
  <2>1. stack' = SubSeq(stack, 1, depth) /\ 1 \in Int /\ depth \in Int /\ \A i \in 1..depth : stack[i] \in HandlerType
    BY <1>1 DEF Front
  <2>2. QED
    BY <2>1, <1>1, SubSeqProperties
<1>3. UNCHANGED treeVars /\ TreeOK' /\ elements' = elements
  BY TreeUnchanged DEF Close, IInv, treeVars
<1>4. StackOK'
  <2>1. Head(stack') = Head(stack)
    BY <1>1, <1>2
  <2>2. Held'
    BY <1>1, <1>2, <1>3 DEF IInv, StackOK, Held
  <2>3. QED
    BY <1>1, <1>2, <2>1, <2>2 DEF StackOK, StackAligned
<1>5. Top \in HandlerType
  BY <1>1, ElementOfSeq DEF Top, Last
<1>6. references' \in Seq(ReferenceType) /\ Len(references') = Len(references)
  <2> DEFINE r == Top.at
  <2>1. CASE Top.kind = "reference" /\ r \in 1..Len(references)
    <3>1. references[r] \in ReferenceType
      BY <2>1, ElementOfSeq DEF IInv, TypeOK
    <3>2. [references[r] EXCEPT !.id = Top.body] \in ReferenceType
      BY <3>1, <1>5 DEF ReferenceType, HandlerType
    <3>3. references' = [references EXCEPT ![r] = [references[r] EXCEPT !.id = Top.body]]
      BY <2>1 DEF Close, TakeId
    <3>4. QED
      BY <2>1, <3>2, <3>3, ExceptSeq DEF IInv, TypeOK
  <2>2. CASE ~(Top.kind = "reference" /\ r \in 1..Len(references))
    <3>1. references' = references
      BY <2>2 DEF Close, TakeId, IInv, TypeOK
    <3>2. QED
      BY <3>1 DEF IInv, TypeOK
  <2>3. QED
    BY <2>1, <2>2
<1>7. TypeOK'
  BY <1>2, <1>3, <1>4, <1>6 DEF IInv, TypeOK, Close, StackOK, TreeOK, TreeType
<1>8. Warned(warnings)'
  BY DEF Close, IInv, Warned
<1>9. QED
  BY <1>3, <1>4, <1>7, <1>8 DEF IInv

(* A text changes the body of a handler at most.                           *)
LEMMA TextRead ==
    ASSUME IInv, NEW text \in Text, NEW warned \in BOOLEAN, ReadText(text, warned)
    PROVE  IInv'
<1>1. /\ stack \in Seq(HandlerType) /\ Len(stack) = depth + 1 /\ Head(stack).kind = "root" /\ depth \in Nat
      /\ UNCHANGED <<pc, lax, depth, treeVars, references, resolved, cause, tags>> /\ texts' = texts + 1
  BY DEF IInv, StackOK, StackAligned, ReadText
<1>2. TreeOK' /\ elements' = elements
  BY <1>1, TreeUnchanged DEF IInv, treeVars
<1>3. Warned(warnings')
  BY AddWarningKeeps DEF ReadText, WarningType, IInv
<1> DEFINE n == Len(stack)
           body == IF stack[n].body = None THEN text ELSE Illegal
           read == [stack EXCEPT ![n] = [stack[n] EXCEPT !.body = body]]
<1>4. /\ stack' \in Seq(HandlerType) /\ Len(stack') = n
      /\ \A i \in 1..n : stack'[i].kind = stack[i].kind /\ stack'[i].at = stack[i].at
  <2>1. n \in 1..n /\ stack[n] \in HandlerType
    BY <1>1, ElementOfSeq
  <2>2. [stack[n] EXCEPT !.body = body] \in HandlerType
    BY <2>1 DEF HandlerType, Text
  <2>3. read \in Seq(HandlerType) /\ Len(read) = n /\ \A i \in 1..n : read[i] = IF i = n THEN [stack[n] EXCEPT !.body = body] ELSE stack[i]
    BY <1>1, <2>1, <2>2, ExceptSeq
  <2>4. \A i \in 1..n : read[i].kind = stack[i].kind /\ read[i].at = stack[i].at
    BY <2>1, <2>3 DEF HandlerType
  <2>5. stack' = stack \/ stack' = read
    BY <2>1 DEF ReadText
  <2>6. QED
    BY <1>1, <2>3, <2>4, <2>5
<1>5. StackOK'
  <2>1. Head(stack').kind = "root" /\ n = depth + 1
    BY <1>1, <1>4
  <2>2. Held'
    BY <1>1, <1>2, <1>4 DEF IInv, StackOK, Held
  <2>3. QED
    BY <1>1, <1>4, <2>1, <2>2 DEF StackOK, StackAligned
<1>6. TypeOK'
  BY <1>1, <1>2, <1>3, <1>4 DEF IInv, TypeOK, Warned, treeVars
<1>7. Warned(warnings)'
  BY <1>3 DEF Warned
<1>8. QED
  BY <1>2, <1>5, <1>6, <1>7 DEF IInv

(* The steps that read nothing of the tree, or only its end.               *)
LEMMA Aside ==
    ASSUME IInv, Preamble \/ XmlError \/ EndDocument \/ Return
    PROVE  IInv'
<1>1. /\ UNCHANGED <<lax, stack, depth, treeVars, references, resolved, tags>> /\ texts' \in Nat
      /\ pc' \in {"reading", "resolving", "done", "failed"} /\ (pc' \in {"reading", "resolving"} => pc \in {"reading", "resolving"})
      /\ cause' \in {None, "node", "close", "xml", "root"}
  BY DEF Preamble, XmlError, EndDocument, Return, IInv, TypeOK
<1>2. TreeOK' /\ elements' = elements
  BY <1>1, TreeUnchanged DEF IInv, treeVars
<1>3. Warned(warnings')
  BY AddWarningKeeps DEF Preamble, XmlError, EndDocument, Return, WarningType, IInv
<1>4. StackOK'
  BY <1>1, <1>2, StackUnchanged DEF IInv, TreeOK, TreeType
<1>5. TypeOK'
  BY <1>1, <1>2, <1>3 DEF IInv, TypeOK, Warned, treeVars
<1>6. Warned(warnings)'
  BY <1>3 DEF Warned
<1>7. QED
  BY <1>2, <1>4, <1>5, <1>6 DEF IInv

(* Resolving a reference fills a property.                                 *)
SameNode(e, f) == f \in ElementType /\ f.id = e.id /\ f.parent = e.parent

LEMMA FillKeeps ==
    ASSUME NEW e \in ElementType, NEW prop \in {"refs", "ref"}, NEW k \in Nat, NEW to \in Nat
    PROVE  SameNode(e, Fill(e, prop, k, to))
<1>1. CASE prop = "refs"
  <2>1. e.refs \in Seq(EntryType)
    BY DEF ElementType
  <2>2. ResolveMany(e.refs, k, to) \in Seq(EntryType)
    BY <2>1, ResolveManyKeeps
  <2>3. QED
    BY <1>1, <2>2 DEF Fill, ElementType, SameNode
<1>2. CASE prop = "ref"
  <2>1. (IF to = 0 THEN Unset ELSE Entry("element", to)) \in EntryType
    BY DEF Unset, Entry, EntryType
  <2>2. QED
    BY <1>2, <2>1 DEF Fill, ElementType, SameNode
<1>3. QED
  BY <1>1, <1>2

LEMMA ResolvedKept ==
    ASSUME IInv, Resolve
    PROVE  Kept(elements, elements') /\ root' = root
<1> DEFINE r == resolved + 1
           ref == references[r]
           target == Target(ref.id)
           owner == ref.element
           filled(e) == Fill(e, ref.prop, r, target)
<1>1. /\ UNCHANGED <<pc, lax, stack, depth, root, byId, references, cause, tags, texts>>
      /\ elements' = [elements EXCEPT ![owner] = filled(@)]
      /\ warnings' = IF target = 0 THEN AddWarning(warnings, "unresolved") ELSE warnings
      /\ resolved' = r /\ r \in 1..Len(references) /\ r \in Nat /\ pc = "resolving" /\ elements \in Seq(ElementType)
  <2>1. /\ resolved \in 0..Len(references) /\ resolved < Len(references) /\ Len(references) \in Nat
        /\ elements \in Seq(ElementType)
    BY DEF Resolve, IInv, TypeOK
  <2>2. r \in 1..Len(references) /\ r \in Nat
    BY <2>1
  <2>3. QED
    BY <2>1, <2>2 DEF Resolve
<1>2. ref \in ReferenceType
  BY <1>1, ElementOfSeq DEF IInv, TypeOK
<1>3. target \in Nat
  BY <1>2 DEF Target, Indexed, IInv, TypeOK
<1>4. ASSUME NEW e \in ElementType
      PROVE  SameNode(e, filled(e))
  <2>1. ref.prop \in {"refs", "ref"} /\ r \in Nat
    BY <1>1, <1>2 DEF ReferenceType
  <2> HIDE DEF target, ref, r
  <2>2. QED
    BY <2>1, <1>3, FillKeeps, Zenon
<1>5. Kept(elements, elements')
  <2> HIDE DEF filled, owner
  <2>1. CASE owner \in 1..Len(elements)
    <3>1. elements[owner] \in ElementType
      BY <1>1, <2>1, ElementOfSeq
    <3>2. SameNode(elements[owner], filled(elements[owner]))
      BY <1>4, <3>1
    <3> DEFINE f == filled(elements[owner])
    <3> HIDE DEF f
    <3>3. elements' = [elements EXCEPT ![owner] = f] /\ f \in ElementType /\ f.id = elements[owner].id /\ f.parent = elements[owner].parent
      BY <1>1, <3>2 DEF f, SameNode
    <3>4. elements' \in Seq(ElementType) /\ Len(elements') = Len(elements) /\ \A j \in 1..Len(elements) : elements'[j] = IF j = owner THEN f ELSE elements[j]
      BY <1>1, <2>1, <3>3, ExceptSeq
    <3>5. QED
      BY <1>1, <3>3, <3>4 DEF Kept
  <2>2. CASE owner \notin 1..Len(elements)
    <3>1. elements' = elements
      BY <1>1, <2>2
    <3>2. QED
      BY <1>1, <3>1 DEF Kept
  <2>3. QED
    BY <2>1, <2>2
<1>6. QED
  BY <1>1, <1>5

LEMMA Resolved ==
    ASSUME IInv, Resolve
    PROVE  IInv'
<1> DEFINE r == resolved + 1
<1>1. /\ UNCHANGED <<pc, lax, stack, depth, root, byId, references, cause, tags, texts>>
      /\ warnings' = warnings \/ warnings' = AddWarning(warnings, "unresolved")
      /\ resolved' = r /\ r \in 0..Len(references) /\ pc = "resolving" /\ elements \in Seq(ElementType)
  <2>1. resolved \in 0..Len(references) /\ resolved < Len(references) /\ Len(references) \in Nat
    BY DEF Resolve, IInv, TypeOK
  <2>2. r \in 0..Len(references)
    BY <2>1
  <2>3. QED
    BY <2>2 DEF Resolve, IInv, TypeOK
<1>5. Kept(elements, elements')
  BY ResolvedKept
<1>6. TreeOK' /\ Len(elements') = Len(elements)
  BY <1>1, <1>5, TreeKept DEF IInv
<1>7. Warned(warnings')
  BY <1>1, AddWarningKeeps DEF WarningType, IInv
<1>8. StackOK'
  BY <1>1, <1>6, StackUnchanged DEF IInv, TreeOK, TreeType
<1>9. TypeOK'
  <2>1. warnings' \in Seq(WarningType) /\ elements' \in Seq(ElementType)
    BY <1>6, <1>7 DEF Warned, TreeOK, TreeType
  <2>2. QED
    BY <1>1, <2>1 DEF IInv, TypeOK
<1>10. Warned(warnings)'
  BY <1>7 DEF Warned
<1>11. QED
  BY <1>6, <1>8, <1>9, <1>10 DEF IInv

-----------------------------------------------------------------------------
LEMMA Initially == Init => IInv
<1> SUFFICES ASSUME Init PROVE IInv
  OBVIOUS
<1>1. Handler("root", 0) \in HandlerType /\ Handler("root", 0).kind = "root" /\ stack = <<Handler("root", 0)>>
  BY HandlerIsTyped DEF Init, Kinds
<1>2. /\ pc = "reading" /\ lax \in BOOLEAN /\ depth = 0 /\ root = 0 /\ elements = <<>> /\ byId = [id \in Id |-> 0]
      /\ references = <<>> /\ resolved = 0 /\ warnings = <<>> /\ cause = None /\ tags = 0 /\ texts = 0
  BY DEF Init
<1>3. stack \in Seq(HandlerType) /\ Len(stack) = 1 /\ stack[1] = Handler("root", 0) /\ Head(stack) = stack[1]
  BY <1>1
<1>4. TypeOK
  BY <1>2, <1>3 DEF TypeOK
<1>5. StackOK
  BY <1>1, <1>2, <1>3 DEF StackOK, StackAligned, Held
<1>6. TreeOK
  BY <1>2 DEF TreeOK, TreeType, Rooted, IndexExact, Elements, InTree
<1>7. Warned(warnings)
  BY <1>2 DEF Warned
<1>8. QED
  BY <1>4, <1>5, <1>6, <1>7 DEF IInv

(* Every step keeps the invariant.                                         *)
LEMMA Inductive == IInv /\ [Next]_vars => IInv'
<1> SUFFICES ASSUME IInv, [Next]_vars PROVE IInv'
  OBVIOUS
<1>1. CASE \E shape \in Shapes :
             \/ OpenRoot(shape)
             \/ \E prop \in {"children", "child"} : OpenContained(prop, shape)
  BY <1>1, RootOpened, ContainedOpened
<1>2. CASE \E prop \in {"ref", "refs"} : OpenReference(prop)
  BY <1>2, ReferenceOpened
<1>3. CASE OpenWrongRoot \/ OpenValue \/ OpenRefused \/ OpenIgnored
  BY <1>3, WithoutElement
<1>4. CASE OpenAny
  BY <1>4, AnyOpened
<1>5. CASE \E text \in Text, warned \in BOOLEAN : ReadText(text, warned)
  BY <1>5, TextRead
<1>6. CASE Close
  BY <1>6, Closing
<1>7. CASE Preamble \/ XmlError \/ EndDocument \/ Return
  BY <1>7, Aside
<1>8. CASE Resolve
  BY <1>8, Resolved
<1>9. CASE UNCHANGED vars
  BY <1>9 DEF vars, treeVars, IInv, TypeOK, Warned, StackOK, StackAligned, Held, TreeOK, TreeType, Rooted,
              IndexExact, Elements, InTree
<1>10. QED
  BY <1>1, <1>2, <1>3, <1>4, <1>5, <1>6, <1>7, <1>8, <1>9 DEF Next

(* The invariant holds of every behaviour.                                 *)
THEOREM Invariance == Spec => []IInv
BY Initially, Inductive, PTL DEF Spec

(* Every variable of the reader has its type, for every meta-model.        *)
THEOREM TypeCorrect == Spec => []TypeOK
<1>1. IInv => TypeOK
  BY DEF IInv
<1>2. QED
  BY <1>1, Invariance, PTL

(* A closing tag always ends the handler its opening tag got: from_xml     *)
(* never runs out of handlers, whatever was refused or skipped.            *)
THEOREM HandlersAligned == Spec => []StackAligned
<1>1. IInv => StackAligned
  BY DEF IInv, StackOK
<1>2. QED
  BY <1>1, Invariance, PTL

(* elements_by_id is exact at every moment of the parse: a reference is    *)
(* resolved to the element of the tree with that id, or to none.           *)
THEOREM IndexStaysExact == Spec => []IndexExact
<1>1. IInv => IndexExact
  BY DEF IInv, TreeOK
<1>2. QED
  BY <1>1, Invariance, PTL

(* The warnings never exceed MAX_WARNINGS and the note that they were cut. *)
THEOREM WarningsStayBounded == Spec => []WarningsBounded
<1>1. IInv => WarningsBounded
  BY DEF IInv, Warned, WarningsBounded
<1>2. QED
  BY <1>1, Invariance, PTL

-----------------------------------------------------------------------------
(* A strict reader that has not failed has refused nothing.                *)
Unskipped(ws) == \A i \in DOMAIN ws : ws[i] # "node"
Attached == \A e \in Elements : InTree(e)
Strict == ~lax /\ pc # "failed" => Attached /\ Unskipped(warnings)

LEMMA AddOther ==
    ASSUME NEW ws, Warned(ws), Unskipped(ws), NEW w \in WarningType \ {"node"}
    PROVE  Unskipped(AddWarning(ws, w))
<1> DEFINE x == IF Len(ws) = MaxWarnings THEN "truncated" ELSE w
<1>1. x # "node" /\ x \in WarningType /\ ws \in Seq(WarningType)
  BY DEF WarningType, Warned
<1>2. Unskipped(Append(ws, x))
  BY <1>1 DEF Unskipped
<1>3. QED
  BY <1>2 DEF AddWarning

(* Elements that keep their parents keep their place.                      *)
LEMMA AttachedKept ==
    ASSUME TreeOK, Kept(elements, elements'), root' = root, Attached
    PROVE  Attached'
BY DEF Kept, TreeOK, TreeType, Attached, Elements, InTree

(* One more element is in the tree if the others are and it is.            *)
LEMMA AttachedAdded ==
    ASSUME TreeOK, NEW e, Added(e), Attached,
           \/ root' = root /\ root # 0 /\ e.parent # 0
           \/ root = 0 /\ root' = Len(elements) + 1
    PROVE  Attached'
<1>1. /\ elements' \in Seq(ElementType) /\ Len(elements') = Len(elements) + 1 /\ elements'[Len(elements) + 1] = e
      /\ \A i \in 1..Len(elements) : elements'[i].parent = elements[i].parent
      /\ elements \in Seq(ElementType) /\ Len(elements) \in Nat
  BY DEF Added, TreeOK, TreeType
<1>2. ASSUME NEW i \in 1..(Len(elements) + 1)
      PROVE  i = root' \/ elements'[i].parent # 0
  <2>1. CASE i = Len(elements) + 1
    BY <1>1, <2>1
  <2>2. CASE i \in 1..Len(elements)
    BY <1>1, <2>2 DEF Attached, Elements, InTree, TreeOK, Rooted
  <2>3. QED
    BY <1>1, <2>1, <2>2
<1>3. QED
  BY <1>1, <1>2 DEF Attached, Elements, InTree

(* A typed element that a strict reader does not take ends the parse.      *)
LEMMA CreatedStrictly ==
    ASSUME IInv, Strict, pc = "reading", NEW shape \in Shapes, NEW attached, Kept(elements, attached), NEW parent \in Nat,
           NEW handler, CreateTyped(shape, attached, parent, handler), ~lax, pc' # "failed"
    PROVE  Added(NewElement(TRUE, shape.id, parent)) /\ Attached /\ Unskipped(warnings')
<1>1. Attached /\ Unskipped(warnings) /\ Warned(warnings) /\ TypeOK
  BY DEF Strict, IInv
<1>2. Accepts(shape.id) /\ warnings' = AttributeWarnings(shape)
  BY DEF CreateTyped, Refuse, Push
<1>3. Unskipped(warnings')
  BY <1>1, <1>2, AddOther DEF AttributeWarnings, WarningType
<1>4. Added(NewElement(TRUE, shape.id, IF Accepts(shape.id) THEN parent ELSE 0))
  BY <1>1, Creating
<1>5. QED
  BY <1>1, <1>2, <1>3, <1>4

LEMMA StrictStep ==
    ASSUME IInv, Strict, Next
    PROVE  Strict'
<1> SUFFICES ASSUME ~lax', pc' # "failed" PROVE Attached' /\ Unskipped(warnings')
  BY DEF Strict, Unskipped
<1>1. ~lax /\ pc # "failed" /\ Attached /\ Unskipped(warnings) /\ Warned(warnings) /\ TreeOK /\ elements \in Seq(ElementType)
  <2>1. lax' = lax
    BY DEF Next, OpenRoot, OpenContained, OpenReference, OpenWrongRoot, OpenAny, OpenValue, OpenRefused, OpenIgnored,
           Opening, ReadText, Close, Preamble, XmlError, EndDocument, Resolve, Return
  <2>2. pc # "failed"
    BY DEF Next, OpenRoot, OpenContained, OpenReference, OpenWrongRoot, OpenAny, OpenValue, OpenRefused, OpenIgnored,
           Opening, ReadText, Close, Preamble, XmlError, EndDocument, Resolve, Return
  <2>3. QED
    BY <2>1, <2>2 DEF Strict, IInv, TreeOK, TreeType
<1>2. ASSUME NEW shape \in Shapes, OpenRoot(shape)
      PROVE  Attached' /\ Unskipped(warnings')
  <2>1. Kept(elements, elements) /\ root = 0 /\ root' = Len(elements) + 1 /\ pc = "reading"
    BY <1>1, <1>2 DEF OpenRoot, Opening, Kept
  <2>2. Added(NewElement(TRUE, shape.id, 0)) /\ Unskipped(warnings')
    BY <1>1, <1>2, <2>1, CreatedStrictly DEF OpenRoot
  <2>3. QED
    BY <1>1, <2>1, <2>2, AttachedAdded
<1>3. ASSUME NEW shape \in Shapes, NEW prop \in {"children", "child"}, OpenContained(prop, shape)
      PROVE  Attached' /\ Unskipped(warnings')
  <2> DEFINE e == Len(elements) + 1
             owner == Owner(Top)
             attached == [elements EXCEPT ![owner] = Put(@, prop, Entry("element", e))]
  <2>1. root' = root /\ pc = "reading" /\ owner \in 1..Len(elements) /\ root # 0 /\ owner \in Nat /\ e \in Nat
    BY <1>1, <1>3, OwnerHeld DEF OpenContained, Opening
  <2>2. Entry("element", e) \in EntryType
    BY <2>1 DEF Entry, EntryType
  <2>3. Kept(elements, attached)
    BY <1>1, <2>2, PutInKeeps
  <2>4. CreateTyped(shape, attached, owner, Handler("element", e))
    BY <1>3 DEF OpenContained
  <2>5. Added(NewElement(TRUE, shape.id, owner)) /\ Unskipped(warnings')
    <3> HIDE DEF attached, owner
    <3>1. QED
      BY <1>1, <2>1, <2>3, <2>4, CreatedStrictly
  <2>6. NewElement(TRUE, shape.id, owner).parent # 0
    BY <2>1 DEF NewElement
  <2>7. QED
    BY <1>1, <2>1, <2>5, <2>6, AttachedAdded
<1>4. ASSUME OpenAny
      PROVE  Attached' /\ Unskipped(warnings')
  <2> DEFINE e == Len(elements) + 1
             owner == Owner(Top)
             attached == [elements EXCEPT ![owner] = Put(@, "children", Entry("element", e))]
  <2>1. /\ root' = root /\ pc = "reading" /\ owner \in 1..Len(elements) /\ root # 0 /\ owner \in Nat /\ e \in Nat
        /\ elements' = Append(attached, NewElement(FALSE, None, owner)) /\ warnings' = warnings
    BY <1>1, <1>4, OwnerHeld DEF OpenAny, Opening, Push
  <2>2. Entry("element", e) \in EntryType
    BY <2>1 DEF Entry, EntryType
  <2>3. Kept(elements, attached)
    BY <1>1, <2>2, PutInKeeps
  <2>4. NewElement(FALSE, None, owner) \in ElementType /\ NewElement(FALSE, None, owner).parent # 0
    <3>1. NewElement(FALSE, None, owner) \in ElementType
      BY <2>1, NewElementType
    <3>2. QED
      BY <2>1, <3>1 DEF NewElement
  <2>5. Added(NewElement(FALSE, None, owner))
    <3> HIDE DEF attached, owner
    <3>1. QED
      BY <1>1, <2>1, <2>3, <2>4, Adding
  <2>6. QED
    BY <1>1, <2>1, <2>4, <2>5, AttachedAdded
<1>5. ASSUME NEW prop \in {"ref", "refs"}, OpenReference(prop)
      PROVE  Attached' /\ Unskipped(warnings')
  <2> DEFINE r == Len(references) + 1
  <2>1. elements' = [elements EXCEPT ![Owner(Top)] = Put(@, prop, Entry("placeholder", r))] /\ root' = root /\ warnings' = warnings
    BY <1>5 DEF OpenReference, Push
  <2>2. Entry("placeholder", r) \in EntryType
    BY DEF Entry, EntryType, IInv, TypeOK
  <2>3. Kept(elements, elements')
    BY <1>1, <2>1, <2>2, PutInKeeps
  <2>4. QED
    BY <1>1, <2>1, <2>3, AttachedKept
<1>6. CASE Resolve
  <2>1. Kept(elements, elements') /\ root' = root
    BY <1>1, <1>6, ResolvedKept
  <2>2. Unskipped(warnings')
    BY <1>1, <1>6, AddOther DEF Resolve, WarningType
  <2>3. QED
    BY <1>1, <2>1, <2>2, AttachedKept
<1>7. CASE OpenWrongRoot \/ OpenRefused
  BY <1>1, <1>7 DEF OpenWrongRoot, OpenRefused, Refuse
<1>8. CASE OpenValue \/ OpenIgnored \/ Close \/ Preamble \/ XmlError \/ EndDocument \/ Return
  <2>1. UNCHANGED treeVars
    BY <1>8 DEF OpenValue, OpenIgnored, Close, Preamble, XmlError, EndDocument, Return
  <2>2. Unskipped(warnings')
    BY <1>1, <1>8, AddOther DEF OpenValue, OpenIgnored, Push, Close, Preamble, XmlError, EndDocument, Return, WarningType
  <2>3. QED
    BY <1>1, <2>1, <2>2 DEF treeVars, Attached, Elements, InTree
<1>9. ASSUME NEW text \in Text, NEW warned \in BOOLEAN, ReadText(text, warned)
      PROVE  Attached' /\ Unskipped(warnings')
  <2>1. UNCHANGED treeVars
    BY <1>9 DEF ReadText
  <2>2. Unskipped(warnings')
    BY <1>1, <1>9, AddOther DEF ReadText, WarningType
  <2>3. QED
    BY <1>1, <2>1, <2>2 DEF treeVars, Attached, Elements, InTree
<1>10. QED
  BY <1>2, <1>3, <1>4, <1>5, <1>6, <1>7, <1>8, <1>9 DEF Next

LEMMA StrictInductive == IInv /\ Strict /\ [Next]_vars => Strict'
<1> SUFFICES ASSUME IInv, Strict, [Next]_vars PROVE Strict'
  OBVIOUS
<1>1. CASE Next
  BY <1>1, StrictStep
<1>2. CASE UNCHANGED vars
  BY <1>2 DEF vars, treeVars, Strict, Attached, Unskipped, Elements, InTree
<1>3. QED
  BY <1>1, <1>2

(* A warning is added at the end, as itself or as the note of truncation.  *)
Since(ws, xs) == \E i \in DOMAIN xs : i > Len(ws) /\ xs[i] \in {"node", "truncated"}

LEMMA NodeWarned ==
    ASSUME NEW ws, Warned(ws), Len(ws) <= MaxWarnings
    PROVE  Since(ws, AddWarning(ws, "node"))
<1> DEFINE x == IF Len(ws) = MaxWarnings THEN "truncated" ELSE "node"
<1>1. AddWarning(ws, "node") = Append(ws, x) /\ ws \in Seq(WarningType) /\ x \in {"node", "truncated"}
  BY DEF AddWarning, Warned
<1>2. Len(ws) + 1 \in DOMAIN Append(ws, x) /\ Append(ws, x)[Len(ws) + 1] = x /\ Len(ws) + 1 > Len(ws)
  BY <1>1
<1>3. QED
  BY <1>1, <1>2 DEF Since

(* What is said of a node after a warning about its attributes.            *)
LEMMA AttributeThenNode ==
    ASSUME NEW ws, Warned(ws), Len(ws) <= MaxWarnings
    PROVE  Since(ws, AddWarning(AddWarning(ws, "attribute"), "node"))
<1> DEFINE x == IF Len(ws) = MaxWarnings THEN "truncated" ELSE "attribute"
           xs == Append(ws, x)
<1>1. AddWarning(ws, "attribute") = xs /\ ws \in Seq(WarningType) /\ x \in WarningType
  BY DEF AddWarning, Warned, WarningType
<1>2. xs \in Seq(WarningType) /\ Len(xs) = Len(ws) + 1 /\ xs[Len(ws) + 1] = x
  BY <1>1
<1>3. Warned(xs)
  BY <1>1, AddWarningKeeps DEF WarningType
<1>4. CASE Len(ws) = MaxWarnings
  <2>1. AddWarning(xs, "node") = xs
    BY <1>2, <1>4, BoundsAssumption DEF AddWarning
  <2>2. Len(ws) + 1 \in DOMAIN xs /\ Len(ws) + 1 > Len(ws) /\ xs[Len(ws) + 1] = "truncated"
    BY <1>1, <1>2, <1>4
  <2>3. AddWarning(AddWarning(ws, "attribute"), "node") = xs
    BY <1>1, <2>1
  <2> HIDE DEF xs
  <2>4. QED
    BY <2>2, <2>3 DEF Since
<1>5. CASE Len(ws) # MaxWarnings
  <2> HIDE DEF xs
  <2>1. Since(xs, AddWarning(xs, "node"))
    BY <1>1, <1>2, <1>3, <1>5, NodeWarned, BoundsAssumption
  <2>2. PICK i \in DOMAIN AddWarning(xs, "node") : i > Len(xs) /\ AddWarning(xs, "node")[i] \in {"node", "truncated"}
    BY <2>1 DEF Since
  <2>3. i \in Nat
    <3>1. AddWarning(xs, "node") \in Seq(WarningType)
      BY <1>3, AddWarningKeeps DEF Warned, WarningType
    <3>2. QED
      BY <2>2, <3>1
  <2>4. i > Len(ws)
    BY <1>1, <1>2, <2>2, <2>3
  <2>5. QED
    BY <1>1, <2>2, <2>4 DEF Since
<1>6. QED
  BY <1>4, <1>5

LEMMA RefusingSays ==
    ASSUME Warned(warnings), NEW ws \in {warnings, AddWarning(warnings, "attribute")}, Refuse(ws)
    PROVE  RefusalSaid
<1> SUFFICES ASSUME lax, Len(warnings) <= MaxWarnings PROVE Says
  BY BoundsAssumption DEF RefusalSaid, Warned
<1>1. warnings' = AddWarning(ws, "node")
  BY DEF Refuse, Push
<1>2. Since(warnings, warnings')
  BY <1>1, NodeWarned, AttributeThenNode
<1>3. QED
  BY <1>2 DEF Since, Says

(* A handler that is no sink skips nothing, nor does a shorter stack.      *)
LEMMA PushingSkipsNothing ==
    ASSUME TypeOK, NEW h \in HandlerType, NEW ws, Push(h, ws), h.kind # "noop"
    PROVE  RefusalSaid
<1>1. stack' = Append(stack, h) /\ stack \in Seq(HandlerType)
  BY DEF Push, TypeOK
<1>2. Last(stack') = h
  BY <1>1 DEF Last
<1>3. QED
  BY <1>2 DEF RefusalSaid, PassesOver

LEMMA CreatingSays ==
    ASSUME TypeOK, Warned(warnings), NEW shape \in Shapes, NEW attached, NEW parent, NEW handler \in HandlerType,
           handler.kind # "noop", CreateTyped(shape, attached, parent, handler)
    PROVE  RefusalSaid
<1>1. AttributeWarnings(shape) \in {warnings, AddWarning(warnings, "attribute")}
  BY DEF AttributeWarnings
<1>2. CASE Accepts(shape.id)
  BY <1>2, PushingSkipsNothing DEF CreateTyped
<1>3. CASE ~Accepts(shape.id)
  BY <1>1, <1>3, RefusingSays DEF CreateTyped
<1>4. QED
  BY <1>2, <1>3

LEMMA Said == IInv /\ [Next]_vars => RefusalSaid
<1> SUFFICES ASSUME IInv, [Next]_vars PROVE RefusalSaid
  OBVIOUS
<1>1. TypeOK /\ Warned(warnings) /\ stack \in Seq(HandlerType)
  BY DEF IInv, TypeOK
<1>2. \A kind \in Kinds, at \in Nat : Handler(kind, at) \in HandlerType /\ Handler(kind, at).kind = kind
  BY DEF Handler, HandlerType
<1>3. Len(elements) + 1 \in Nat /\ Len(references) + 1 \in Nat
  BY <1>1 DEF TypeOK
<1>4. ASSUME NEW shape \in Shapes, OpenRoot(shape)
      PROVE  RefusalSaid
  BY <1>1, <1>2, <1>4, CreatingSays DEF OpenRoot, Kinds
<1>5. ASSUME NEW shape \in Shapes, NEW prop \in {"children", "child"}, OpenContained(prop, shape)
      PROVE  RefusalSaid
  <2> DEFINE e == Len(elements) + 1
             attached == [elements EXCEPT ![Owner(Top)] = Put(@, prop, Entry("element", e))]
  <2>1. CreateTyped(shape, attached, Owner(Top), Handler("element", e))
    BY <1>5 DEF OpenContained
  <2>2. Handler("element", e) \in HandlerType /\ Handler("element", e).kind # "noop"
    BY <1>2, <1>3 DEF Kinds
  <2> HIDE DEF attached, e
  <2>3. QED
    BY <1>1, <2>1, <2>2, CreatingSays
<1>6. CASE OpenAny
  <2>1. Push(Handler("generic", Len(elements) + 1), warnings)
    BY <1>6 DEF OpenAny
  <2>2. QED
    BY <1>1, <1>2, <1>3, <2>1, PushingSkipsNothing DEF Kinds
<1>7. ASSUME NEW prop \in {"ref", "refs"}, OpenReference(prop)
      PROVE  RefusalSaid
  <2>1. Push(Handler("reference", Len(references) + 1), warnings)
    BY <1>7 DEF OpenReference
  <2>2. QED
    BY <1>1, <1>2, <1>3, <2>1, PushingSkipsNothing DEF Kinds
<1>8. CASE OpenWrongRoot \/ OpenRefused
  BY <1>1, <1>8, RefusingSays DEF OpenWrongRoot, OpenRefused
<1>9. CASE OpenValue \/ OpenIgnored
  <2>1. CASE Top.kind = "noop"
    BY <2>1 DEF RefusalSaid, PassesOver
  <2>2. CASE Top.kind # "noop"
    <3>1. PICK kind \in {"value", "none"} : stack' = Append(stack, [Handler(kind, 0) EXCEPT !.at = Last(stack').at])
      BY <1>1, <1>9, <2>2 DEF OpenValue, OpenIgnored, Push, Handler, Last
    <3>2. Last(stack').kind = kind
      BY <1>1, <3>1 DEF Handler, Last
    <3>3. QED
      BY <3>2 DEF RefusalSaid, PassesOver
  <2>3. QED
    BY <2>1, <2>2
<1>10. CASE Close
  <2>1. ~(Len(stack') > Len(stack))
    BY <1>1, <1>10 DEF Close, Front
  <2>2. QED
    BY <2>1 DEF RefusalSaid, PassesOver
<1>11. ASSUME NEW text \in Text, NEW warned \in BOOLEAN, ReadText(text, warned)
       PROVE  RefusalSaid
  <2>1. Len(stack') = Len(stack)
    BY <1>1, <1>11 DEF ReadText
  <2>2. QED
    BY <1>1, <2>1 DEF RefusalSaid, PassesOver
<1>12. CASE UNCHANGED vars \/ Preamble \/ XmlError \/ EndDocument \/ Resolve \/ Return
  <2>1. stack' = stack
    BY <1>12 DEF vars, Preamble, XmlError, EndDocument, Resolve, Return
  <2>2. QED
    BY <1>1, <2>1 DEF RefusalSaid, PassesOver
<1>13. QED
  BY <1>4, <1>5, <1>6, <1>7, <1>8, <1>9, <1>10, <1>11, <1>12 DEF Next

(* Nothing is lost unsaid: a strict reader that returns has kept every     *)
(* element of the document; a lenient one has a warning of every node it   *)
(* passes over; the warnings are bounded and say when they were cut.       *)
THEOREM LossesStayKnown == Spec => LossesKnown
<1>1. Init => Strict
  BY DEF Init, Strict, Attached, Unskipped, Elements
<1>2. IInv /\ Strict => TypeOK /\ StrictComplete /\ WarningsBounded
  BY DEF IInv, Strict, Attached, Unskipped, StrictComplete, Warned, WarningsBounded
<1>3. IInv /\ [Next]_vars => [RefusalSaid]_vars
  BY Said
<1>4. QED
  BY <1>1, <1>2, <1>3, Invariance, StrictInductive, PTL DEF Spec, LossesKnown
-----------------------------------------------------------------------------
(* References.  What a collection holds while its references are resolved  *)
(* is a fold of those resolved so far: of the child elements' first, then  *)
(* the placeholders left, then the attribute's.                            *)
Entries(s) == s \in Seq(EntryType) /\ \A i \in 1..Len(s) : s[i].to = "element"

F == INSTANCE Folding WITH Op <- Collect, Holds <- LAMBDA c, ts : Entries(ts)

At(e, child) == [element |-> e, child |-> child, index |-> byId]
Gathered(e, child, n) == F!Fold(At(e, child), <<>>, SubSeq(references, 1, n))

LEMMA TargetsFold ==
    ASSUME NEW e, NEW child
    PROVE  Targets(e, child) = F!Fold(At(e, child), <<>>, references)
BY Zenon DEF Targets, At, F!Fold, FoldLeft, MapThenFoldSet, Max, F!FoldLeft, F!MapThenFoldSet, F!Max

LEMMA EntryIsTyped ==
    ASSUME NEW target \in Nat
    PROVE  Entry("element", target) \in EntryType
BY DEF Entry, EntryType

(* A target found is one more entry.                                       *)
LEMMA EntryAppended ==
    ASSUME NEW s, Entries(s), NEW target \in Nat
    PROVE  Entries(Append(s, Entry("element", target)))
BY DEF Entries, Entry, EntryType

LEMMA CollectKeeps ==
    ASSUME NEW c, c.index \in [Id -> Nat], NEW s, Entries(s), NEW ref \in ReferenceType
    PROVE  Entries(Collect(c, s, ref))
<1>1. Indexed(c.index, ref.id) \in Nat
  BY DEF Indexed
<1>2. QED
  BY <1>1, EntryAppended DEF Collect

LEMMA GatheredEntries ==
    ASSUME TypeOK, NEW e, NEW child, NEW n \in 0..Len(references)
    PROVE  Entries(Gathered(e, child, n))
<1>1. PICK s : s = SubSeq(references, 1, n) /\ s \in Seq(ReferenceType)
  <2>1. 1 \in Int /\ n \in Int /\ \A i \in 1..n : references[i] \in ReferenceType
    BY ElementOfSeq DEF TypeOK
  <2>2. SubSeq(references, 1, n) \in Seq(ReferenceType)
    BY <2>1, SubSeqProperties
  <2>3. QED
    BY <2>2
<1>2. At(e, child).index \in [Id -> Nat]
  BY DEF At, TypeOK
<1>3. PICK c : c = At(e, child)
  OBVIOUS
<1>4. Entries(<<>>)
  BY DEF Entries
<1>5. \A ts : \A ref \in ReferenceType : Entries(ts) => Entries(Collect(c, ts, ref))
  BY <1>2, <1>3, CollectKeeps
<1>6. Entries(F!Fold(c, <<>>, s))
  BY <1>1, <1>4, <1>5, F!FoldKeeps
<1>7. QED
  BY <1>1, <1>3, <1>6 DEF Gathered

LEMMA GatheredNone ==
    ASSUME references \in Seq(ReferenceType), NEW e, NEW child
    PROVE  Gathered(e, child, 0) = <<>>
<1>1. SubSeq(references, 1, 0) = <<>>
  OBVIOUS
<1>2. QED
  BY <1>1, F!FoldEmpty DEF Gathered

LEMMA GatheredNext ==
    ASSUME references \in Seq(ReferenceType), NEW e, NEW child, NEW r \in 1..Len(references)
    PROVE  Gathered(e, child, r) = Collect(At(e, child), Gathered(e, child, r - 1), references[r])
<1>1. PICK c : c = At(e, child)
  OBVIOUS
<1>2. F!Fold(c, <<>>, SubSeq(references, 1, r)) = Collect(c, F!Fold(c, <<>>, SubSeq(references, 1, r - 1)), references[r])
  BY F!FoldPrefix
<1>3. QED
  BY <1>1, <1>2 DEF Gathered

-----------------------------------------------------------------------------
(* The placeholders of a collection: of the references hs, in order.       *)
Increasing(hs) == hs \in Seq(Nat) /\ \A i, j \in 1..Len(hs) : i < j => hs[i] < hs[j]
Stand(p, hs) ==
    /\ p \in Seq(EntryType) /\ hs \in Seq(Nat) /\ Len(p) = Len(hs)
    /\ \A i \in 1..Len(hs) : p[i] = Entry("placeholder", hs[i])

LEMMA StandTail ==
    ASSUME NEW p, NEW hs, Stand(p, hs), hs # <<>>
    PROVE  p # <<>> /\ Stand(Tail(p), Tail(hs))
<1>1. p \in Seq(EntryType) /\ hs \in Seq(Nat) /\ Len(p) = Len(hs) /\ p # <<>>
  BY DEF Stand
<1>2. PICK t : t = Tail(p)
  OBVIOUS
<1>3. t \in Seq(EntryType) /\ Len(t) = Len(p) - 1 /\ \A i \in 1..Len(t) : t[i] = p[i + 1]
  BY <1>1, <1>2, HeadTailProperties
<1>4. PICK ts : ts = Tail(hs)
  OBVIOUS
<1>5. ts \in Seq(Nat) /\ Len(ts) = Len(hs) - 1 /\ \A i \in 1..Len(ts) : ts[i] = hs[i + 1]
  BY <1>1, <1>4, HeadTailProperties
<1>6. ASSUME NEW i \in 1..Len(ts)
      PROVE  t[i] = Entry("placeholder", ts[i])
  <2>1. i + 1 \in 1..Len(hs) /\ i \in 1..Len(t)
    BY <1>1, <1>3, <1>5
  <2>2. QED
    BY <2>1, <1>3, <1>5 DEF Stand
<1>7. Stand(t, ts)
  BY <1>1, <1>3, <1>5, <1>6 DEF Stand
<1>8. QED
  BY <1>1, <1>2, <1>4, <1>7

(* Which entries of such a collection are placeholders.                    *)
LEMMA Holes ==
    ASSUME NEW a \in Seq(EntryType), NEW p \in Seq(EntryType), NEW b \in Seq(EntryType), Entries(a), Entries(b),
           NEW hs, Stand(p, hs), NEW r, NEW i \in 1..Len(Joined(a, p, b))
    PROVE  Joined(a, p, b)[i] = Entry("placeholder", r) <=> \E k \in 1..Len(hs) : i = Len(a) + k /\ hs[k] = r
<1>1. PICK n \in Nat : n = Len(a)
  OBVIOUS
<1>2. PICK m \in Nat : m = Len(p)
  OBVIOUS
<1>3. PICK l \in Nat : l = Len(b)
  OBVIOUS
<1>4. PICK s : s = Joined(a, p, b)
  OBVIOUS
<1>5. m = Len(hs) /\ \A k \in 1..m : p[k] = Entry("placeholder", hs[k])
  BY <1>2 DEF Stand
<1>6. /\ Len(s) = n + m + l
      /\ \A k \in 1..n : s[k] = a[k]
      /\ \A k \in 1..m : s[n + k] = p[k]
      /\ \A k \in 1..l : s[n + m + k] = b[k]
  <2>1. InParts(EntryType, s, a, p, b)
    BY <1>4, Parts
  <2>2. QED
    BY <2>1, <1>1, <1>2, <1>3 DEF InParts
<1>7. (\A k \in 1..n : a[k].to = "element") /\ (\A k \in 1..l : b[k].to = "element")
  BY <1>1, <1>3 DEF Entries
<1>8. Entry("placeholder", r).to = "placeholder" /\ \A k \in 1..m : Entry("placeholder", hs[k]) = Entry("placeholder", r) <=> hs[k] = r
  BY DEF Entry
<1>9. CASE i \in 1..n
  <2>1. s[i] # Entry("placeholder", r)
    BY <1>6, <1>7, <1>8, <1>9
  <2>2. ASSUME NEW k \in 1..m, i = n + k PROVE FALSE
    BY <2>2, <1>9
  <2>3. QED
    BY <2>1, <2>2, <1>1, <1>4, <1>5
<1>10. ASSUME NEW j \in 1..m, i = n + j
       PROVE  s[i] = Entry("placeholder", r) <=> \E k \in 1..m : i = n + k /\ hs[k] = r
  <2>1. \A k \in 1..m : i = n + k <=> k = j
    BY <1>10
  <2>2. s[i] = Entry("placeholder", r) <=> hs[j] = r
    BY <1>5, <1>6, <1>8, <1>10
  <2>3. QED
    BY <2>1, <2>2
<1>11. ASSUME NEW j \in 1..l, i = n + m + j
       PROVE  s[i] # Entry("placeholder", r) /\ ~ \E k \in 1..m : i = n + k
  <2>1. s[i] = b[j] /\ b[j].to = "element"
    BY <1>6, <1>7, <1>11
  <2>2. ASSUME NEW k \in 1..m, i = n + k PROVE FALSE
    BY <2>2, <1>11
  <2>3. QED
    BY <2>1, <2>2, <1>8
<1>12. \/ i \in 1..n
       \/ \E k \in 1..m : i = n + k
       \/ \E k \in 1..l : i = n + m + k
  <2>1. i \in 1..(n + m + l)
    BY <1>4, <1>6
  <2>2. QED
    BY <2>1, Places
<1>13. s[i] = Entry("placeholder", r) <=> \E k \in 1..m : i = n + k /\ hs[k] = r
  BY <1>9, <1>10, <1>11, <1>12, <1>1, <1>4, <1>5
<1>14. QED
  BY <1>1, <1>4, <1>5, <1>13

(* A reference of an attribute has no placeholder: its target is added at  *)
(* the end.                                                                *)
LEMMA AttributeResolved ==
    ASSUME NEW a \in Seq(EntryType), NEW p \in Seq(EntryType), NEW b \in Seq(EntryType), Entries(a), Entries(b),
           NEW hs, Stand(p, hs), NEW target \in Nat, NEW r, \A i \in 1..Len(hs) : hs[i] # r
    PROVE  ResolveMany(Joined(a, p, b), r, target)
              = Joined(a, p, IF target = 0 THEN b ELSE Append(b, Entry("element", target)))
<1>1. PICK s : s = Joined(a, p, b)
  OBVIOUS
<1>2. s \in Seq(EntryType)
  BY <1>1, Parts DEF InParts
<1>3. ASSUME NEW i \in 1..Len(s) PROVE s[i] # Entry("placeholder", r)
  <2>1. PICK j \in 1..Len(Joined(a, p, b)) : j = i
    BY <1>1
  <2>2. Joined(a, p, b)[j] = Entry("placeholder", r) <=> \E k \in 1..Len(hs) : j = Len(a) + k /\ hs[k] = r
    BY Holes
  <2>3. QED
    BY <2>1, <2>2, <1>1
<1>4. Position(s, Entry("placeholder", r)) = {}
  BY <1>2, <1>3 DEF Position
<1>5. PICK x \in EntryType : x = Entry("element", target)
  BY EntryIsTyped
<1>6. Append(Joined(a, p, b), x) = Joined(a, p, Append(b, x))
  BY LastAppended
<1>7. QED
  BY <1>1, <1>4, <1>5, <1>6 DEF ResolveMany

(* A reference of a child element has the first placeholder left, which is *)
(* replaced by its target, or cut out.                                     *)
LEMMA ChildResolved ==
    ASSUME NEW a \in Seq(EntryType), NEW p \in Seq(EntryType), NEW b \in Seq(EntryType), Entries(a), Entries(b),
           NEW hs, Stand(p, hs), Increasing(hs), hs # <<>>, NEW target \in Nat
    PROVE  ResolveMany(Joined(a, p, b), hs[1], target)
              = Joined(IF target = 0 THEN a ELSE Append(a, Entry("element", target)), Tail(p), b)
<1>1. PICK s : s = Joined(a, p, b)
  OBVIOUS
<1>2. PICK m \in Nat : m = Len(a) + 1
  OBVIOUS
<1>3. PICK r : r = hs[1]
  OBVIOUS
<1>4. hs \in Seq(Nat) /\ 1 \in 1..Len(hs) /\ \A k \in 1..Len(hs) : hs[k] = r <=> k = 1
  <2>1. hs \in Seq(Nat) /\ 1 \in 1..Len(hs) /\ \A k \in 1..Len(hs) : hs[k] \in Nat
    BY ElementOfSeq DEF Increasing
  <2>2. \A k \in 1..Len(hs) : k # 1 => hs[1] < hs[k]
    BY <2>1 DEF Increasing
  <2>3. QED
    BY <2>1, <2>2, <1>3
<1>5. Len(p) = Len(hs) /\ p # <<>>
  BY StandTail DEF Stand
<1>6. s \in Seq(EntryType) /\ m \in 1..Len(s)
  <2>1. s \in Seq(EntryType) /\ Len(s) = Len(a) + Len(p) + Len(b)
    BY <1>1, Parts DEF InParts
  <2>2. QED
    BY <2>1, <1>2, <1>4, <1>5
<1>7. ASSUME NEW i \in 1..Len(s)
      PROVE  s[i] = Entry("placeholder", r) <=> i = m
  <2>1. PICK j \in 1..Len(Joined(a, p, b)) : j = i
    BY <1>1
  <2>2. Joined(a, p, b)[j] = Entry("placeholder", r) <=> \E k \in 1..Len(hs) : j = Len(a) + k /\ hs[k] = r
    BY Holes
  <2>3. QED
    BY <2>1, <2>2, <1>1, <1>2, <1>4
<1>8. Position(s, Entry("placeholder", r)) = {m}
  <2>1. PICK hole : hole = Entry("placeholder", r)
    OBVIOUS
  <2>2. \A i \in 1..Len(s) : s[i] = hole <=> i = m
    BY <1>7, <2>1
  <2>3. Position(s, hole) = {i \in 1..Len(s) : s[i] = hole}
    BY <1>6 DEF Position
  <2>4. QED
    BY <2>1, <2>2, <2>3, <1>6
<1>9. PICK x \in EntryType : x = Entry("element", target)
  BY EntryIsTyped
<1>10. ResolveMany(s, r, target) = IF target = 0 THEN RemoveAt(s, m) ELSE [s EXCEPT ![m] = x]
  <2>1. (CHOOSE i \in {m} : TRUE) = m /\ {m} # {}
    OBVIOUS
  <2>2. PICK at : at = Position(s, Entry("placeholder", r))
    OBVIOUS
  <2>3. ResolveMany(s, r, target) = IF at = {} THEN IF target = 0 THEN s ELSE Append(s, x)
                                    ELSE IF target = 0 THEN RemoveAt(s, CHOOSE i \in at : TRUE)
                                    ELSE [s EXCEPT ![CHOOSE i \in at : TRUE] = x]
    BY <2>2, <1>9 DEF ResolveMany
  <2>4. QED
    BY <2>1, <2>2, <2>3, <1>8
<1>11. [Joined(a, p, b) EXCEPT ![m] = x] = Joined(Append(a, x), Tail(p), b)
  BY <1>2, <1>5, HeadReplaced
<1>12. RemoveAt(Joined(a, p, b), m) = Joined(a, Tail(p), b)
  BY <1>2, <1>5, HeadCut
<1>13. QED
  BY <1>1, <1>3, <1>9, <1>10, <1>11, <1>12

-----------------------------------------------------------------------------
(* The invariant.  Every reference has an element; the placeholders of a   *)
(* collection are those of the references of its child elements still to   *)
(* be resolved, in order, after what those resolved have left and before   *)
(* what those of its attribute have; and a single property that holds a    *)
(* placeholder awaits its own reference.                                   *)
Awaited(e, r) ==
    /\ resolved < r /\ r <= Len(references)
    /\ references[r].element = e /\ references[r].prop = "refs" /\ references[r].child

Awaits(e, hs) == Increasing(hs) /\ \A r \in Nat : Awaited(e, r) <=> \E i \in 1..Len(hs) : hs[i] = r

Partly(e, s) ==
    \E hs, p : /\ Awaits(e, hs) /\ Stand(p, hs)
               /\ s = Joined(Gathered(e, TRUE, resolved), p, Gathered(e, FALSE, resolved))

AwaitsOne(e, entry) ==
    entry.to = "placeholder" =>
        /\ resolved < entry.at /\ entry.at <= Len(references)
        /\ references[entry.at].element = e /\ references[entry.at].prop = "ref"

Owned == \A r \in 1..Len(references) : references[r].element <= Len(elements)
Filled == \A e \in 1..Len(elements) : Partly(e, elements[e].refs) /\ AwaitsOne(e, elements[e].ref)

RInv ==
    /\ pc = "reading" => resolved = 0
    /\ pc = "done" => resolved = Len(references)
    /\ Owned /\ Filled

(* What is left when the document is read.                                 *)
LEMMA AllResolved ==
    ASSUME TypeOK, RInv
    PROVE  ReferencesResolved
<1> SUFFICES ASSUME pc = "done", NEW e \in Elements
             PROVE  /\ elements[e].ref.to # "placeholder"
                    /\ \A i \in DOMAIN elements[e].refs : elements[e].refs[i].to = "element"
                    /\ elements[e].refs = Targets(e, TRUE) \o Targets(e, FALSE)
  BY DEF ReferencesResolved, NoPlaceholderLeft, ReferencesInOrder
<1>1. PICK n \in Nat : n = Len(references) /\ resolved = n
  BY DEF RInv, TypeOK
<1>2. e \in 1..Len(elements) /\ elements[e] \in ElementType
  BY ElementOfSeq DEF Elements, TypeOK
<1>3. PICK c \in BOOLEAN : c = TRUE
  OBVIOUS
<1>4. ASSUME NEW child
      PROVE  Gathered(e, child, resolved) = Targets(e, child)
  <2>1. SubSeq(references, 1, n) = references
    BY <1>1, SubSeqFull DEF TypeOK
  <2>2. QED
    BY <2>1, <1>1, TargetsFold DEF Gathered
<1>5. PICK a \in Seq(EntryType) : a = Targets(e, TRUE) /\ Entries(a)
  <2>1. resolved \in 0..Len(references)
    BY DEF TypeOK
  <2>2. Entries(Gathered(e, TRUE, resolved))
    BY <2>1, GatheredEntries
  <2>3. QED
    BY <2>2, <1>4 DEF Entries
<1>6. PICK b \in Seq(EntryType) : b = Targets(e, FALSE) /\ Entries(b)
  <2>1. resolved \in 0..Len(references)
    BY DEF TypeOK
  <2>2. Entries(Gathered(e, FALSE, resolved))
    BY <2>1, GatheredEntries
  <2>3. QED
    BY <2>2, <1>4 DEF Entries
<1>7. PICK hs, p : Awaits(e, hs) /\ Stand(p, hs) /\ elements[e].refs = Joined(a, p, b)
  <2>1. Partly(e, elements[e].refs)
    BY <1>2 DEF RInv, Filled
  <2>2. Gathered(e, TRUE, resolved) = a /\ Gathered(e, FALSE, resolved) = b
    BY <1>4, <1>5, <1>6
  <2>3. QED
    BY <2>1, <2>2 DEF Partly
<1>8. hs \in Seq(Nat) /\ p \in Seq(EntryType) /\ Len(p) = Len(hs)
  BY <1>7 DEF Stand
<1>9. Len(hs) = 0
  <2>1. ASSUME Len(hs) # 0 PROVE FALSE
    <3>1. 1 \in 1..Len(hs)
      BY <2>1, <1>8
    <3>2. PICK r \in Nat : r = hs[1]
      BY <3>1, <1>8, ElementOfSeq
    <3>3. Awaited(e, r)
      BY <3>1, <3>2, <1>7 DEF Awaits
    <3>4. QED
      BY <3>2, <3>3, <1>1 DEF Awaited
  <2>2. QED
    BY <2>1
<1>10. p = <<>>
  BY <1>8, <1>9
<1>11. Joined(a, p, b) = a \o b
  <2>1. a \o <<>> = a
    BY ConcatEmptySeq
  <2>2. QED
    BY <2>1, <1>10 DEF Joined
<1>12. elements[e].refs = Targets(e, TRUE) \o Targets(e, FALSE)
  BY <1>5, <1>6, <1>7, <1>11
<1>13. elements[e].ref.to # "placeholder"
  <2>1. AwaitsOne(e, elements[e].ref)
    BY <1>2 DEF RInv, Filled
  <2>2. elements[e].ref.at \in Nat
    BY <1>2 DEF ElementType, EntryType
  <2>3. QED
    BY <2>1, <2>2, <1>1 DEF AwaitsOne
<1>14. ASSUME NEW i \in DOMAIN elements[e].refs
       PROVE  elements[e].refs[i].to = "element"
  <2>1. PICK s : s = a \o b
    OBVIOUS
  <2>2. s \in Seq(EntryType) /\ Len(s) = Len(a) + Len(b) /\ \A k \in 1..(Len(a) + Len(b)) : s[k] = IF k <= Len(a) THEN a[k] ELSE b[k - Len(a)]
    BY <2>1, ConcatProperties
  <2>3. i \in 1..(Len(a) + Len(b)) /\ elements[e].refs[i] = s[i]
    BY <2>1, <2>2, <1>7, <1>11
  <2>4. CASE i <= Len(a)
    <3>1. i \in 1..Len(a) /\ s[i] = a[i]
      BY <2>2, <2>3, <2>4
    <3>2. QED
      BY <3>1, <2>3, <1>5 DEF Entries
  <2>5. CASE i > Len(a)
    <3>1. PICK k \in 1..Len(b) : k = i - Len(a)
      BY <2>3, <2>5
    <3>2. s[i] = b[k]
      BY <3>1, <2>2, <2>3, <2>5
    <3>3. QED
      BY <3>2, <2>3, <1>6 DEF Entries
  <2>6. QED
    BY <2>3, <2>4, <2>5
<1>15. QED
  BY <1>12, <1>13, <1>14

(* Reading: elements and references are added, nothing is resolved.        *)
Read ==
    /\ references' \in Seq(ReferenceType) /\ Len(references') >= Len(references)
    /\ \A r \in 1..Len(references) : /\ references'[r].element = references[r].element
                                     /\ references'[r].prop = references[r].prop
                                     /\ references'[r].child = references[r].child
    /\ \A r \in (Len(references) + 1)..Len(references') :
          ~ references'[r].child /\ references'[r].element <= Len(elements')
    /\ elements' \in Seq(ElementType) /\ Len(elements') >= Len(elements)
    /\ \A e \in 1..Len(elements) : elements'[e].refs = elements[e].refs /\ elements'[e].ref = elements[e].ref
    /\ \A e \in (Len(elements) + 1)..Len(elements') : elements'[e].refs = <<>> /\ elements'[e].ref = Unset

LEMMA ReadKeeps ==
    ASSUME TypeOK, RInv, Read, pc = "reading", pc' # "done", resolved' = resolved
    PROVE  RInv'
<1>1. PICK n \in Nat : n = Len(references)
  BY DEF TypeOK
<1>2. PICK m \in Nat : m = Len(references') /\ n <= m
  BY <1>1 DEF Read
<1>3. PICK k \in Nat : k = Len(elements)
  BY DEF TypeOK
<1>4. PICK l \in Nat : l = Len(elements') /\ k <= l
  BY <1>3 DEF Read
<1>5. resolved = 0 /\ resolved' = 0
  BY DEF RInv
<1>6. \A r \in 1..n : references[r].element \in Nat /\ references[r].element <= k
  <2>1. ASSUME NEW r \in 1..n PROVE references[r] \in ReferenceType
    BY <1>1, ElementOfSeq DEF TypeOK
  <2>2. QED
    BY <2>1, <1>1, <1>3 DEF RInv, Owned, ReferenceType
<1>7. Owned'
  <2>1. ASSUME NEW r \in 1..m PROVE references'[r].element <= l
    <3>1. CASE r <= n
      BY <3>1, <1>1, <1>3, <1>4, <1>6 DEF Read
    <3>2. CASE r > n
      <4>1. r \in (n + 1)..m
        BY <3>2, <1>1
      <4>2. QED
        BY <4>1, <1>1, <1>2, <1>4 DEF Read
    <3>3. QED
      BY <3>1, <3>2
  <2>2. QED
    BY <2>1, <1>2, <1>4 DEF Owned
<1>8. ASSUME NEW e, NEW r \in Nat PROVE Awaited(e, r)' <=> Awaited(e, r)
  <2>1. CASE r \in 1..n
    BY <2>1, <1>1, <1>2, <1>5 DEF Awaited, Read
  <2>2. CASE r \in (n + 1)..m
    BY <2>2, <1>1, <1>2 DEF Awaited, Read
  <2>3. CASE r = 0 \/ r > m
    BY <2>3, <1>1, <1>2, <1>5 DEF Awaited
  <2>4. QED
    BY <2>1, <2>2, <2>3
<1>9. ASSUME NEW e, NEW child
      PROVE  Gathered(e, child, resolved) = <<>> /\ (Gathered(e, child, resolved))' = <<>>
  <2>1. Gathered(e, child, 0) = <<>>
    BY GatheredNone DEF TypeOK
  <2>2. SubSeq(references', 1, 0) = <<>>
    BY DEF Read
  <2>3. F!Fold(At(e, child)', <<>>, <<>>) = <<>>
    BY F!FoldEmpty
  <2>4. QED
    BY <2>1, <2>2, <2>3, <1>5 DEF Gathered
<1>10. ASSUME NEW e, NEW hs PROVE Awaits(e, hs) => Awaits(e, hs)'
  BY <1>8 DEF Awaits
<1>11. ASSUME NEW e, NEW s, Partly(e, s) PROVE Partly(e, s)'
  <2>1. PICK hs, p : Awaits(e, hs) /\ Stand(p, hs) /\ s = Joined(<<>>, p, <<>>)
    BY <1>9, <1>11 DEF Partly
  <2>2. Awaits(e, hs)'
    BY <2>1, <1>10
  <2>3. QED
    BY <2>1, <2>2, <1>9 DEF Partly
<1>12. ASSUME NEW e \in (k + 1)..l PROVE Partly(e, <<>>)'
  <2>1. Increasing(<<>>) /\ Stand(<<>>, <<>>)
    BY DEF Increasing, Stand
  <2>2. ASSUME NEW r \in Nat PROVE ~ Awaited(e, r)
    <3>1. CASE r \in 1..n
      BY <3>1, <1>6 DEF Awaited
    <3>2. CASE r \notin 1..n
      BY <3>2, <1>1, <1>5 DEF Awaited
    <3>3. QED
      BY <3>1, <3>2
  <2>3. Awaits(e, <<>>)'
    BY <2>1, <2>2, <1>8 DEF Awaits
  <2>4. <<>> = Joined(<<>>, <<>>, <<>>)
    BY DEF Joined
  <2>5. QED
    BY <2>1, <2>3, <2>4, <1>9 DEF Partly
<1>13. ASSUME NEW e \in 1..k PROVE AwaitsOne(e, elements[e].ref)'
  <2>1. PICK entry \in EntryType : entry = elements[e].ref
    <3>1. elements[e] \in ElementType
      BY <1>3, ElementOfSeq DEF TypeOK
    <3>2. QED
      BY <3>1 DEF ElementType
  <2>2. elements'[e].ref = entry /\ AwaitsOne(e, entry)
    BY <2>1, <1>3 DEF Read, RInv, Filled
  <2>3. AwaitsOne(e, entry)'
    <3>1. SUFFICES ASSUME entry.to = "placeholder" PROVE resolved' < entry.at /\ entry.at <= Len(references') /\ references'[entry.at].element = e /\ references'[entry.at].prop = "ref"
      BY DEF AwaitsOne
    <3>2. entry.at \in 1..n /\ references[entry.at].element = e /\ references[entry.at].prop = "ref"
      BY <3>1, <2>1, <2>2, <1>1, <1>5 DEF AwaitsOne, EntryType
    <3>3. QED
      BY <3>2, <1>1, <1>2, <1>5 DEF Read
  <2>4. QED
    BY <2>2, <2>3 DEF AwaitsOne
<1>14. ASSUME NEW e \in 1..l PROVE Partly(e, elements[e].refs)' /\ AwaitsOne(e, elements[e].ref)'
  <2>1. CASE e \in 1..k
    <3>1. PICK s : s = elements[e].refs
      OBVIOUS
    <3>2. Partly(e, s) /\ elements'[e].refs = s
      BY <2>1, <3>1, <1>3 DEF RInv, Filled, Read
    <3>3. Partly(e, s)'
      BY <3>2, <1>11
    <3>4. QED
      BY <2>1, <3>2, <3>3, <1>13 DEF Partly
  <2>2. CASE e \in (k + 1)..l
    <3>1. elements'[e].refs = <<>> /\ elements'[e].ref = Unset
      BY <2>2, <1>3, <1>4 DEF Read
    <3>2. Partly(e, <<>>)'
      BY <2>2, <1>12
    <3>3. Partly(e, elements[e].refs)'
      BY <3>1, <3>2 DEF Partly
    <3>4. AwaitsOne(e, elements[e].ref)'
      BY <3>1 DEF AwaitsOne, Unset, Entry
    <3>5. QED
      BY <3>3, <3>4
  <2>3. QED
    BY <2>1, <2>2
<1>15. Filled'
  BY <1>4, <1>14 DEF Filled
<1>16. QED
  BY <1>5, <1>7, <1>15 DEF RInv

(* Resolving.  The collection of the element whose reference it is gets    *)
(* what the next round of the fold has.                                    *)
LEMMA AwaitsTail ==
    ASSUME NEW e, NEW hs, Awaits(e, hs), resolved \in Nat, Len(references) \in Nat, Awaited(e, resolved + 1),
           resolved' = resolved + 1, references' = references
    PROVE  hs # <<>> /\ hs[1] = resolved + 1 /\ Awaits(e, Tail(hs))'
<1>1. PICK r \in Nat : r = resolved + 1
  OBVIOUS
<1>2. hs \in Seq(Nat) /\ \A i, j \in 1..Len(hs) : i < j => hs[i] < hs[j]
  BY DEF Awaits, Increasing
<1>3. PICK i \in 1..Len(hs) : hs[i] = r
  BY <1>1 DEF Awaits
<1>4. 1 \in 1..Len(hs) /\ hs # <<>> /\ \A j \in 1..Len(hs) : hs[j] \in Nat
  BY <1>2, <1>3, ElementOfSeq
<1>5. ASSUME NEW j \in 1..Len(hs) PROVE resolved < hs[j]
  <2>1. PICK q \in Nat : q = hs[j]
    BY <1>4
  <2>2. Awaited(e, q)
    BY <2>1 DEF Awaits
  <2>3. QED
    BY <2>1, <2>2 DEF Awaited
<1>6. i = 1
  <2>1. ASSUME i # 1 PROVE FALSE
    <3>1. hs[1] < hs[i] /\ resolved < hs[1] /\ hs[1] \in Nat /\ hs[i] = resolved + 1
      BY <2>1, <1>1, <1>2, <1>3, <1>4, <1>5
    <3>2. QED
      BY <3>1
  <2>2. QED
    BY <2>1
<1>7. PICK ts : ts = Tail(hs)
  OBVIOUS
<1>8. ts \in Seq(Nat) /\ Len(ts) = Len(hs) - 1 /\ \A k \in 1..Len(ts) : ts[k] = hs[k + 1]
  BY <1>2, <1>4, <1>7, HeadTailProperties
<1>9. Increasing(ts)
  <2>1. ASSUME NEW k \in 1..Len(ts), NEW l \in 1..Len(ts), k < l PROVE ts[k] < ts[l]
    <3>1. k + 1 \in 1..Len(hs) /\ l + 1 \in 1..Len(hs) /\ k + 1 < l + 1
      BY <2>1, <1>2, <1>8
    <3>2. QED
      BY <3>1, <2>1, <1>2, <1>8
  <2>2. QED
    BY <2>1, <1>8 DEF Increasing
<1>10. ASSUME NEW q \in Nat PROVE Awaited(e, q)' <=> \E k \in 1..Len(ts) : ts[k] = q
  <2>1. Awaited(e, q)' <=> Awaited(e, q) /\ q # r
    BY <1>1 DEF Awaited
  <2>2. Awaited(e, q) <=> \E k \in 1..Len(hs) : hs[k] = q
    BY DEF Awaits
  <2>3. ASSUME NEW k \in 1..Len(hs), hs[k] = q, q # r PROVE \E l \in 1..Len(ts) : ts[l] = q
    <3>1. PICK l \in 1..Len(ts) : l + 1 = k
      <4>1. k # 1
        BY <2>3, <1>3, <1>6
      <4>2. k - 1 \in 1..Len(ts) /\ (k - 1) + 1 = k
        BY <4>1, <1>2, <1>8
      <4>3. QED
        BY <4>2
    <3>2. QED
      BY <3>1, <2>3, <1>8
  <2>4. ASSUME NEW k \in 1..Len(ts), ts[k] = q PROVE q # r /\ \E l \in 1..Len(hs) : hs[l] = q
    <3>1. PICK l \in 1..Len(hs) : l = k + 1 /\ 1 < l
      BY <1>2, <1>8
    <3>2. hs[l] = q
      BY <3>1, <2>4, <1>8
    <3>3. hs[1] < hs[l] /\ hs[1] = r
      BY <3>1, <1>2, <1>3, <1>4, <1>6
    <3>4. QED
      BY <3>2, <3>3
  <2>5. QED
    BY <2>1, <2>2, <2>3, <2>4
<1>11. Awaits(e, ts)'
  BY <1>9, <1>10 DEF Awaits
<1>12. QED
  BY <1>1, <1>3, <1>4, <1>6, <1>7, <1>11

(* What one round adds to what an element has gathered.                    *)
Round(s, e, child, ref, target) ==
    IF ref.element = e /\ ref.prop = "refs" /\ ref.child = child /\ target # 0
    THEN Append(s, Entry("element", target)) ELSE s

LEMMA GatheredRound ==
    ASSUME TypeOK, NEW r \in 1..Len(references), resolved = r - 1, resolved' = r,
           UNCHANGED <<references, byId>>, NEW e, NEW child
    PROVE  (Gathered(e, child, resolved))' =
               Round(Gathered(e, child, resolved), e, child, references[r], Target(references[r].id))
<1>1. (Gathered(e, child, resolved))' = Gathered(e, child, r)
  BY DEF Gathered, At
<1>2. Gathered(e, child, r) = Collect(At(e, child), Gathered(e, child, r - 1), references[r])
  BY GatheredNext DEF TypeOK
<1>3. PICK s : s = Gathered(e, child, resolved)
  OBVIOUS
<1>4. Gathered(e, child, r - 1) = s
  BY <1>3
<1>5. Collect(At(e, child), s, references[r]) = Round(s, e, child, references[r], Target(references[r].id))
  BY DEF Collect, At, Target, Round
<1>6. QED
  BY <1>1, <1>2, <1>3, <1>4, <1>5

LEMMA ResolvedFilled ==
    ASSUME IInv, RInv, Resolve, NEW e \in 1..Len(elements)
    PROVE  Partly(e, elements[e].refs)' /\ AwaitsOne(e, elements[e].ref)'
<1>1. PICK r \in 1..Len(references) : r = resolved + 1 /\ r \in Nat
  BY DEF IInv, TypeOK, Resolve
<1>2. PICK ref \in ReferenceType : ref = references[r]
  BY ElementOfSeq DEF IInv, TypeOK
<1>3. PICK target \in Nat : target = Target(ref.id)
  BY DEF Target, Indexed, IInv, TypeOK
<1>4. PICK el \in ElementType : el = elements[e]
  BY ElementOfSeq DEF IInv, TypeOK
<1>5. /\ resolved' = r /\ resolved = r - 1 /\ references' = references /\ byId' = byId
      /\ elements'[e] = IF e = ref.element THEN Fill(el, ref.prop, r, target) ELSE el
  BY <1>1, <1>2, <1>3, <1>4 DEF Resolve, IInv, TypeOK
<1>6. PICK a \in Seq(EntryType) : a = Gathered(e, TRUE, resolved) /\ Entries(a)
  <2>1. resolved \in 0..Len(references)
    BY DEF IInv, TypeOK
  <2>2. Entries(Gathered(e, TRUE, resolved))
    BY <2>1, GatheredEntries DEF IInv
  <2>3. QED
    BY <2>2 DEF Entries
<1>7. PICK b \in Seq(EntryType) : b = Gathered(e, FALSE, resolved) /\ Entries(b)
  <2>1. resolved \in 0..Len(references)
    BY DEF IInv, TypeOK
  <2>2. Entries(Gathered(e, FALSE, resolved))
    BY <2>1, GatheredEntries DEF IInv
  <2>3. QED
    BY <2>2 DEF Entries
<1>8. PICK hs, p : Awaits(e, hs) /\ Stand(p, hs) /\ el.refs = Joined(a, p, b)
  BY <1>4, <1>6, <1>7 DEF RInv, Filled, Partly
<1> DEFINE mine == ref.element = e /\ ref.prop = "refs" /\ target # 0
           x == Entry("element", target)
<1>9. /\ (Gathered(e, TRUE, resolved))' = IF mine /\ ref.child THEN Append(a, x) ELSE a
      /\ (Gathered(e, FALSE, resolved))' = IF mine /\ ~ ref.child THEN Append(b, x) ELSE b
  <2>1. ref.child \in BOOLEAN
    BY DEF ReferenceType
  <2>2. TypeOK
    BY DEF IInv
  <2>3. \A child : (Gathered(e, child, resolved))' = Round(Gathered(e, child, resolved), e, child, references[r], Target(references[r].id))
    BY <2>2, <1>5, GatheredRound
  <2>4. \A child : (Gathered(e, child, resolved))' = Round(Gathered(e, child, resolved), e, child, ref, target)
    BY <2>3, <1>2, <1>3
  <2>5. (Gathered(e, TRUE, resolved))' = Round(a, e, TRUE, ref, target)
    BY <2>4, <1>6
  <2>6. (Gathered(e, FALSE, resolved))' = Round(b, e, FALSE, ref, target)
    BY <2>4, <1>7
  <2>7. QED
    BY <2>1, <2>5, <2>6 DEF Round
<1>10. AwaitsOne(e, el.ref) /\ el.ref \in EntryType
  BY <1>4 DEF RInv, Filled, ElementType
<1>11. CASE ~ (ref.element = e /\ ref.prop = "refs")
  <2>1. elements'[e].refs = el.refs
    BY <1>2, <1>5, <1>11 DEF Fill, ElementType, ReferenceType
  <2>2. \A q \in Nat : Awaited(e, q)' <=> Awaited(e, q)
    BY <1>1, <1>2, <1>5, <1>11 DEF Awaited
  <2>3. Awaits(e, hs)'
    BY <2>2, <1>8 DEF Awaits
  <2>4. Partly(e, el.refs)'
    BY <2>3, <1>8, <1>9, <1>11 DEF Partly
  <2>5. Partly(e, elements[e].refs)'
    BY <2>1, <2>4 DEF Partly
  <2>6. CASE ref.element = e
    <3>1. elements'[e].ref = IF target = 0 THEN Unset ELSE x
      BY <2>6, <1>2, <1>4, <1>5, <1>11 DEF Fill, ElementType, ReferenceType
    <3>2. elements'[e].ref.to # "placeholder"
      BY <3>1 DEF Unset, Entry
    <3>3. AwaitsOne(e, elements[e].ref)'
      BY <3>2 DEF AwaitsOne
    <3>4. QED
      BY <2>5, <3>3
  <2>7. CASE ref.element # e
    <3>1. elements'[e].ref = el.ref
      BY <2>7, <1>5
    <3>2. AwaitsOne(e, el.ref)'
      BY <2>7, <1>1, <1>2, <1>5, <1>10 DEF AwaitsOne, EntryType
    <3>3. AwaitsOne(e, elements[e].ref)'
      BY <3>1, <3>2 DEF AwaitsOne
    <3>4. QED
      BY <2>5, <3>3
  <2>8. QED
    BY <2>6, <2>7
<1>12. CASE ref.element = e /\ ref.prop = "refs"
  <2>1. elements'[e].refs = ResolveMany(el.refs, r, target) /\ elements'[e].ref = el.ref
    BY <1>4, <1>5, <1>12 DEF Fill, ElementType
  <2>2. AwaitsOne(e, el.ref)'
    BY <1>1, <1>2, <1>5, <1>10, <1>12 DEF AwaitsOne, EntryType
  <2>3. AwaitsOne(e, elements[e].ref)'
    BY <2>1, <2>2 DEF AwaitsOne
  <2>4. CASE ref.child
    <3>1. Awaited(e, r)
      <4>1. resolved < r /\ r <= Len(references)
        BY <1>1 DEF IInv, TypeOK
      <4>2. QED
        BY <4>1, <2>4, <1>2, <1>12 DEF Awaited
    <3>2. hs # <<>> /\ hs[1] = r /\ Awaits(e, Tail(hs))'
      BY <3>1, <1>1, <1>5, <1>8, AwaitsTail DEF IInv, TypeOK
    <3>3. Stand(Tail(p), Tail(hs))
      BY <3>2, <1>8, StandTail
    <3>4. PICK c : c = IF target = 0 THEN a ELSE Append(a, x)
      OBVIOUS
    <3>5. ResolveMany(el.refs, r, target) = Joined(c, Tail(p), b)
      <4>1. p \in Seq(EntryType) /\ Increasing(hs) /\ hs # <<>> /\ Stand(p, hs)
        BY <3>2, <1>8 DEF Stand, Awaits
      <4>2. Entries(a) /\ Entries(b)
        BY <1>6, <1>7
      <4>3. ResolveMany(Joined(a, p, b), hs[1], target) = Joined(IF target = 0 THEN a ELSE Append(a, Entry("element", target)), Tail(p), b)
        BY <4>1, <4>2, ChildResolved
      <4>4. QED
        BY <4>3, <3>2, <3>4, <1>8
    <3>6. (Gathered(e, TRUE, resolved))' = c /\ (Gathered(e, FALSE, resolved))' = b
      BY <2>4, <3>4, <1>9, <1>12
    <3>7. Partly(e, Joined(c, Tail(p), b))'
      BY <3>2, <3>3, <3>6 DEF Partly
    <3>8. elements'[e].refs = Joined(c, Tail(p), b)
      BY <2>1, <3>5
    <3>9. Partly(e, elements[e].refs)'
      BY <3>7, <3>8 DEF Partly
    <3>10. QED
      BY <2>3, <3>9
  <2>5. CASE ~ ref.child
    <3>1. \A q \in Nat : Awaited(e, q)' <=> Awaited(e, q)
      BY <2>5, <1>1, <1>2, <1>5 DEF Awaited
    <3>2. Awaits(e, hs)'
      BY <3>1, <1>8 DEF Awaits
    <3>3. ~ Awaited(e, r)
      BY <2>5, <1>2 DEF Awaited
    <3>4. \A i \in 1..Len(hs) : hs[i] # r
      BY <3>3, <1>1, <1>8 DEF Awaits
    <3>5. PICK c : c = IF target = 0 THEN b ELSE Append(b, x)
      OBVIOUS
    <3>6. ResolveMany(el.refs, r, target) = Joined(a, p, c)
      <4>1. p \in Seq(EntryType) /\ Stand(p, hs)
        BY <1>8 DEF Stand
      <4>2. Entries(a) /\ Entries(b)
        BY <1>6, <1>7
      <4>3. ResolveMany(Joined(a, p, b), r, target) = Joined(a, p, IF target = 0 THEN b ELSE Append(b, Entry("element", target)))
        BY <4>1, <4>2, <3>4, AttributeResolved
      <4>4. QED
        BY <4>3, <3>5, <1>8
    <3>7. (Gathered(e, TRUE, resolved))' = a /\ (Gathered(e, FALSE, resolved))' = c
      BY <2>5, <3>5, <1>9, <1>12
    <3>8. Partly(e, Joined(a, p, c))'
      BY <3>2, <3>7, <1>8 DEF Partly
    <3>9. elements'[e].refs = Joined(a, p, c)
      BY <2>1, <3>6
    <3>10. Partly(e, elements[e].refs)'
      BY <3>8, <3>9 DEF Partly
    <3>11. QED
      BY <2>3, <3>10
  <2>6. QED
    BY <2>4, <2>5
<1>13. QED
  BY <1>11, <1>12

LEMMA ResolveFills ==
    ASSUME IInv, RInv, Resolve
    PROVE  RInv'
<1>1. Kept(elements, elements')
  BY ResolvedKept
<1>2. Len(elements') = Len(elements) /\ references' = references /\ pc' = pc /\ pc = "resolving"
  BY <1>1 DEF Kept, Resolve
<1>3. Filled'
  BY <1>2, ResolvedFilled DEF Filled
<1>4. Owned'
  BY <1>2 DEF RInv, Owned
<1>5. QED
  BY <1>2, <1>3, <1>4 DEF RInv

-----------------------------------------------------------------------------
(* The steps of reading.  What is put in a containment leaves the          *)
(* references of an element alone.                                         *)
Beside(es, fs) ==
    Kept(es, fs) /\ \A e \in 1..Len(es) : fs[e].refs = es[e].refs /\ fs[e].ref = es[e].ref

LEMMA PutBeside ==
    ASSUME NEW es \in Seq(ElementType), NEW owner \in 1..Len(es), NEW prop \in {"children", "child"}, NEW entry \in EntryType
    PROVE  Beside(es, [es EXCEPT ![owner] = Put(@, prop, entry)])
<1> DEFINE f == Put(es[owner], prop, entry)
           fs == [es EXCEPT ![owner] = f]
<1>1. es[owner] \in ElementType
  BY ElementOfSeq
<1>2. f \in ElementType
  BY <1>1, PutKeeps
<1>3. f.refs = es[owner].refs /\ f.ref = es[owner].ref
  BY <1>1 DEF Put, ElementType
<1>4. fs \in Seq(ElementType) /\ Len(fs) = Len(es) /\ \A j \in 1..Len(es) : fs[j] = IF j = owner THEN f ELSE es[j]
  <2> HIDE DEF f
  <2>1. QED
    BY <1>2, ExceptSeq
<1>5. Kept(es, fs)
  BY PutInKeeps
<1>6. QED
  BY <1>3, <1>4, <1>5 DEF Beside

(* A new element holds no reference yet.                                   *)
LEMMA ElementRead ==
    ASSUME elements \in Seq(ElementType), NEW fs, Beside(elements, fs), NEW typed \in BOOLEAN, NEW id \in Text \cup {None},
           NEW parent \in Nat, elements' = Append(fs, NewElement(typed, id, parent))
    PROVE  /\ elements' \in Seq(ElementType) /\ Len(elements') = Len(elements) + 1
           /\ \A e \in 1..Len(elements) : elements'[e].refs = elements[e].refs /\ elements'[e].ref = elements[e].ref
           /\ \A e \in (Len(elements) + 1)..Len(elements') : elements'[e].refs = <<>> /\ elements'[e].ref = Unset
<1>1. PICK f \in ElementType : f = NewElement(typed, id, parent)
  BY NewElementType
<1>2. f.refs = <<>> /\ f.ref = Unset
  BY <1>1 DEF NewElement
<1>3. PICK n \in Nat : n = Len(elements)
  OBVIOUS
<1>4. fs \in Seq(ElementType) /\ Len(fs) = n
  BY <1>3 DEF Beside, Kept
<1>5. elements' \in Seq(ElementType) /\ Len(elements') = n + 1 /\ elements'[n + 1] = f /\ \A e \in 1..n : elements'[e] = fs[e]
  BY <1>1, <1>4
<1>6. \A e \in 1..n : fs[e].refs = elements[e].refs /\ fs[e].ref = elements[e].ref
  BY <1>3 DEF Beside
<1>7. \A e \in (n + 1)..(n + 1) : e = n + 1
  OBVIOUS
<1>8. QED
  BY <1>2, <1>3, <1>5, <1>6, <1>7

(* The references of an attribute are the new element's.                   *)
Recorded(e, shape) == references' = references \o AttributeReferences(e, shape)

LEMMA AttributesRead ==
    ASSUME references \in Seq(ReferenceType), NEW e \in Nat, NEW shape \in Shapes, Recorded(e, shape)
    PROVE  /\ references' \in Seq(ReferenceType) /\ Len(references') >= Len(references)
           /\ \A r \in 1..Len(references) : references'[r] = references[r]
           /\ \A r \in (Len(references) + 1)..Len(references') : ~ references'[r].child /\ references'[r].element = e
<1>1. PICK given \in Seq(ReferenceType) : given = AttributeReferences(e, shape)
  BY AttributeReferencesType
<1>2. \A i \in 1..Len(given) : ~ given[i].child /\ given[i].element = e
  BY <1>1 DEF AttributeReferences
<1>3. PICK n \in Nat : n = Len(references)
  OBVIOUS
<1>4. PICK m \in Nat : m = Len(given)
  OBVIOUS
<1>5. PICK s : s = references'
  OBVIOUS
<1>6. s \in Seq(ReferenceType) /\ Len(s) = n + m /\ \A r \in 1..(n + m) : s[r] = IF r <= n THEN references[r] ELSE given[r - n]
  <2>1. s = references \o given
    BY <1>1, <1>5 DEF Recorded
  <2>2. QED
    BY <2>1, <1>3, <1>4, ConcatProperties
<1>7. \A r \in 1..n : s[r] = references[r]
  BY <1>6
<1>8. ASSUME NEW r \in (n + 1)..(n + m) PROVE ~ s[r].child /\ s[r].element = e
  <2>1. r - n \in 1..m /\ r \in 1..(n + m) /\ ~ (r <= n)
    BY <1>3, <1>4
  <2>2. PICK i \in 1..m : i = r - n
    BY <2>1
  <2>3. s[r] = given[i]
    BY <2>1, <2>2, <1>6
  <2>4. QED
    BY <2>3, <1>2, <1>4
<1>9. QED
  BY <1>3, <1>5, <1>6, <1>7, <1>8

LEMMA CreatedRead ==
    ASSUME IInv, NEW shape \in Shapes, NEW attached, Beside(elements, attached), NEW parent \in Nat, NEW handler,
           CreateTyped(shape, attached, parent, handler)
    PROVE  Read
<1>1. elements \in Seq(ElementType) /\ references \in Seq(ReferenceType) /\ shape.id \in Text \cup {None}
  BY DEF IInv, TypeOK, Shape
<1>2. PICK e \in Nat : e = Len(elements) + 1
  BY <1>1
<1>3. Recorded(e, shape)
  BY <1>2 DEF CreateTyped, Recorded
<1>4. PICK fs : fs = (IF Accepts(shape.id) THEN attached ELSE elements) /\ Beside(elements, fs)
  BY <1>1 DEF Beside, Kept
<1>5. PICK to \in Nat : elements' = Append(fs, NewElement(TRUE, shape.id, to))
  BY <1>4 DEF CreateTyped
<1>6. /\ elements' \in Seq(ElementType) /\ Len(elements') = Len(elements) + 1
      /\ \A i \in 1..Len(elements) : elements'[i].refs = elements[i].refs /\ elements'[i].ref = elements[i].ref
      /\ \A i \in (Len(elements) + 1)..Len(elements') : elements'[i].refs = <<>> /\ elements'[i].ref = Unset
  BY <1>1, <1>4, <1>5, ElementRead
<1>7. /\ references' \in Seq(ReferenceType) /\ Len(references') >= Len(references)
      /\ \A r \in 1..Len(references) : references'[r] = references[r]
      /\ \A r \in (Len(references) + 1)..Len(references') : ~ references'[r].child /\ references'[r].element = e
  BY <1>1, <1>3, AttributesRead
<1>8. e <= Len(elements') /\ Len(elements') >= Len(elements)
  BY <1>1, <1>2, <1>6
<1>9. QED
  BY <1>6, <1>7, <1>8 DEF Read

LEMMA ElementOpenedRead ==
    ASSUME IInv,
           \/ \E shape \in Shapes : OpenRoot(shape) \/ \E prop \in {"children", "child"} : OpenContained(prop, shape)
           \/ OpenAny
    PROVE  Read
<1>1. elements \in Seq(ElementType) /\ references \in Seq(ReferenceType) /\ TypeOK
  BY DEF IInv, TypeOK
<1>2. ASSUME NEW shape \in Shapes, OpenRoot(shape)
      PROVE  Read
  <2>1. Beside(elements, elements)
    BY <1>1 DEF Beside, Kept
  <2>2. QED
    BY <1>2, <2>1, CreatedRead DEF OpenRoot
<1> DEFINE e == Len(elements) + 1
           owner == Owner(Top)
           attached(prop) == [elements EXCEPT ![owner] = Put(@, prop, Entry("element", e))]
<1>3. ASSUME NEW prop \in {"children", "child"}, InElement \/ Top.kind = "generic", Opening
      PROVE  Beside(elements, attached(prop)) /\ owner \in Nat
  <2>1. owner \in 1..Len(elements) /\ e \in Nat
    BY <1>1, <1>3, OwnerHeld DEF Opening
  <2>2. Entry("element", e) \in EntryType
    BY <2>1 DEF Entry, EntryType
  <2>3. QED
    BY <1>1, <2>1, <2>2, PutBeside
<1>4. ASSUME NEW shape \in Shapes, NEW prop \in {"children", "child"}, OpenContained(prop, shape)
      PROVE  Read
  <2>1. CreateTyped(shape, attached(prop), owner, Handler("element", e)) /\ InElement /\ Opening
    BY <1>4 DEF OpenContained
  <2>2. Beside(elements, attached(prop)) /\ owner \in Nat
    BY <1>3, <2>1
  <2> HIDE DEF attached, owner
  <2>3. QED
    BY <2>1, <2>2, CreatedRead
<1>5. CASE OpenAny
  <2>1. /\ elements' = Append(attached("children"), NewElement(FALSE, None, owner)) /\ references' = references
        /\ (InElement \/ Top.kind = "generic") /\ Opening
    BY <1>5 DEF OpenAny
  <2>2. Beside(elements, attached("children")) /\ owner \in Nat
    BY <1>3, <2>1
  <2> HIDE DEF attached, owner
  <2>3. /\ elements' \in Seq(ElementType) /\ Len(elements') = Len(elements) + 1
        /\ \A i \in 1..Len(elements) : elements'[i].refs = elements[i].refs /\ elements'[i].ref = elements[i].ref
        /\ \A i \in (Len(elements) + 1)..Len(elements') : elements'[i].refs = <<>> /\ elements'[i].ref = Unset
    BY <1>1, <2>1, <2>2, ElementRead
  <2>4. /\ references' \in Seq(ReferenceType) /\ Len(references') = Len(references)
        /\ \A r \in (Len(references) + 1)..Len(references') : FALSE
    BY <1>1, <2>1
  <2>5. Len(elements') >= Len(elements) /\ Len(references') >= Len(references)
    BY <1>1, <2>3, <2>4
  <2>6. \A r \in 1..Len(references) : references'[r] = references[r]
    BY <2>1
  <2>7. QED
    BY <2>3, <2>4, <2>5, <2>6 DEF Read
<1>6. QED
  BY <1>2, <1>4, <1>5

(* What leaves the elements alone changes the id of a reference at most.   *)
LEMMA PlainRead ==
    ASSUME IInv, elements' = elements, references' \in Seq(ReferenceType), Len(references') = Len(references),
           \A r \in 1..Len(references) : /\ references'[r].element = references[r].element
                                         /\ references'[r].prop = references[r].prop
                                         /\ references'[r].child = references[r].child
    PROVE  Read
<1>1. elements \in Seq(ElementType) /\ references \in Seq(ReferenceType)
  BY DEF IInv, TypeOK
<1>2. \A r \in (Len(references) + 1)..Len(references') : FALSE
  BY <1>1
<1>3. \A e \in (Len(elements) + 1)..Len(elements') : FALSE
  BY <1>1
<1>4. QED
  BY <1>1, <1>2, <1>3 DEF Read

LEMMA ClosedRead ==
    ASSUME IInv, Close
    PROVE  Read
<1> DEFINE r == Top.at
<1>1. elements' = elements /\ references \in Seq(ReferenceType) /\ TypeOK
  BY DEF Close, treeVars, IInv, TypeOK
<1>2. CASE Top.kind = "reference" /\ r \in 1..Len(references)
  <2>1. Top \in HandlerType
    <3>1. Len(stack) \in 1..Len(stack) /\ stack \in Seq(HandlerType)
      BY DEF IInv, StackOK, StackAligned, Close
    <3>2. QED
      BY <3>1, ElementOfSeq DEF Top, Last
  <2>2. references[r] \in ReferenceType
    BY <1>1, <1>2, ElementOfSeq
  <2>3. PICK ref \in ReferenceType : ref = [references[r] EXCEPT !.id = Top.body]
    BY <2>1, <2>2 DEF ReferenceType, HandlerType
  <2>4. ref.element = references[r].element /\ ref.prop = references[r].prop /\ ref.child = references[r].child
    BY <2>2, <2>3 DEF ReferenceType
  <2>5. references' = [references EXCEPT ![r] = ref]
    BY <1>2, <2>3 DEF Close, TakeId
  <2>6. /\ references' \in Seq(ReferenceType) /\ Len(references') = Len(references)
        /\ \A i \in 1..Len(references) : references'[i] = IF i = r THEN ref ELSE references[i]
    BY <1>1, <1>2, <2>5, ExceptSeq
  <2>7. QED
    BY <1>1, <2>4, <2>6, PlainRead
<1>3. CASE ~ (Top.kind = "reference" /\ r \in 1..Len(references))
  <2>1. references' = references
    BY <1>3 DEF Close, TakeId, IInv, TypeOK
  <2>2. QED
    BY <1>1, <2>1, PlainRead
<1>4. QED
  BY <1>2, <1>3

(* A reference opened: one placeholder more, of the last reference.        *)
LEMMA AwaitsLast ==
    ASSUME NEW e, NEW hs, Awaits(e, hs), NEW r \in Nat, Len(references) \in Nat, r = Len(references) + 1, resolved = 0,
           resolved' = resolved, Len(references') = r, references'[r].element = e, references'[r].prop = "refs", references'[r].child,
           \A q \in 1..Len(references) : references'[q] = references[q]
    PROVE  Awaits(e, Append(hs, r))'
<1>1. hs \in Seq(Nat) /\ \A i, j \in 1..Len(hs) : i < j => hs[i] < hs[j]
  BY DEF Awaits, Increasing
<1>2. PICK n \in Nat : n = Len(hs)
  BY <1>1
<1>3. PICK gs : gs = Append(hs, r)
  OBVIOUS
<1>4. gs \in Seq(Nat) /\ Len(gs) = n + 1 /\ gs[n + 1] = r /\ \A i \in 1..n : gs[i] = hs[i]
  BY <1>1, <1>2, <1>3
<1>5. ASSUME NEW i \in 1..n PROVE hs[i] \in Nat /\ hs[i] < r
  <2>1. PICK q \in Nat : q = hs[i]
    BY <1>1, <1>2, ElementOfSeq
  <2>2. Awaited(e, q)
    BY <2>1, <1>2 DEF Awaits
  <2>3. QED
    BY <2>1, <2>2 DEF Awaited
<1>6. Increasing(gs)
  <2>1. ASSUME NEW i \in 1..(n + 1), NEW j \in 1..(n + 1), i < j PROVE gs[i] < gs[j]
    <3>1. i \in 1..n
      BY <2>1
    <3>2. CASE j \in 1..n
      BY <3>1, <3>2, <2>1, <1>1, <1>2, <1>4
    <3>3. CASE j = n + 1
      BY <3>1, <3>3, <1>4, <1>5
    <3>4. QED
      BY <3>2, <3>3
  <2>2. QED
    BY <2>1, <1>4 DEF Increasing
<1>7. ASSUME NEW q \in Nat PROVE Awaited(e, q)' <=> \E i \in 1..Len(gs) : gs[i] = q
  <2>1. Awaited(e, q)' <=> Awaited(e, q) \/ q = r
    <3>1. CASE q \in 1..Len(references)
      BY <3>1 DEF Awaited
    <3>2. CASE q = r
      BY <3>2 DEF Awaited
    <3>3. CASE q \notin 1..Len(references) /\ q # r
      BY <3>3 DEF Awaited
    <3>4. QED
      BY <3>1, <3>2, <3>3
  <2>2. Awaited(e, q) <=> \E i \in 1..n : hs[i] = q
    BY <1>2 DEF Awaits
  <2>3. (\E i \in 1..(n + 1) : gs[i] = q) <=> (\E i \in 1..n : hs[i] = q) \/ q = r
    <3>1. \A i \in 1..(n + 1) : i \in 1..n \/ i = n + 1
      OBVIOUS
    <3>2. (\A i \in 1..n : i \in 1..(n + 1)) /\ n + 1 \in 1..(n + 1)
      OBVIOUS
    <3>3. QED
      BY <3>1, <3>2, <1>4
  <2>4. QED
    BY <2>1, <2>2, <2>3, <1>4
<1>8. QED
  BY <1>3, <1>6, <1>7 DEF Awaits

LEMMA StandLast ==
    ASSUME NEW p, NEW hs, Stand(p, hs), NEW r \in Nat
    PROVE  Stand(Append(p, Entry("placeholder", r)), Append(hs, r))
<1>1. PICK x \in EntryType : x = Entry("placeholder", r)
  BY DEF Entry, EntryType
<1>2. p \in Seq(EntryType) /\ hs \in Seq(Nat) /\ Len(p) = Len(hs) /\ \A i \in 1..Len(hs) : p[i] = Entry("placeholder", hs[i])
  BY DEF Stand
<1>3. PICK n \in Nat : n = Len(hs)
  BY <1>2
<1>4. PICK gs : gs = Append(hs, r)
  OBVIOUS
<1>5. gs \in Seq(Nat) /\ Len(gs) = n + 1 /\ gs[n + 1] = r /\ \A i \in 1..n : gs[i] = hs[i]
  BY <1>2, <1>3, <1>4
<1>6. PICK q : q = Append(p, x)
  OBVIOUS
<1>7. q \in Seq(EntryType) /\ Len(q) = n + 1 /\ q[n + 1] = x /\ \A i \in 1..n : q[i] = p[i]
  BY <1>2, <1>3, <1>6
<1>8. ASSUME NEW i \in 1..(n + 1) PROVE q[i] = Entry("placeholder", gs[i])
  <2>1. CASE i \in 1..n
    BY <2>1, <1>2, <1>3, <1>5, <1>7
  <2>2. CASE i = n + 1
    BY <2>2, <1>1, <1>5, <1>7
  <2>3. QED
    BY <2>1, <2>2
<1>9. Stand(q, gs)
  BY <1>5, <1>7, <1>8 DEF Stand
<1>10. QED
  BY <1>1, <1>4, <1>6, <1>9

LEMMA Nothing ==
    ASSUME NEW p \in Seq(EntryType)
    PROVE  Joined(<<>>, p, <<>>) = p
<1>1. <<>> \o p = p /\ p \o <<>> = p
  BY ConcatEmptySeq
<1>2. QED
  BY <1>1 DEF Joined

(* While reading nothing is gathered: a collection is its placeholders.    *)
LEMMA OnlyHoles ==
    ASSUME TypeOK, resolved = 0, NEW e, NEW s
    PROVE  Partly(e, s) <=> \E hs : Awaits(e, hs) /\ Stand(s, hs)
<1>1. Gathered(e, TRUE, resolved) = <<>> /\ Gathered(e, FALSE, resolved) = <<>>
  BY GatheredNone DEF TypeOK
<1>2. \A hs, p : Stand(p, hs) => Joined(<<>>, p, <<>>) = p
  BY Nothing DEF Stand
<1>3. QED
  BY <1>1, <1>2 DEF Partly

LEMMA ReferenceFills ==
    ASSUME IInv, RInv, NEW prop \in {"ref", "refs"}, OpenReference(prop)
    PROVE  RInv'
<1>1. TypeOK /\ TypeOK'
  BY ReferenceOpened DEF IInv
<1>2. PICK r \in Nat : r = Len(references) + 1
  BY <1>1 DEF TypeOK
<1>3. PICK owner \in 1..Len(elements) : owner = Owner(Top)
  BY OwnerHeld DEF OpenReference, Opening
<1>4. PICK x \in EntryType : x = Entry("placeholder", r)
  BY DEF Entry, EntryType
<1>5. resolved = 0 /\ resolved' = 0 /\ pc' = "reading" /\ pc = "reading"
  BY DEF RInv, OpenReference, Opening, Push
<1>6. /\ Len(references') = r /\ references'[r].element = owner /\ references'[r].prop = prop /\ references'[r].child
      /\ \A q \in 1..Len(references) : references'[q] = references[q]
  <2>1. PICK ref \in ReferenceType : ref = [element |-> owner, prop |-> prop, id |-> None, child |-> TRUE]
    <3>1. owner \in Nat /\ None \in Text \cup {None}
      BY <1>1, <1>3 DEF TypeOK
    <3>2. [element |-> owner, prop |-> prop, id |-> None, child |-> TRUE] \in ReferenceType
      BY <3>1 DEF ReferenceType
    <3>3. QED
      BY <3>2
  <2>2. references' = Append(references, ref) /\ references \in Seq(ReferenceType)
    BY <1>1, <1>3, <2>1 DEF OpenReference, TypeOK
  <2>3. Len(references') = r /\ references'[r] = ref /\ \A q \in 1..Len(references) : references'[q] = references[q]
    BY <2>2, <1>2
  <2>4. QED
    BY <2>1, <2>3
<1>7. PICK f \in ElementType : f = Put(elements[owner], prop, x)
  <2>1. elements[owner] \in ElementType
    BY <1>1, <1>3, ElementOfSeq DEF TypeOK
  <2>2. QED
    BY <2>1, PutKeeps
<1>8. Len(elements') = Len(elements) /\ \A e \in 1..Len(elements) : elements'[e] = IF e = owner THEN f ELSE elements[e]
  <2>1. elements' = [elements EXCEPT ![owner] = f]
    BY <1>2, <1>3, <1>4, <1>7 DEF OpenReference
  <2>2. elements \in Seq(ElementType)
    BY <1>1 DEF TypeOK
  <2>3. QED
    BY <2>1, <2>2, <1>3, <1>7, ExceptSeq
<1>9. ASSUME NEW e, e # owner \/ prop = "ref", NEW hs, Awaits(e, hs) PROVE Awaits(e, hs)'
  <2>1. ASSUME NEW q \in Nat PROVE Awaited(e, q)' <=> Awaited(e, q)
    <3>1. PICK n \in Nat : n = Len(references) /\ r = n + 1
      BY <1>1, <1>2 DEF TypeOK
    <3>2. CASE q \in 1..n
      <4>1. references'[q] = references[q] /\ (q <= Len(references')) /\ q <= Len(references)
        BY <3>1, <3>2, <1>6
      <4>2. QED
        BY <4>1, <1>5 DEF Awaited
    <3>3. CASE q = r
      <4>1. ~(q <= Len(references))
        BY <3>1, <3>3
      <4>2. references'[q].element = owner /\ references'[q].prop = prop
        BY <3>3, <1>6
      <4>3. QED
        BY <4>1, <4>2, <1>9 DEF Awaited
    <3>4. CASE q \notin 1..n /\ q # r
      <4>1. q = 0 \/ q > r
        BY <3>1, <3>4
      <4>2. PICK m : m = Len(references')
        OBVIOUS
      <4>3. (q = 0 \/ ~(q <= n)) /\ (q = 0 \/ ~(q <= m))
        BY <4>1, <4>2, <3>1, <1>6
      <4>4. QED
        BY <4>2, <4>3, <3>1, <1>5 DEF Awaited
    <3>5. QED
      BY <3>2, <3>3, <3>4
  <2>2. QED
    BY <2>1, <1>9 DEF Awaits
<1>10. ASSUME NEW e \in 1..Len(elements), NEW entry \in EntryType, AwaitsOne(e, entry) PROVE AwaitsOne(e, entry)'
  <2>1. SUFFICES ASSUME entry.to = "placeholder"
                 PROVE  resolved' < entry.at /\ entry.at <= Len(references') /\ references'[entry.at].element = e
                        /\ references'[entry.at].prop = "ref"
    BY DEF AwaitsOne
  <2>2. entry.at \in 1..Len(references) /\ references[entry.at].element = e /\ references[entry.at].prop = "ref"
    <3>1. entry.at \in Nat
      BY DEF EntryType
    <3>2. /\ 0 < entry.at /\ entry.at <= Len(references)
          /\ references[entry.at].element = e /\ references[entry.at].prop = "ref"
      BY <2>1, <1>5, <1>10 DEF AwaitsOne
    <3>3. Len(references) \in Nat
      BY <1>1 DEF TypeOK
    <3>4. QED
      BY <3>1, <3>2, <3>3
  <2>3. PICK q \in 1..Len(references) : q = entry.at
    BY <2>2
  <2>4. 0 < q /\ q <= r
    <3>1. PICK n \in Nat : n = Len(references)
      BY <1>1 DEF TypeOK
    <3>2. QED
      BY <3>1, <1>2
  <2>5. QED
    BY <2>2, <2>3, <2>4, <1>5, <1>6
<1>11. ASSUME NEW e \in 1..Len(elements) PROVE Partly(e, elements[e].refs)' /\ AwaitsOne(e, elements[e].ref)'
  <2>1. PICK el \in ElementType : el = elements[e]
    BY <1>1, ElementOfSeq DEF TypeOK
  <2>2. PICK hs : Awaits(e, hs) /\ Stand(el.refs, hs)
    BY <2>1, <1>1, <1>5, OnlyHoles DEF RInv, Filled
  <2>3. AwaitsOne(e, el.ref) /\ el.ref \in EntryType
    BY <2>1 DEF RInv, Filled, ElementType
  <2>4. \A s : Partly(e, s)' <=> \E gs : Awaits(e, gs)' /\ Stand(s, gs)
    <3>1. TypeOK' /\ resolved' = 0
      BY <1>1, <1>5
    <3>2. (Gathered(e, TRUE, resolved))' = <<>> /\ (Gathered(e, FALSE, resolved))' = <<>>
      <4>1. SubSeq(references', 1, 0) = <<>>
        BY <3>1 DEF TypeOK
      <4>2. \A child : F!Fold(At(e, child)', <<>>, <<>>) = <<>>
        BY F!FoldEmpty
      <4>3. QED
        BY <4>1, <4>2, <3>1 DEF Gathered
    <3>3. \A gs, p : Stand(p, gs) => Joined(<<>>, p, <<>>) = p
      BY Nothing DEF Stand
    <3>4. QED
      BY <3>2, <3>3 DEF Partly
  <2>5. CASE e # owner
    <3>1. elements'[e] = el
      BY <2>1, <2>5, <1>8
    <3>2. Awaits(e, hs)'
      BY <2>2, <2>5, <1>9
    <3>3. Partly(e, el.refs)'
      BY <2>2, <2>4, <3>2
    <3>4. AwaitsOne(e, el.ref)'
      BY <2>3, <1>10
    <3>5. QED
      BY <3>1, <3>3, <3>4 DEF Partly, AwaitsOne
  <2>6. CASE e = owner /\ prop = "ref"
    <3>1. elements'[e].refs = el.refs /\ elements'[e].ref = x
      BY <2>1, <2>6, <1>7, <1>8 DEF Put, Many, ElementType
    <3>2. Awaits(e, hs)'
      BY <2>2, <2>6, <1>9
    <3>3. Partly(e, el.refs)'
      BY <2>2, <2>4, <3>2
    <3>4. AwaitsOne(e, x)'
      BY <2>6, <1>2, <1>4, <1>5, <1>6 DEF AwaitsOne, Entry
    <3>5. QED
      BY <3>1, <3>3, <3>4 DEF Partly, AwaitsOne
  <2>7. CASE e = owner /\ prop = "refs"
    <3>1. elements'[e].refs = Append(el.refs, x) /\ elements'[e].ref = el.ref
      BY <2>1, <2>7, <1>7, <1>8 DEF Put, Many, ElementType
    <3>2. PICK s : s = Append(el.refs, x)
      OBVIOUS
    <3>3. Awaits(e, Append(hs, r))'
      <4>1. Len(references) \in Nat
        BY <1>1 DEF TypeOK
      <4>2. QED
        BY <4>1, <2>2, <2>7, <1>2, <1>5, <1>6, AwaitsLast
    <3>4. Stand(s, Append(hs, r))
      BY <2>2, <3>2, <1>4, StandLast
    <3>5. Partly(e, s)'
      BY <3>3, <3>4, <2>4
    <3>6. AwaitsOne(e, el.ref)'
      BY <2>3, <1>10
    <3>7. QED
      BY <3>1, <3>2, <3>5, <3>6 DEF Partly, AwaitsOne
  <2>8. QED
    BY <2>5, <2>6, <2>7
<1>12. Filled'
  BY <1>8, <1>11 DEF Filled
<1>13. Owned'
  <2>1. ASSUME NEW q \in 1..r PROVE references'[q].element <= Len(elements)
    <3>1. CASE q = r
      BY <3>1, <1>1, <1>3, <1>6 DEF TypeOK
    <3>2. CASE q \in 1..Len(references)
      BY <3>2, <1>6 DEF RInv, Owned
    <3>3. PICK n \in Nat : n = Len(references)
      BY <1>1 DEF TypeOK
    <3>4. q = r \/ q \in 1..n
      BY <3>3, <1>2
    <3>5. QED
      BY <3>1, <3>2, <3>3, <3>4
  <2>2. QED
    BY <2>1, <1>6, <1>8 DEF Owned
<1>14. QED
  BY <1>5, <1>12, <1>13 DEF RInv

(* References are found and resolved once each: while reading every one    *)
(* that a child element stands for has its placeholder, and each round     *)
(* fills or cuts exactly its own.                                          *)
LEMMA ResolvingStep ==
    ASSUME IInv, RInv, Next
    PROVE  RInv'
<1>1. TypeOK
  BY DEF IInv
<1>2. CASE \E shape \in Shapes : OpenRoot(shape) \/ \E prop \in {"children", "child"} : OpenContained(prop, shape)
  <2>1. Read
    BY <1>2, ElementOpenedRead
  <2>2. Opening /\ pc' # "done"
    BY <1>2 DEF OpenRoot, OpenContained, Opening, CreateTyped, Push, Refuse
  <2>3. QED
    BY <1>1, <2>1, <2>2, ReadKeeps DEF Opening
<1>3. CASE OpenAny
  <2>1. Read
    BY <1>3, ElementOpenedRead
  <2>2. Opening /\ pc' # "done"
    BY <1>3 DEF OpenAny, Opening, Push
  <2>3. QED
    BY <1>1, <2>1, <2>2, ReadKeeps DEF Opening
<1>4. CASE \E prop \in {"ref", "refs"} : OpenReference(prop)
  BY <1>4, ReferenceFills
<1>5. CASE OpenWrongRoot \/ OpenValue \/ OpenRefused \/ OpenIgnored
  <2>1. Opening /\ pc' # "done" /\ UNCHANGED <<treeVars, references>>
    BY <1>5 DEF OpenWrongRoot, OpenValue, OpenRefused, OpenIgnored, Opening, Push, Refuse
  <2>2. Read
    BY <1>1, <2>1, PlainRead DEF treeVars, TypeOK
  <2>3. QED
    BY <1>1, <2>1, <2>2, ReadKeeps DEF Opening
<1>6. CASE Close
  <2>1. Read
    BY <1>6, ClosedRead
  <2>2. pc = "reading" /\ pc' # "done" /\ resolved' = resolved
    BY <1>6 DEF Close
  <2>3. QED
    BY <1>1, <2>1, <2>2, ReadKeeps
<1>7. CASE (\E text \in Text, warned \in BOOLEAN : ReadText(text, warned)) \/ Preamble \/ XmlError
  <2>1. pc = "reading" /\ pc' # "done" /\ resolved' = resolved /\ UNCHANGED <<treeVars, references>>
    BY <1>7 DEF ReadText, Preamble, XmlError
  <2>2. Read
    BY <1>1, <2>1, PlainRead DEF treeVars, TypeOK
  <2>3. QED
    BY <1>1, <2>1, <2>2, ReadKeeps
<1>8. CASE EndDocument
  <2>1. pc = "reading" /\ pc' # "done" /\ resolved' = resolved /\ UNCHANGED <<treeVars, references>>
    BY <1>8 DEF EndDocument
  <2>2. Read
    BY <1>1, <2>1, PlainRead DEF treeVars, TypeOK
  <2>3. QED
    BY <1>1, <2>1, <2>2, ReadKeeps
<1>9. CASE Resolve
  BY <1>9, ResolveFills
<1>10. CASE Return
  <2>1. UNCHANGED <<elements, byId, references, resolved>> /\ pc' # "reading" /\ resolved = Len(references)
    BY <1>10 DEF Return, treeVars
  <2>2. Owned' /\ Filled'
    BY <2>1 DEF RInv, Owned, Filled, Partly, AwaitsOne, Awaits, Awaited, Gathered, At
  <2>3. QED
    BY <2>1, <2>2 DEF RInv
<1>11. QED
  BY <1>2, <1>3, <1>4, <1>5, <1>6, <1>7, <1>8, <1>9, <1>10 DEF Next

LEMMA ResolvingInductive == IInv /\ RInv /\ [Next]_vars => RInv'
<1> SUFFICES ASSUME IInv, RInv, [Next]_vars PROVE RInv'
  OBVIOUS
<1>1. CASE Next
  BY <1>1, ResolvingStep
<1>2. CASE UNCHANGED vars
  <2>1. UNCHANGED <<pc, elements, byId, references, resolved>>
    BY <1>2 DEF vars, treeVars
  <2>2. Owned' /\ Filled'
    BY <2>1 DEF RInv, Owned, Filled, Partly, AwaitsOne, Awaits, Awaited, Gathered, At
  <2>3. QED
    BY <2>1, <2>2 DEF RInv
<1>3. QED
  BY <1>1, <1>2

(* When a document is read no placeholder is left, and every many-valued   *)
(* reference holds the targets of its child elements in document order,    *)
(* and then those of its attribute: whatever was refused, skipped or left  *)
(* unresolved, for every meta-model and every document.                    *)
THEOREM ReferencesStayResolved == Spec => []ReferencesResolved
<1>1. Init => RInv
  BY DEF Init, RInv, Owned, Filled
<1>2. IInv /\ RInv => ReferencesResolved
  BY AllResolved DEF IInv
<1>3. QED
  BY <1>1, <1>2, Invariance, ResolvingInductive, PTL DEF Spec
=============================================================================
