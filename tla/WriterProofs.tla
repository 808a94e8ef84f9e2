---------------------------- MODULE WriterProofs ----------------------------
(***************************************************************************)
(* What is proved of Writer, for any document, packages and prefixes.      *)
(*                                                                         *)
(* Two arguments.  The memo of a serializer stays fresh because every      *)
(* serializer is settled once it is entered: it owns a scope, or knows one *)
(* of an ancestor's, and what it does later, its lines and its generic     *)
(* attributes, never makes it own another.  Its attributes are all kept    *)
(* because a step of a fold adds the attribute's name or a warning, and    *)
(* takes no name away.                                                     *)
(***************************************************************************)
EXTENDS Writer, SequenceTheorems, TLAPS

(* Induction over the numbers, from Folding.                               *)
I == INSTANCE Folding WITH Op <- LAMBDA c, a, e : a, Holds <- LAMBDA c, a : TRUE

-----------------------------------------------------------------------------
(* Sequences whose elements have no common type.                           *)
Listed(s) == \E T : s \in Seq(T)

LEMMA ListedSeq == ASSUME NEW s, IsSeq(s) PROVE Listed(s) /\ s \in Seq(Range(s))
BY DEF IsSeq, Listed

LEMMA ListedLen ==
    ASSUME NEW s, Listed(s)
    PROVE  Len(s) \in Nat /\ DOMAIN s = 1..Len(s)
BY DEF Listed

LEMMA ListedExcept ==
    ASSUME NEW s, NEW k, NEW v, Listed(s)
    PROVE  LET t == [s EXCEPT ![k] = v] IN
           Listed(t) /\ Len(t) = Len(s) /\ DOMAIN t = DOMAIN s
           /\ \A i \in DOMAIN s : t[i] = IF i = k THEN v ELSE s[i]
<1>1. PICK T : s \in Seq(T)
  BY DEF Listed
<1> DEFINE t == [s EXCEPT ![k] = v]
<1>2. t \in Seq(T \cup {v}) /\ Len(t) = Len(s)
  <2>1. s \in [1..Len(s) -> T] /\ Len(s) \in Nat
    BY <1>1
  <2>2. t \in [1..Len(s) -> T \cup {v}]
    BY <2>1
  <2>3. QED
    BY <2>1, <2>2
<1>3. QED
  BY <1>2 DEF Listed

LEMMA ListedAppend ==
    ASSUME NEW s, NEW e, Listed(s)
    PROVE  LET t == Append(s, e) IN
           Listed(t) /\ Len(t) = Len(s) + 1 /\ DOMAIN t = 1..Len(s) + 1
           /\ t[Len(s) + 1] = e /\ \A i \in 1..Len(s) : t[i] = s[i]
<1>1. PICK T : s \in Seq(T)
  BY DEF Listed
<1>2. PICK U : U = T \cup {e}
  OBVIOUS
<1>3. s \in Seq(U) /\ e \in U
  <2>1. s \in [1..Len(s) -> T] /\ Len(s) \in Nat
    BY <1>1
  <2>2. s \in [1..Len(s) -> U]
    BY <2>1, <1>2
  <2>3. QED
    BY <2>1, <2>2, <1>2
<1>4. Append(s, e) \in Seq(U)
  BY <1>3
<1>5. Listed(Append(s, e))
  BY <1>4 DEF Listed
<1>6. QED
  BY <1>3, <1>5

LEMMA ListedEmpty == Listed(<<>>) /\ Len(<<>>) = 0
<1>1. <<>> \in Seq({})
  OBVIOUS
<1>2. QED
  BY <1>1 DEF Listed

LEMMA ListedConcat ==
    ASSUME NEW s, NEW t, Listed(s), Listed(t)
    PROVE  LET c == s \o t IN
           Listed(c) /\ Len(c) = Len(s) + Len(t)
           /\ (\A i \in DOMAIN s : i \in DOMAIN c /\ c[i] = s[i])
           /\ (\A i \in DOMAIN t : Len(s) + i \in DOMAIN c /\ c[Len(s) + i] = t[i])
           /\ (\A i \in DOMAIN c : \/ i \in DOMAIN s /\ c[i] = s[i]
                                   \/ i - Len(s) \in DOMAIN t /\ c[i] = t[i - Len(s)])
<1>1. PICK T : s \in Seq(T)
  BY DEF Listed
<1>2. PICK V : t \in Seq(V)
  BY DEF Listed
<1>3. PICK U : U = T \cup V
  OBVIOUS
<1>4. s \in Seq(U) /\ t \in Seq(U)
  <2>1. /\ s \in [1..Len(s) -> T] /\ Len(s) \in Nat
        /\ t \in [1..Len(t) -> V] /\ Len(t) \in Nat
    BY <1>1, <1>2
  <2>2. s \in [1..Len(s) -> U] /\ t \in [1..Len(t) -> U]
    BY <2>1, <1>3
  <2>3. QED
    BY <2>1, <2>2
<1>5. s \o t \in Seq(U)
  BY <1>4
<1>6. Listed(s \o t)
  BY <1>5 DEF Listed
<1>7. Len(s \o t) = Len(s) + Len(t)
  BY <1>4
<1>8. \A i \in 1..Len(s) + Len(t) : (s \o t)[i] = IF i <= Len(s) THEN s[i] ELSE t[i - Len(s)]
  BY <1>4
<1>9. /\ DOMAIN (s \o t) = 1..Len(s) + Len(t)
      /\ DOMAIN s = 1..Len(s) /\ DOMAIN t = 1..Len(t)
      /\ Len(s) \in Nat /\ Len(t) \in Nat
  BY <1>4
<1> HIDE <1>5
<1>10. QED
  BY <1>6, <1>7, <1>8, <1>9

-----------------------------------------------------------------------------
(* Heaps.  A scope's parent is an older one, its namespaces are keyed by   *)
(* their uris; n serializers own or know scopes there are.                 *)
ScopeKeys == {"prefixes", "uris", "used", "wellknown", "custom", "parent"}
Keyed(scope) == \A u \in DOMAIN scope.uris : scope.uris[u].uri = u
IsScope(scope, k) == DOMAIN scope = ScopeKeys /\ scope.parent \in 0..k - 1 /\ Keyed(scope)

IsHeap(h, n) ==
    /\ DOMAIN h = {"scopes", "own", "memo"}
    /\ Listed(h.scopes) /\ \A k \in DOMAIN h.scopes : IsScope(h.scopes[k], k)
    /\ Listed(h.own) /\ Len(h.own) = n
    /\ Listed(h.memo) /\ Len(h.memo) = n
    /\ \A a \in 1..n : /\ h.own[a] \in 0..Len(h.scopes)
                       /\ h.memo[a] \in 0..Len(h.scopes) \cup {Unset}

(* A step that changes what scopes hold, and not who owns or knows them.   *)
Rescoped(h, g) ==
    /\ DOMAIN g = DOMAIN h
    /\ g.own = h.own /\ g.memo = h.memo
    /\ Listed(g.scopes) /\ Len(g.scopes) = Len(h.scopes)
    /\ \A k \in DOMAIN h.scopes : DOMAIN g.scopes[k] = ScopeKeys
                                  /\ g.scopes[k].parent = h.scopes[k].parent /\ Keyed(g.scopes[k])

LEMMA RescopedHeap ==
    ASSUME NEW h, NEW g, NEW n \in Nat, IsHeap(h, n), Rescoped(h, g)
    PROVE  IsHeap(g, n)
<1>1. DOMAIN g.scopes = DOMAIN h.scopes
  BY ListedLen DEF IsHeap, Rescoped
<1>2. \A k \in DOMAIN g.scopes : IsScope(g.scopes[k], k)
  BY <1>1 DEF IsHeap, Rescoped, IsScope
<1>3. QED
  BY <1>1, <1>2 DEF IsHeap, Rescoped

LEMMA RescopedSelf ==
    ASSUME NEW h, NEW n \in Nat, IsHeap(h, n)
    PROVE  Rescoped(h, h)
BY DEF IsHeap, Rescoped, IsScope

LEMMA RescopedTwice ==
    ASSUME NEW h, NEW g, NEW f, NEW n \in Nat, IsHeap(h, n), Rescoped(h, g), Rescoped(g, f)
    PROVE  Rescoped(h, f)
<1>1. DOMAIN g.scopes = DOMAIN h.scopes
  BY ListedLen DEF IsHeap, Rescoped
<1>2. QED
  BY <1>1 DEF Rescoped

(* One scope is replaced.                                                  *)
LEMMA OneScope ==
    ASSUME NEW h, NEW n \in Nat, NEW k, NEW v, NEW g, IsHeap(h, n),
           g = [h EXCEPT !.scopes = [h.scopes EXCEPT ![k] = v]],
           k \in DOMAIN h.scopes => /\ DOMAIN v = ScopeKeys /\ Keyed(v)
                                    /\ v.parent = h.scopes[k].parent
    PROVE  Rescoped(h, g)
<1>1. PICK t : t = [h.scopes EXCEPT ![k] = v]
  OBVIOUS
<1>2. /\ Listed(t) /\ Len(t) = Len(h.scopes)
      /\ \A i \in DOMAIN h.scopes : t[i] = IF i = k THEN v ELSE h.scopes[i]
  <2>1. Listed(h.scopes)
    BY DEF IsHeap
  <2>2. QED
    BY <1>1, <2>1, ListedExcept
<1>3. /\ g.scopes = t /\ g.own = h.own /\ g.memo = h.memo
      /\ DOMAIN g = DOMAIN h
  BY <1>1 DEF IsHeap
<1>4. \A i \in DOMAIN h.scopes : DOMAIN t[i] = ScopeKeys
                                  /\ t[i].parent = h.scopes[i].parent /\ Keyed(t[i])
  BY <1>2 DEF IsHeap, IsScope
<1>5. QED
  BY <1>2, <1>3, <1>4 DEF Rescoped

LEMMA MapPrefixRescopes ==
    ASSUME NEW h, NEW n \in Nat, NEW k, NEW prefix, NEW uri, IsHeap(h, n)
    PROVE  LET g == MapPrefix(h, k, prefix, uri) IN
           Rescoped(h, g) /\ Field(g, "uris") = Field(h, "uris")
<1> DEFINE g == MapPrefix(h, k, prefix, uri)
<1>1. PICK v : v = [h.scopes[k] EXCEPT !.prefixes = Bind(@, prefix, uri)]
  OBVIOUS
<1>2. g = [h EXCEPT !.scopes = [h.scopes EXCEPT ![k] = v]]
  BY <1>1 DEF MapPrefix
<1>3. k \in DOMAIN h.scopes => /\ DOMAIN v = ScopeKeys /\ Keyed(v)
                               /\ v.parent = h.scopes[k].parent /\ v.uris = h.scopes[k].uris
  BY <1>1 DEF IsHeap, IsScope, ScopeKeys, Keyed
<1>4. Rescoped(h, g)
  BY <1>2, <1>3, OneScope
<1>5. g.scopes = [h.scopes EXCEPT ![k] = v]
  BY <1>2 DEF IsHeap
<1>6. DOMAIN g.scopes = DOMAIN h.scopes /\ \A i \in DOMAIN h.scopes : g.scopes[i].uris = h.scopes[i].uris
  BY <1>3, <1>5, ListedExcept DEF IsHeap
<1>7. QED
  BY <1>4, <1>6 DEF Field

LEMMA AddNsRescopes ==
    ASSUME NEW h, NEW n \in Nat, NEW k, NEW ns, NEW wellknown, IsHeap(h, n)
    PROVE  Rescoped(h, AddNs(h, k, ns, wellknown))
<1>1. PICK v : v = Added(h.scopes[k], ns, wellknown)
  OBVIOUS
<1>2. PICK g : g = [h EXCEPT !.scopes = [h.scopes EXCEPT ![k] = v]]
  OBVIOUS
<1>3. ASSUME k \in DOMAIN h.scopes
      PROVE  DOMAIN v = ScopeKeys /\ Keyed(v) /\ v.parent = h.scopes[k].parent
  <2>1. v.uris = Bind(h.scopes[k].uris, ns.uri, ns)
    BY <1>1, <1>3 DEF IsHeap, IsScope, ScopeKeys, Added
  <2>2. Keyed(v)
    BY <1>3, <2>1 DEF IsHeap, IsScope, Keyed, Bind
  <2>3. QED
    BY <1>1, <1>3, <2>2 DEF IsHeap, IsScope, ScopeKeys, Added
<1>4. Rescoped(h, g) /\ IsHeap(g, n)
  BY <1>2, <1>3, OneScope, RescopedHeap
<1>5. Rescoped(g, MapPrefix(g, k, ns.prefix, ns.uri))
  BY <1>4, MapPrefixRescopes
<1>6. AddNs(h, k, ns, wellknown) = MapPrefix(g, k, ns.prefix, ns.uri)
  BY <1>1, <1>2 DEF AddNs
<1>7. QED
  BY <1>4, <1>5, <1>6, RescopedTwice

LEMMA LogInScopeRescopes ==
    ASSUME NEW h, NEW n \in Nat, NEW k, NEW ns, NEW wellknown, NEW local, IsHeap(h, n)
    PROVE  Rescoped(h, LogInScope(h, k, ns, wellknown, local))
<1>1. PICK g : g = IF ~Registered(h, k, ns.uri) \/ local THEN AddNs(h, k, ns, wellknown) ELSE h
  OBVIOUS
<1>2. Rescoped(h, g) /\ IsHeap(g, n)
  BY <1>1, AddNsRescopes, RescopedSelf, RescopedHeap
<1>3. Rescoped(g, MapPrefix(g, k, ns.prefix, ns.uri))
  BY <1>2, MapPrefixRescopes
<1>4. LogInScope(h, k, ns, wellknown, local) = MapPrefix(g, k, ns.prefix, ns.uri)
  BY <1>1 DEF LogInScope
<1>5. QED
  BY <1>2, <1>3, <1>4, RescopedTwice

LEMMA LogUsedRescopes ==
    ASSUME NEW h, NEW n \in Nat, NEW k, NEW ns, IsHeap(h, n)
    PROVE  Rescoped(h, LogUsed(h, k, ns))
<1>1. PICK t : t = [i \in DOMAIN h.scopes |->
                      IF Contains(Chain(h, k), i) THEN Logged(h.scopes[i], ns, Registered(h, k, ns.uri))
                      ELSE h.scopes[i]]
  OBVIOUS
<1>2. LogUsed(h, k, ns) = [h EXCEPT !.scopes = t]
  BY <1>1 DEF LogUsed
<1>3. Listed(t) /\ Len(t) = Len(h.scopes)
  <2>1. PICK T : h.scopes \in Seq(T)
    BY DEF IsHeap, Listed
  <2>2. PICK V : V = {t[i] : i \in DOMAIN h.scopes}
    OBVIOUS
  <2>3. Len(h.scopes) \in Nat /\ DOMAIN h.scopes = 1..Len(h.scopes)
    BY <2>1
  <2>4. t \in [1..Len(h.scopes) -> V]
    BY <1>1, <2>2, <2>3
  <2>5. t \in Seq(V) /\ Len(t) = Len(h.scopes)
    BY <2>3, <2>4
  <2>6. QED
    BY <2>5 DEF Listed
<1>4. \A i \in DOMAIN h.scopes : DOMAIN t[i] = ScopeKeys /\ t[i].parent = h.scopes[i].parent /\ Keyed(t[i])
  <2>1. ASSUME NEW i \in DOMAIN h.scopes
        PROVE  DOMAIN t[i] = ScopeKeys /\ t[i].parent = h.scopes[i].parent /\ t[i].uris = h.scopes[i].uris
    BY <1>1, <2>1 DEF IsHeap, IsScope, ScopeKeys, Logged
  <2>2. QED
    BY <2>1 DEF IsHeap, IsScope, Keyed
<1>5. PICK g : g = [h EXCEPT !.scopes = t]
  OBVIOUS
<1>6. g.scopes = t /\ g.own = h.own /\ g.memo = h.memo /\ DOMAIN g = DOMAIN h
  BY <1>5 DEF IsHeap
<1>7. Rescoped(h, g)
  BY <1>3, <1>4, <1>6 DEF Rescoped
<1>8. QED
  BY <1>2, <1>5, <1>7

-----------------------------------------------------------------------------
(* Serializers.  p names the parent of each, an older one or none.  A      *)
(* settled one has a scope for good; a linked one knows the scope its      *)
(* parent has now.                                                         *)
Tree(p, n) == Listed(p) /\ Len(p) = n /\ \A a \in 1..n : p[a] \in 0..a - 1
Settled(h, a) == h.own[a] # 0 \/ h.memo[a] \notin {0, Unset}
Reach(h, a) == IF a = 0 THEN 0 ELSE ScopeOf(h, a)
Linked(h, p, a) == h.memo[a] # Unset => h.memo[a] = Reach(h, p[a])

(* The heap while s, the newest, is entered; and between such moments.     *)
Entering(h, p, s) ==
    /\ IsHeap(h, s) /\ Tree(p, s)
    /\ \A a \in 1..s - 1 : Settled(h, a)
    /\ \A a \in 1..s : Linked(h, p, a)
AllSettled(h, p, n) ==
    /\ IsHeap(h, n) /\ Tree(p, n)
    /\ \A a \in 1..n : Settled(h, a) /\ Linked(h, p, a)

(* The equation of the search for an ancestor's scope, and its solution.   *)
Searches(h, p, f) ==
    f = [a \in 0..Len(p) |->
            IF a = 0 THEN 0
            ELSE IF h.own[a] # 0 THEN h.own[a]
            ELSE IF h.memo[a] # Unset THEN h.memo[a]
            ELSE f[p[a]]]

LEMMA NearestIs ==
    ASSUME NEW s \in Nat \ {0}, NEW h, NEW p, Entering(h, p, s)
    PROVE  Nearest(h, p, s) = Reach(h, p[s]) /\ Reach(h, p[s]) \in 0..Len(h.scopes)
<1>1. PICK f : f = (CHOOSE g : Searches(h, p, g))
  OBVIOUS
<1>2. Nearest(h, p, s) = f[p[s]]
  BY <1>1 DEF Nearest, Searches
<1>3. Len(p) = s /\ p[s] \in 0..s - 1 /\ \A a \in 1..s - 1 : Settled(h, a)
  BY DEF Entering, Tree
<1>4. \A a \in 1..s : h.own[a] \in 0..Len(h.scopes) /\ h.memo[a] \in 0..Len(h.scopes) \cup {Unset}
  BY DEF Entering, IsHeap
<1>5. Len(h.scopes) \in Nat
  BY ListedLen DEF Entering, IsHeap
<1>6. Searches(h, p, f)
  <2> DEFINE g == [a \in 0..s |-> IF a = 0 THEN 0
                                  ELSE IF h.own[a] # 0 THEN h.own[a]
                                  ELSE IF h.memo[a] # Unset THEN h.memo[a]
                                  ELSE Reach(h, p[s])]
             k == [a \in 0..s |-> IF a = 0 THEN 0
                                  ELSE IF h.own[a] # 0 THEN h.own[a]
                                  ELSE IF h.memo[a] # Unset THEN h.memo[a]
                                  ELSE g[p[a]]]
  <2>1. g[p[s]] = Reach(h, p[s])
    BY <1>3 DEF Reach, ScopeOf, Settled
  <2>2. \A a \in 0..s : g[a] = k[a]
    <3>1. ASSUME NEW a \in 1..s - 1 PROVE g[a] = k[a]
      BY <1>3, <3>1 DEF Settled
    <3>2. g[s] = k[s]
      BY <2>1
    <3>3. g[0] = k[0]
      OBVIOUS
    <3>4. \A a \in 0..s : a = 0 \/ a = s \/ a \in 1..s - 1
      OBVIOUS
    <3>5. QED
      <4> HIDE DEF g, k
      <4> QED BY <3>1, <3>2, <3>3, <3>4
  <2>3. g = k
    BY <2>2
  <2>4. Searches(h, p, g)
    BY <1>3, <2>3 DEF Searches
  <2>5. QED
    BY <1>1, <2>4
<1>7. f[p[s]] = Reach(h, p[s])
  <2>1. CASE p[s] = 0
    BY <1>3, <1>6, <2>1 DEF Searches, Reach
  <2>2. CASE p[s] # 0
    <3>1. PICK a \in 1..s - 1 : a = p[s]
      BY <1>3, <2>2
    <3>2. f[a] = IF h.own[a] # 0 THEN h.own[a] ELSE IF h.memo[a] # Unset THEN h.memo[a] ELSE f[p[a]]
      BY <1>3, <1>6 DEF Searches
    <3>3. QED
      BY <1>3, <3>1, <3>2 DEF Settled, Reach, ScopeOf
  <2>3. QED
    BY <2>1, <2>2
<1>8. Reach(h, p[s]) \in 0..Len(h.scopes)
  <2>1. CASE p[s] = 0
    BY <2>1, <1>5 DEF Reach
  <2>2. CASE p[s] # 0
    <3>1. PICK a \in 1..s - 1 : a = p[s]
      BY <1>3, <2>2
    <3>2. Settled(h, a)
      BY <1>3
    <3>3. QED
      BY <1>4, <3>1, <3>2 DEF Settled, Reach, ScopeOf
  <2>3. QED
    BY <2>1, <2>2
<1>9. QED
  BY <1>2, <1>7, <1>8

(* What happens to s leaves its ancestors as they are.                     *)
LEMMA EnteringStep ==
    ASSUME NEW s \in Nat \ {0}, NEW h, NEW g, NEW p, Entering(h, p, s), IsHeap(g, s),
           \A a \in 1..s - 1 : g.own[a] = h.own[a] /\ g.memo[a] = h.memo[a],
           g.memo[s] = Unset \/ g.memo[s] = Reach(h, p[s])
    PROVE  Entering(g, p, s)
<1>1. \A a \in 1..s : p[a] \in 0..a - 1
  BY DEF Entering, Tree
<1>2. \A b \in 0..s - 1 : Reach(g, b) = Reach(h, b)
  BY DEF Reach, ScopeOf
<1>3. \A a \in 1..s : Reach(g, p[a]) = Reach(h, p[a])
  <2>1. \A a \in 1..s : p[a] \in 0..s - 1
    BY <1>1
  <2>2. QED
    BY <1>2, <2>1
<1>4. \A a \in 1..s - 1 : Settled(g, a)
  BY DEF Entering, Settled
<1>5. \A a \in 1..s : Linked(g, p, a)
  <2>1. ASSUME NEW a \in 1..s - 1 PROVE Linked(g, p, a)
    BY <1>3, <2>1 DEF Entering, Linked
  <2>2. Linked(g, p, s)
    BY <1>3 DEF Linked
  <2>3. \A a \in 1..s : a = s \/ a \in 1..s - 1
    OBVIOUS
  <2>4. QED
    BY <2>1, <2>2, <2>3
<1>6. QED
  BY <1>4, <1>5 DEF Entering

LEMMA RescopedEnters ==
    ASSUME NEW s \in Nat \ {0}, NEW h, NEW g, NEW p, Entering(h, p, s), Rescoped(h, g)
    PROVE  Entering(g, p, s) /\ \A a : Settled(g, a) <=> Settled(h, a)
<1>1. IsHeap(g, s)
  BY RescopedHeap DEF Entering
<1>2. g.own = h.own /\ g.memo = h.memo
  BY DEF Rescoped
<1>3. g.memo[s] = Unset \/ g.memo[s] = Reach(h, p[s])
  BY <1>2 DEF Entering, Linked
<1>4. QED
  BY <1>1, <1>2, <1>3, EnteringStep DEF Settled

LEMMA MemoizeEnters ==
    ASSUME NEW s \in Nat \ {0}, NEW h, NEW p, Entering(h, p, s)
    PROVE  LET g == Memoize(h, p, s) IN
           /\ Entering(g, p, s) /\ g.scopes = h.scopes /\ g.own = h.own
           /\ g.memo[s] \in 0..Len(h.scopes)
<1>1. PICK g : g = Memoize(h, p, s)
  OBVIOUS
<1>2. IsHeap(h, s) /\ h.memo[s] \in 0..Len(h.scopes) \cup {Unset}
  BY DEF Entering, IsHeap
<1>3. CASE h.memo[s] # Unset
  BY <1>1, <1>2, <1>3 DEF Memoize
<1>4. CASE h.memo[s] = Unset
  <2>1. PICK r \in 0..Len(h.scopes) : r = Reach(h, p[s]) /\ r = Nearest(h, p, s)
    BY NearestIs
  <2>2. g = [h EXCEPT !.memo = [h.memo EXCEPT ![s] = r]]
    BY <1>1, <1>4, <2>1 DEF Memoize
  <2>3. PICK m : m = [h.memo EXCEPT ![s] = r]
    OBVIOUS
  <2>4. Listed(h.memo) /\ Len(h.memo) = s
    BY <1>2 DEF IsHeap
  <2>5. /\ Listed(m) /\ Len(m) = s
        /\ \A a \in 1..s : m[a] = IF a = s THEN r ELSE h.memo[a]
    <3>1. DOMAIN h.memo = 1..s
      BY <2>4, ListedLen
    <3>2. PICK q : q = h.memo
      OBVIOUS
    <3>3. m = [q EXCEPT ![s] = r] /\ Listed(q)
      BY <2>3, <2>4, <3>2
    <3>4. LET t == [q EXCEPT ![s] = r] IN
          Listed(t) /\ Len(t) = Len(q) /\ DOMAIN t = DOMAIN q
          /\ \A i \in DOMAIN q : t[i] = IF i = s THEN r ELSE q[i]
      BY <3>3, ListedExcept
    <3>5. QED
      BY <2>4, <3>1, <3>2, <3>3, <3>4
  <2>6. g.memo = m /\ g.own = h.own /\ g.scopes = h.scopes /\ DOMAIN g = DOMAIN h
    BY <1>2, <2>2, <2>3 DEF IsHeap
  <2>7. IsHeap(g, s)
    BY <1>2, <2>5, <2>6 DEF IsHeap
  <2>8. Entering(g, p, s)
    <3>1. \A a \in 1..s - 1 : g.own[a] = h.own[a] /\ g.memo[a] = h.memo[a]
      BY <2>5, <2>6
    <3>2. g.memo[s] = Reach(h, p[s])
      BY <2>1, <2>5, <2>6
    <3>3. QED
      BY <2>7, <3>1, <3>2, EnteringStep
  <2>9. QED
    BY <1>1, <2>1, <2>5, <2>6, <2>8
<1>5. QED
  BY <1>3, <1>4

LEMMA OwnEnters ==
    ASSUME NEW s \in Nat \ {0}, NEW h, NEW p, Entering(h, p, s), h.memo[s] \in 0..Len(h.scopes)
    PROVE  LET g == Own(h, s, h.memo[s]) IN Entering(g, p, s) /\ Settled(g, s)
<1>1. PICK g : g = Own(h, s, h.memo[s])
  OBVIOUS
<1>2. IsHeap(h, s)
  BY DEF Entering
<1>3. PICK n \in Nat : n = Len(h.scopes)
  BY <1>2, ListedLen DEF IsHeap
<1>4. PICK z : z = Append(h.scopes, Scope(h.memo[s]))
  OBVIOUS
<1>5. PICK o : o = [h.own EXCEPT ![s] = n + 1]
  OBVIOUS
<1>6. g.scopes = z /\ g.own = o /\ g.memo = h.memo /\ DOMAIN g = DOMAIN h
  BY <1>1, <1>2, <1>3, <1>4, <1>5 DEF Own, IsHeap
<1>7. /\ Listed(o) /\ Len(o) = s
      /\ \A a \in 1..s : o[a] = IF a = s THEN n + 1 ELSE h.own[a]
  <2>1. Listed(h.own) /\ Len(h.own) = s
    BY <1>2 DEF IsHeap
  <2>2. QED
    <3>1. DOMAIN h.own = 1..s
      BY <2>1, ListedLen
    <3>2. PICK v : v = n + 1
      OBVIOUS
    <3>3. o = [h.own EXCEPT ![s] = v]
      BY <1>5, <3>2
    <3>4. /\ Listed(o) /\ Len(o) = Len(h.own)
          /\ \A i \in DOMAIN h.own : o[i] = IF i = s THEN v ELSE h.own[i]
      <4>1. PICK q : q = h.own
        OBVIOUS
      <4>2. o = [q EXCEPT ![s] = v]
        BY <3>3, <4>1
      <4>3. Listed(q)
        BY <2>1, <4>1
      <4>4. LET t == [q EXCEPT ![s] = v] IN
            Listed(t) /\ Len(t) = Len(q) /\ DOMAIN t = DOMAIN q
            /\ \A i \in DOMAIN q : t[i] = IF i = s THEN v ELSE q[i]
        BY <4>3, ListedExcept
      <4>5. QED
        BY <4>1, <4>2, <4>4
    <3>5. QED
      BY <2>1, <3>1, <3>2, <3>4
<1>8. /\ Listed(z) /\ Len(z) = n + 1 /\ DOMAIN z = 1..n + 1
      /\ z[n + 1] = Scope(h.memo[s])
      /\ \A k \in 1..n : z[k] = h.scopes[k]
  <2>1. Listed(h.scopes)
    BY <1>2 DEF IsHeap
  <2>2. QED
    BY <2>1, <1>3, <1>4, ListedAppend
<1>9. \A k \in DOMAIN z : IsScope(z[k], k)
  <2>1. \A k \in 1..n : IsScope(z[k], k)
    BY <1>2, <1>3, <1>8, ListedLen DEF IsHeap
  <2>2. IsScope(z[n + 1], n + 1)
    <3>1. PICK c : c = Scope(h.memo[s])
      OBVIOUS
    <3>2. DOMAIN c = ScopeKeys /\ c.parent = h.memo[s] /\ c.uris = EmptyMap
      BY <3>1 DEF Scope, ScopeKeys
    <3>3. Keyed(c)
      BY <3>2 DEF Keyed, EmptyMap
    <3>4. QED
      BY <1>3, <1>8, <3>1, <3>2, <3>3 DEF IsScope
  <2>3. \A k \in 1..n + 1 : k = n + 1 \/ k \in 1..n
    OBVIOUS
  <2>4. QED
    BY <1>8, <2>1, <2>2, <2>3
<1>10. IsHeap(g, s)
  <2>1. \A a \in 1..s : /\ o[a] \in 0..n + 1
                        /\ h.memo[a] \in 0..n + 1 \cup {Unset}
    <3>1. \A a \in 1..s : h.own[a] \in 0..n /\ h.memo[a] \in 0..n \cup {Unset}
      BY <1>2, <1>3 DEF IsHeap
    <3>2. QED
      BY <1>7, <3>1
  <2>2. QED
    BY <1>2, <1>6, <1>7, <1>8, <1>9, <2>1 DEF IsHeap
<1>11. Entering(g, p, s)
  <2>1. g.memo[s] = Unset \/ g.memo[s] = Reach(h, p[s])
    BY <1>6 DEF Entering, Linked
  <2>2. QED
    BY <1>6, <1>7, <1>10, <2>1, EnteringStep
<1>12. Settled(g, s)
  BY <1>6, <1>7 DEF Settled
<1>13. QED
  BY <1>1, <1>11, <1>12

(* Whoever asks for its namespaces is settled from then on.                *)
LEMMA GetEnters ==
    ASSUME NEW s \in Nat \ {0}, NEW h, NEW p, NEW local, Entering(h, p, s)
    PROVE  LET g == GetNamespaces(h, p, s, local) IN Entering(g, p, s) /\ Settled(g, s)
<1>1. CASE h.own[s] # 0
  BY <1>1 DEF GetNamespaces, Settled
<1>2. CASE h.own[s] = 0
  <2>1. PICK m : m = Memoize(h, p, s)
    OBVIOUS
  <2>2. Entering(m, p, s) /\ m.memo[s] \in 0..Len(m.scopes) /\ m.own = h.own
    BY <2>1, MemoizeEnters
  <2>3. CASE local \/ m.memo[s] = 0
    BY <1>2, <2>1, <2>2, <2>3, OwnEnters DEF GetNamespaces, OwnIfNeeded
  <2>4. CASE ~(local \/ m.memo[s] = 0)
    <3>1. Settled(m, s)
      <4>1. m.memo[s] \in Nat
        BY <2>2, ListedLen DEF Entering, IsHeap
      <4>2. QED
        BY <2>4, <4>1 DEF Settled, Unset
    <3>2. QED
      BY <1>2, <2>1, <2>2, <2>4, <3>1 DEF GetNamespaces, OwnIfNeeded
  <2>5. QED
    BY <2>3, <2>4
<1>3. QED
  BY <1>1, <1>2

(* And asking again, not locally, changes nothing.                         *)
LEMMA GetSettled ==
    ASSUME NEW h, NEW p, NEW s, Settled(h, s)
    PROVE  GetNamespaces(h, p, s, FALSE) = h
BY DEF GetNamespaces, Settled, OwnIfNeeded, Memoize

-----------------------------------------------------------------------------
(* The namespace found for a uri is one of that uri, or none.              *)
Up(n, rest) == <<n>> \o rest
Climbs(parents, m, f) == f = [n \in 0..m |-> IF n = 0 THEN <<>> ELSE Up(n, f[parents[n]])]

LEMMA UpTypes ==
    ASSUME NEW N \in Nat, NEW n \in 1..N, NEW rest \in Seq(1..N)
    PROVE  Up(n, rest) \in Seq(1..N)
BY DEF Up

LEMMA ClimbsExists ==
    ASSUME NEW parents, NEW N \in Nat, \A n \in 1..N : parents[n] \in 0..n - 1
    PROVE  \E f : Climbs(parents, N, f)
<1> DEFINE T == {m \in Nat : m <= N => \E f : Climbs(parents, m, f)}
<1>1. 0 \in T
  <2>1. Climbs(parents, 0, [n \in 0..0 |-> <<>>])
    BY DEF Climbs
  <2>2. QED
    BY <2>1
<1>2. ASSUME NEW m \in Nat, m \in T
      PROVE  m + 1 \in T
  <2>1. SUFFICES ASSUME m + 1 <= N
                 PROVE  \E f : Climbs(parents, m + 1, f)
    OBVIOUS
  <2>2. PICK f : Climbs(parents, m, f)
    BY <1>2, <2>1
  <2> DEFINE g == [n \in 0..m + 1 |-> IF n = m + 1 THEN Up(n, f[parents[n]]) ELSE f[n]]
             k == [n \in 0..m + 1 |-> IF n = 0 THEN <<>> ELSE Up(n, g[parents[n]])]
  <2>3. ASSUME NEW n \in 0..m + 1
        PROVE  g[n] = k[n]
    <3>1. CASE n = 0
      BY <2>2, <3>1 DEF Climbs
    <3>2. CASE n # 0
      <4>1. parents[n] \in 0..n - 1
        BY <2>1, <3>2
      <4>2. g[parents[n]] = f[parents[n]]
        BY <4>1
      <4>3. g[n] = Up(n, f[parents[n]])
        <5>1. CASE n = m + 1
          BY <5>1
        <5>2. CASE n # m + 1
          <6>1. n \in 0..m /\ g[n] = f[n]
            BY <5>2
          <6>2. f[n] = Up(n, f[parents[n]])
            BY <2>2, <3>2, <6>1 DEF Climbs
          <6>3. QED
            BY <6>1, <6>2
        <5>3. QED
          BY <5>1, <5>2
      <4>4. QED
        BY <3>2, <4>2, <4>3
    <3>3. QED
      BY <3>1, <3>2
  <2>4. g = k
    BY <2>3
  <2>5. Climbs(parents, m + 1, g)
    BY <2>4 DEF Climbs
  <2>6. QED
    BY <2>5
<1>3. \A m \in Nat : m \in T
  <2> HIDE DEF T
  <2> QED
    BY <1>1, <1>2, I!Induction
<1>4. QED
  BY <1>3

LEMMA UpwardsTypes ==
    ASSUME NEW parents, NEW N \in Nat, Len(parents) = N,
           \A n \in 1..N : parents[n] \in 0..n - 1, NEW k \in 0..N
    PROVE  Upwards(parents, k) \in Seq(1..N)
<1>1. PICK f : f = (CHOOSE g : Climbs(parents, N, g))
  OBVIOUS
<1>2. Climbs(parents, N, f)
  BY <1>1, ClimbsExists
<1>3. Upwards(parents, k) = f[k]
  BY <1>1 DEF Upwards, Climbs, Up
<1>9. PICK S : S = Seq(1..N)
  OBVIOUS
<1> DEFINE T == {m \in Nat : m <= N => \A n \in 0..m : f[n] \in S}
<1>4. 0 \in T
  <2>1. f[0] \in S
    BY <1>2, <1>9 DEF Climbs
  <2>2. QED
    BY <2>1
<1>5. ASSUME NEW m \in Nat, m \in T
      PROVE  m + 1 \in T
  <2>1. SUFFICES ASSUME m + 1 <= N
                 PROVE  \A n \in 0..m + 1 : f[n] \in S
    OBVIOUS
  <2>2. \A n \in 0..m : f[n] \in S
    BY <1>5, <2>1
  <2>3. PICK j \in 1..N : j = m + 1
    BY <2>1
  <2>4. parents[j] \in 0..m
    BY <2>3
  <2>5. f[j] = Up(j, f[parents[j]])
    BY <1>2 DEF Climbs
  <2>6. f[j] \in S
    BY <1>9, <2>2, <2>4, <2>5, UpTypes
  <2>7. QED
    BY <2>2, <2>3, <2>6
<1>6. \A m \in Nat : m \in T
  <2> HIDE DEF T
  <2> QED
    BY <1>4, <1>5, I!Induction
<1>7. f[k] \in S
  <2>1. N \in T /\ k \in 0..N
    BY <1>6
  <2>2. QED
    BY <2>1
<1>8. QED
  BY <1>3, <1>7, <1>9

LEMMA ByUriKeyed ==
    ASSUME NEW h, NEW n \in Nat, IsHeap(h, n), NEW k \in 0..Len(h.scopes), NEW uri
    PROVE  ByUri(h, k, uri) = Anonymous \/ ByUri(h, k, uri).uri = uri
<1>1. PICK N \in Nat : N = Len(h.scopes) /\ DOMAIN h.scopes = 1..N
  BY ListedLen DEF IsHeap
<1>2. PICK parents : parents = Field(h, "parent")
  OBVIOUS
<1>3. /\ parents \in Seq(Nat) /\ Len(parents) = N
      /\ \A i \in 1..N : parents[i] \in 0..i - 1
  <2>1. \A i \in 1..N : h.scopes[i].parent \in 0..i - 1
    BY <1>1 DEF IsHeap, IsScope
  <2>2. parents = [i \in 1..N |-> h.scopes[i].parent]
    BY <1>1, <1>2 DEF Field
  <2>3. parents \in [1..N -> Nat]
    BY <2>1, <2>2
  <2>4. QED
    BY <2>1, <2>2, <2>3
<1>4. PICK chain : chain = Chain(h, k)
  OBVIOUS
<1>5. chain \in Seq(1..N)
  BY <1>1, <1>2, <1>3, <1>4, UpwardsTypes DEF Chain
<1>6. PICK maps : maps = Maps(h, chain, "uris")
  OBVIOUS
<1>7. /\ DOMAIN maps = DOMAIN chain
      /\ \A i \in DOMAIN chain : maps[i] = h.scopes[chain[i]].uris /\ chain[i] \in 1..N
  BY <1>1, <1>5, <1>6 DEF Maps, Field
<1>8. PICK hits : hits = {i \in DOMAIN maps : uri \in DOMAIN maps[i]}
  OBVIOUS
<1>9. ByUri(h, k, uri) = IF hits = {} THEN Anonymous ELSE maps[Min(hits)][uri]
  BY <1>4, <1>6, <1>8 DEF ByUri, Closest
<1>10. CASE hits # {}
  <2>1. hits \in SUBSET Nat
    BY <1>5, <1>7, <1>8
  <2>2. \E i \in hits : \A j \in hits : i <= j
    BY <1>10, <2>1, I!Least
  <2>3. Min(hits) \in hits
    BY <2>2 DEF Min
  <2>4. PICK i \in DOMAIN maps : i = Min(hits) /\ uri \in DOMAIN maps[i]
    BY <1>8, <2>3
  <2>5. Keyed(h.scopes[chain[i]])
    BY <1>1, <1>7 DEF IsHeap, IsScope
  <2>6. maps[i][uri].uri = uri
    BY <1>7, <2>4, <2>5 DEF Keyed
  <2>7. QED
    BY <1>9, <1>10, <2>4, <2>6
<1>11. QED
  BY <1>9, <1>10

(* What is found depends on the uris and the chain of scopes only.         *)
LEMMA SameFields ==
    ASSUME NEW h, NEW g, Field(g, "uris") = Field(h, "uris"), Field(g, "parent") = Field(h, "parent")
    PROVE  \A k, uri : ByUri(g, k, uri) = ByUri(h, k, uri)
BY DEF ByUri, Maps, Chain

LEMMA ParentsSame ==
    ASSUME NEW h, NEW g, NEW n \in Nat, IsHeap(h, n), Rescoped(h, g)
    PROVE  Field(g, "parent") = Field(h, "parent")
<1>1. DOMAIN g.scopes = DOMAIN h.scopes
  BY ListedLen DEF IsHeap, Rescoped
<1>2. \A k \in DOMAIN h.scopes : g.scopes[k].parent = h.scopes[k].parent
  BY DEF Rescoped
<1>3. QED
  BY <1>1, <1>2 DEF Field

-----------------------------------------------------------------------------
(* Namespaces are resolved and used, by the serializer that is entered ... *)
Enters(h, p, s) == Entering(h, p, s) /\ Settled(h, s)

LEMMA LogEnters ==
    ASSUME NEW s \in Nat \ {0}, NEW h, NEW p, Entering(h, p, s),
           NEW ns, NEW wellknown, NEW local
    PROVE  Enters(LogNamespace(h, p, s, ns, wellknown, local), p, s)
<1>1. PICK g : g = GetNamespaces(h, p, s, local)
  OBVIOUS
<1>2. Enters(g, p, s)
  BY <1>1, GetEnters DEF Enters
<1>3. PICK f : f = LogInScope(g, ScopeOf(g, s), ns, wellknown, local)
  OBVIOUS
<1>4. Rescoped(g, f)
  BY <1>2, <1>3, LogInScopeRescopes DEF Enters, Entering
<1>5. Enters(f, p, s)
  BY <1>2, <1>4, RescopedEnters DEF Enters
<1>6. QED
  BY <1>1, <1>3, <1>5 DEF LogNamespace, LogFor

LEMMA EnsureEnters ==
    ASSUME NEW s \in Nat \ {0}, NEW h, NEW p, Entering(h, p, s), NEW k, NEW prefix, NEW uri
    PROVE  Enters(Ensure(h, p, s, k, prefix, uri), p, s)
<1>1. \E ns, wellknown, local : Ensure(h, p, s, k, prefix, uri) = LogNamespace(h, p, s, ns, wellknown, local)
  BY Zenon DEF Ensure
<1>2. QED
  BY <1>1, LogEnters

(* What the resolution of a uri gives: a heap, and a namespace the scope   *)
(* has from then on.                                                       *)
Has(h, s, ns) ==
    ns = Anonymous \/ (ns.uri # NoUri /\ Registered(h, ScopeOf(h, s), ns.uri))

LEMMA ScopeInRange ==
    ASSUME NEW h, NEW n \in Nat, NEW s \in 1..n, IsHeap(h, n), Settled(h, s)
    PROVE  ScopeOf(h, s) \in 0..Len(h.scopes)
BY DEF IsHeap, Settled, ScopeOf

LEMMA ResolveKnownIs ==
    ASSUME NEW h, NEW n \in Nat, NEW s \in 1..n, IsHeap(h, n), Settled(h, s),
           NEW k, NEW ns, NEW uri, uri # NoUri
    PROVE  LET r == ResolveKnown(h, k, s, ns, uri) IN Rescoped(h, r.heap) /\ Has(r.heap, s, r.ns)
<1>1. PICK r : r = ResolveKnown(h, k, s, ns, uri)
  OBVIOUS
<1>2. PICK at : at = ScopeOf(h, s)
  OBVIOUS
<1>3. /\ r.ns = ByUri(h, at, uri)
      /\ r.heap = h \/ r.heap = MapPrefix(h, k, ns.prefix, uri)
  BY <1>1, <1>2 DEF ResolveKnown, Resolution
<1>4. Rescoped(h, r.heap) /\ Field(r.heap, "uris") = Field(h, "uris")
  BY <1>3, MapPrefixRescopes, RescopedSelf
<1>5. ScopeOf(r.heap, s) = at
  BY <1>2, <1>4 DEF ScopeOf, Rescoped
<1>6. Has(r.heap, s, r.ns)
  <2>1. at \in 0..Len(h.scopes)
    BY <1>2, ScopeInRange
  <2>2. r.ns = Anonymous \/ r.ns.uri = uri
    BY <1>3, <2>1, ByUriKeyed
  <2>3. ByUri(r.heap, at, uri) = r.ns
    BY <1>3, <1>4, SameFields, ParentsSame
  <2>4. QED
    BY <1>5, <2>2, <2>3 DEF Has, Registered
<1>7. QED
  BY <1>1, <1>4, <1>6

LEMMA ResolveEnters ==
    ASSUME NEW s \in Nat \ {0}, NEW h, NEW p, Enters(h, p, s), NEW ns
    PROVE  LET r == Resolve(h, p, s, ns) IN Enters(r.heap, p, s) /\ Has(r.heap, s, r.ns)
<1>1. PICK r : r = Resolve(h, p, s, ns)
  OBVIOUS
<1>2. CASE r.heap = h /\ r.ns = Anonymous
  BY <1>1, <1>2 DEF Has
<1>3. CASE ~(r.heap = h /\ r.ns = Anonymous)
  <2>1. PICK k : k = ScopeOf(h, s)
    OBVIOUS
  <2>2. PICK uri : uri = UriOf(h, k, ns)
    OBVIOUS
  <2>3. r = ResolveUri(h, p, s, k, ns, uri)
    BY <1>1, <1>3, <2>1, <2>2 DEF Resolve
  <2>4. uri # NoUri
    BY <1>3, <2>3 DEF ResolveUri
  <2>5. PICK g : g = IF Registered(h, k, uri) THEN h ELSE Ensure(h, p, s, k, ns.prefix, uri)
    OBVIOUS
  <2>6. r = ResolveKnown(g, k, s, ns, uri)
    BY <2>3, <2>4, <2>5 DEF ResolveUri
  <2>7. Enters(g, p, s)
    BY <2>5, EnsureEnters DEF Enters
  <2>8. Rescoped(g, r.heap) /\ Has(r.heap, s, r.ns)
    <3>1. IsHeap(g, s) /\ Settled(g, s)
      BY <2>7 DEF Enters, Entering
    <3>2. s \in Nat /\ s \in 1..s
      OBVIOUS
    <3>3. QED
      BY <2>4, <2>6, <3>1, <3>2, ResolveKnownIs
  <2>9. Enters(r.heap, p, s)
    BY <2>7, <2>8, RescopedEnters DEF Enters
  <2>10. QED
    BY <1>1, <2>8, <2>9
<1>4. QED
  BY <1>2, <1>3

LEMMA LogNamespaceUsedEnters ==
    ASSUME NEW s \in Nat \ {0}, NEW h, NEW p, Entering(h, p, s), NEW ns, NEW local
    PROVE  LET r == LogNamespaceUsed(h, p, s, ns, local) IN
           Enters(r.heap, p, s) /\ Has(r.heap, s, r.ns)
BY GetEnters, ResolveEnters DEF LogNamespaceUsed, Enters

LEMMA LogUsedEnters ==
    ASSUME NEW s \in Nat \ {0}, NEW h, NEW p, Enters(h, p, s), NEW ns
    PROVE  Enters(LogUsedBy(h, s, ns), p, s)
<1>1. Rescoped(h, LogUsedBy(h, s, ns))
  BY LogUsedRescopes DEF LogUsedBy, Enters, Entering
<1>2. QED
  BY <1>1, RescopedEnters DEF Enters

LEMMA ResolutionIs ==
    ASSUME NEW h, NEW p, NEW s, NEW ns, NEW local
    PROVE  DOMAIN LogNamespaceUsed(h, p, s, ns, local) = {"ok", "heap", "ns"}
BY DEF LogNamespaceUsed, Resolve, ResolveUri, ResolveKnown, Resolution

LEMMA UseIs ==
    ASSUME NEW h, NEW p, NEW s, NEW ns
    PROVE  LET r == LogNamespaceUsed(h, p, s, ns, FALSE)
               u == Use(h, p, s, ns) IN
           /\ u.ns = r.ns /\ u.ok = r.ok
           /\ u.heap = IF r.ok THEN LogUsedBy(GetNamespaces(r.heap, p, s, FALSE), s, r.ns) ELSE r.heap
<1>1. PICK r : r = LogNamespaceUsed(h, p, s, ns, FALSE)
  OBVIOUS
<1>2. DOMAIN r = {"ok", "heap", "ns"}
  BY <1>1, ResolutionIs
<1>3. Use(h, p, s, ns) = Used(r, p, s)
  BY <1>1 DEF Use
<1>4. QED
  BY <1>1, <1>2, <1>3 DEF Used

LEMMA UseEnters ==
    ASSUME NEW s \in Nat \ {0}, NEW h, NEW p, Entering(h, p, s), NEW ns
    PROVE  Enters(Use(h, p, s, ns).heap, p, s)
<1>1. PICK r : r = LogNamespaceUsed(h, p, s, ns, FALSE)
  OBVIOUS
<1>2. Enters(r.heap, p, s)
  BY <1>1, LogNamespaceUsedEnters
<1>3. GetNamespaces(r.heap, p, s, FALSE) = r.heap
  BY <1>2, GetSettled DEF Enters
<1>4. Enters(LogUsedBy(r.heap, s, r.ns), p, s)
  BY <1>2, LogUsedEnters
<1>5. QED
  BY <1>1, <1>2, <1>3, <1>4, UseIs

(* ... and by one that is settled, with a prefix or for a uri it knows.    *)
Calm(h, s, ns) == ns.prefix # NoPrefix \/ Has(h, s, ns)

LEMMA EnsureSettled ==
    ASSUME NEW h, NEW n \in Nat, NEW s \in 1..n, NEW p, IsHeap(h, n), Settled(h, s),
           NEW k, NEW prefix, NEW uri, prefix # NoPrefix
    PROVE  Rescoped(h, Ensure(h, p, s, k, prefix, uri))
<1>1. PICK ns : ns = Ns(Deconflicted(h, k, prefix), uri)
  OBVIOUS
<1>2. PICK wellknown : wellknown = (prefix \in DOMAIN Default /\ Default[prefix] = uri)
  OBVIOUS
<1>3. Ensure(h, p, s, k, prefix, uri) = LogNamespace(h, p, s, ns, wellknown, FALSE)
  BY <1>1, <1>2 DEF Ensure
<1>4. GetNamespaces(h, p, s, FALSE) = h
  BY GetSettled
<1>5. Ensure(h, p, s, k, prefix, uri) = LogInScope(h, ScopeOf(h, s), ns, wellknown, FALSE)
  BY <1>3, <1>4 DEF LogNamespace, LogFor
<1>6. QED
  BY <1>5, LogInScopeRescopes

LEMMA ResolveSettled ==
    ASSUME NEW h, NEW n \in Nat, NEW s \in 1..n, NEW p, IsHeap(h, n), Settled(h, s),
           NEW ns, Calm(h, s, ns)
    PROVE  LET r == Resolve(h, p, s, ns) IN Rescoped(h, r.heap) /\ Has(r.heap, s, r.ns)
<1>1. PICK r : r = Resolve(h, p, s, ns)
  OBVIOUS
<1>2. CASE r.heap = h /\ r.ns = Anonymous
  BY <1>1, <1>2, RescopedSelf DEF Has
<1>3. CASE ~(r.heap = h /\ r.ns = Anonymous)
  <2>1. PICK k : k = ScopeOf(h, s)
    OBVIOUS
  <2>2. PICK uri : uri = UriOf(h, k, ns)
    OBVIOUS
  <2>3. r = ResolveUri(h, p, s, k, ns, uri) /\ ns # Anonymous
    BY <1>1, <1>3, <2>1, <2>2 DEF Resolve
  <2>4. uri # NoUri
    BY <1>3, <2>3 DEF ResolveUri
  <2>5. PICK g : g = IF Registered(h, k, uri) THEN h ELSE Ensure(h, p, s, k, ns.prefix, uri)
    OBVIOUS
  <2>6. r = ResolveKnown(g, k, s, ns, uri)
    BY <2>3, <2>4, <2>5 DEF ResolveUri
  <2>7. Rescoped(h, g)
    <3>1. CASE ns.prefix # NoPrefix
      BY <2>5, <3>1, EnsureSettled, RescopedSelf
    <3>2. CASE ns.prefix = NoPrefix
      <4>1. ns.uri # NoUri /\ Registered(h, k, ns.uri)
        BY <2>1, <2>3, <3>2 DEF Calm, Has
      <4>2. uri = ns.uri
        BY <2>2, <4>1 DEF UriOf
      <4>3. QED
        BY <2>5, <4>1, <4>2, RescopedSelf
    <3>3. QED
      BY <3>1, <3>2
  <2>8. IsHeap(g, n) /\ Settled(g, s)
    BY <2>7, RescopedHeap DEF Settled, Rescoped
  <2>9. Rescoped(g, r.heap) /\ Has(r.heap, s, r.ns)
    BY <2>4, <2>6, <2>8, ResolveKnownIs
  <2>10. QED
    BY <1>1, <2>7, <2>9, RescopedTwice
<1>4. QED
  BY <1>2, <1>3

LEMMA LogNamespaceUsedSettled ==
    ASSUME NEW h, NEW n \in Nat, NEW s \in 1..n, NEW p, IsHeap(h, n), Settled(h, s),
           NEW ns, Calm(h, s, ns)
    PROVE  LET r == LogNamespaceUsed(h, p, s, ns, FALSE) IN
           /\ Rescoped(h, r.heap) /\ IsHeap(r.heap, n) /\ Settled(r.heap, s) /\ Has(r.heap, s, r.ns)
<1>1. PICK r : r = LogNamespaceUsed(h, p, s, ns, FALSE)
  OBVIOUS
<1>2. r = Resolve(h, p, s, ns)
  BY <1>1, GetSettled DEF LogNamespaceUsed
<1>3. Rescoped(h, r.heap) /\ Has(r.heap, s, r.ns)
  BY <1>2, ResolveSettled
<1>4. IsHeap(r.heap, n) /\ Settled(r.heap, s)
  BY <1>3, RescopedHeap DEF Settled, Rescoped
<1>5. QED
  BY <1>1, <1>3, <1>4

LEMMA UseSettled ==
    ASSUME NEW h, NEW n \in Nat, NEW s \in 1..n, NEW p, IsHeap(h, n), Settled(h, s),
           NEW ns, Calm(h, s, ns)
    PROVE  LET g == Use(h, p, s, ns).heap IN Rescoped(h, g) /\ IsHeap(g, n) /\ Settled(g, s)
<1>1. PICK r : r = LogNamespaceUsed(h, p, s, ns, FALSE)
  OBVIOUS
<1>2. Rescoped(h, r.heap) /\ IsHeap(r.heap, n) /\ Settled(r.heap, s)
  BY <1>1, LogNamespaceUsedSettled
<1>3. PICK g : g = Use(h, p, s, ns).heap
  OBVIOUS
<1>4. g = IF r.ok THEN LogUsedBy(r.heap, s, r.ns) ELSE r.heap
  <2>1. GetNamespaces(r.heap, p, s, FALSE) = r.heap
    BY <1>2, GetSettled
  <2>2. QED
    BY <1>1, <1>3, <2>1, UseIs
<1>5. Rescoped(r.heap, g)
  BY <1>2, <1>4, LogUsedRescopes, RescopedSelf DEF LogUsedBy
<1>6. Rescoped(h, g)
  BY <1>2, <1>5, RescopedTwice
<1>7. QED
  BY <1>3, <1>6, RescopedHeap DEF Settled, Rescoped

-----------------------------------------------------------------------------
(* Attributes: distinct ones, to which sources are added.  own: the        *)
(* namespace of the element, whose attributes lose their prefix.           *)
Distinct(attrs) ==
    \A i, j \in DOMAIN attrs : SameAttribute(attrs[i], attrs[j]) => i = j
Fits(uri, own, x) == IF uri = NoUri THEN x \in {NoUri, own} ELSE x = uri
Sourced(own, b) ==
    /\ "from" \in DOMAIN b /\ Listed(b.from) /\ b.from # <<>>
    /\ \A i \in DOMAIN b.from : Fits(b.uri, own, b.from[i].uri)
Sound(own, attrs) == \A i \in DOMAIN attrs : Sourced(own, attrs[i])
Carries(b, a) == \E j \in DOMAIN b.from : b.from[j].prefix = a.prefix /\ b.from[j].name = a.name
Holding(attrs, a) == \E i \in DOMAIN attrs : Carries(attrs[i], a)

(* A value written over another.                                           *)
LEMMA OverKeeps ==
    ASSUME NEW own, NEW b, Sourced(own, b), NEW f, NEW a, "from" \in DOMAIN a, a.from = <<f>>,
           SameAttribute(a, b), Fits(a.uri, own, f.uri)
    PROVE  LET o == Over(b, a) IN
           /\ Sourced(own, o) /\ Carries(o, f) /\ \A x : Carries(b, x) => Carries(o, x)
           /\ o.name = a.name /\ o.uri = a.uri /\ o.prefix = a.prefix
<1>1. PICK s : s = b.from
  OBVIOUS
<1>2. PICK t : t = s \o <<f>>
  OBVIOUS
<1>3. PICK o : o = Over(b, a)
  OBVIOUS
<1>4. /\ DOMAIN o = DOMAIN a /\ o.from = t
      /\ o.name = a.name /\ o.uri = a.uri /\ o.prefix = a.prefix
  BY <1>1, <1>2, <1>3 DEF Over
<1>5. PICK n \in Nat : n = Len(s) /\ DOMAIN s = 1..n
  BY <1>1, ListedLen DEF Sourced
<1>6. t = Append(s, f)
  BY <1>1, <1>2 DEF Sourced, Listed
<1>7. Listed(t) /\ DOMAIN t = 1..n + 1 /\ t[n + 1] = f /\ \A i \in 1..n : t[i] = s[i]
  BY <1>1, <1>5, <1>6, ListedAppend DEF Sourced
<1>8. t # <<>>
  BY <1>7
<1>9. \A i \in 1..n + 1 : Fits(o.uri, own, t[i].uri)
  BY <1>1, <1>4, <1>5, <1>7 DEF Sourced, SameAttribute
<1>10. Sourced(own, o)
  BY <1>4, <1>7, <1>8, <1>9 DEF Sourced
<1>11. n + 1 \in DOMAIN t /\ \A i \in 1..n : i \in DOMAIN t
  BY <1>7
<1>12. Carries(o, f) /\ \A x : Carries(b, x) => Carries(o, x)
  BY <1>1, <1>4, <1>5, <1>7, <1>11 DEF Carries
<1>13. QED
  BY <1>3, <1>4, <1>10, <1>12

LEMMA AddAttributeKeeps ==
    ASSUME NEW attrs, Listed(attrs), Distinct(attrs), NEW own, Sound(own, attrs),
           NEW f, NEW a, "from" \in DOMAIN a, a.from = <<f>>, Fits(a.uri, own, f.uri)
    PROVE  LET t == AddAttribute(attrs, a) IN
           /\ Listed(t) /\ Distinct(t) /\ Sound(own, t) /\ Holding(t, f)
           /\ \A x : Holding(attrs, x) => Holding(t, x)
<1>1. PICK t : t = AddAttribute(attrs, a)
  OBVIOUS
<1>2. PICK n \in Nat : n = Len(attrs) /\ DOMAIN attrs = 1..n
  BY ListedLen
<1>3. PICK same : same = {i \in 1..n : SameAttribute(a, attrs[i])}
  OBVIOUS
<1>4. PICK at : at = IF same = {} THEN 0 ELSE Min(same)
  OBVIOUS
<1>5. t = IF at = 0 THEN Append(attrs, a) ELSE [attrs EXCEPT ![at] = Over(attrs[at], a)]
  BY <1>1, <1>2, <1>3, <1>4 DEF AddAttribute, SelectInSeq
<1>6. CASE same = {}
  <2>1. t = Append(attrs, a)
    BY <1>4, <1>5, <1>6
  <2>2. /\ Listed(t) /\ DOMAIN t = 1..n + 1 /\ t[n + 1] = a
        /\ \A i \in 1..n : t[i] = attrs[i]
    BY <1>2, <2>1, ListedAppend
  <2>3. \A i \in 1..n : ~SameAttribute(t[i], t[n + 1]) /\ ~SameAttribute(t[n + 1], t[i])
    BY <1>3, <1>6, <2>2 DEF SameAttribute
  <2>4. Distinct(t)
    BY <1>2, <2>2, <2>3 DEF Distinct
  <2>5. Sourced(own, a) /\ Carries(a, f)
    <3>1. PICK s : s = <<f>>
      OBVIOUS
    <3>2. s \in Seq({f}) /\ s # <<>> /\ DOMAIN s = {1} /\ s[1] = f
      BY <3>1
    <3>3. QED
      BY <3>1, <3>2 DEF Sourced, Carries, Listed
  <2>6. Sound(own, t)
    BY <1>2, <2>2, <2>5 DEF Sound
  <2>7. Holding(t, f) /\ \A x : Holding(attrs, x) => Holding(t, x)
    BY <1>2, <2>2, <2>5 DEF Holding
  <2>8. QED
    BY <1>1, <2>2, <2>4, <2>6, <2>7
<1>7. CASE same # {}
  <2>1. at \in same
    <3>1. same \in SUBSET Nat
      BY <1>3
    <3>2. \E i \in same : \A j \in same : i <= j
      BY <1>7, <3>1, I!Least
    <3>3. QED
      BY <1>4, <1>7, <3>2 DEF Min
  <2> DEFINE b == attrs[at]
             o == Over(b, a)
  <2>2. at \in 1..n /\ SameAttribute(a, b) /\ t = [attrs EXCEPT ![at] = o]
    BY <1>3, <1>5, <2>1
  <2>10. Sourced(own, b)
    BY <1>2, <2>2 DEF Sound
  <2>11. /\ Sourced(own, o) /\ Carries(o, f) /\ \A x : Carries(b, x) => Carries(o, x)
         /\ o.name = a.name /\ o.uri = a.uri /\ o.prefix = a.prefix
    <3> HIDE DEF b
    <3> QED
      BY <2>2, <2>10, OverKeeps
  <2> HIDE DEF o
  <2>3. /\ Listed(t) /\ DOMAIN t = 1..n
        /\ \A i \in 1..n : t[i] = IF i = at THEN o ELSE attrs[i]
    BY <1>2, <2>2, ListedExcept
  <2>4. \A i \in 1..n : \A x : SameAttribute(t[i], x) <=> SameAttribute(attrs[i], x)
    BY <2>2, <2>3, <2>11 DEF SameAttribute
  <2>5. \A i \in 1..n : \A x : SameAttribute(x, t[i]) <=> SameAttribute(x, attrs[i])
    BY <2>2, <2>3, <2>11 DEF SameAttribute
  <2>6. Distinct(t)
    BY <1>2, <2>3, <2>4, <2>5 DEF Distinct
  <2>7. Sound(own, t)
    BY <1>2, <2>2, <2>3, <2>11 DEF Sound
  <2>8. Holding(t, f) /\ \A x : Holding(attrs, x) => Holding(t, x)
    BY <1>2, <2>2, <2>3, <2>11 DEF Holding
  <2>9. QED
    BY <1>1, <2>3, <2>6, <2>7, <2>8
<1>8. QED
  BY <1>6, <1>7

(* The work of a serializer: attributes written, others still to come.     *)
WorkKeys == {"ok", "heap", "s", "parents", "tag", "type", "attrs", "others"}
IsWork(w) ==
    /\ DOMAIN w = WorkKeys /\ Listed(w.others)
    /\ Listed(w.attrs) /\ Distinct(w.attrs) /\ Sound(OwnUri(w), w.attrs)

Grown(w, v) ==
    /\ IsWork(v) /\ v.s = w.s /\ v.parents = w.parents /\ v.others = w.others
    /\ v.tag = w.tag /\ v.type = w.type
    /\ \A x : Holding(w.attrs, x) => Holding(v.attrs, x)

(* The heap a work is on may change under it.                              *)
LEMMA Reheaped ==
    ASSUME NEW w, IsWork(w), NEW h
    PROVE  LET v == [w EXCEPT !.heap = h] IN
           IsWork(v) /\ v.heap = h /\ v.s = w.s /\ v.others = w.others /\ v.attrs = w.attrs
<1>1. PICK v : v = [w EXCEPT !.heap = h]
  OBVIOUS
<1>2. /\ DOMAIN v = WorkKeys /\ v.heap = h /\ v.s = w.s /\ v.others = w.others /\ v.attrs = w.attrs
      /\ v.tag = w.tag /\ v.type = w.type
  BY <1>1 DEF IsWork, WorkKeys
<1>3. OwnUri(v) = OwnUri(w)
  BY <1>2 DEF OwnUri
<1>4. IsWork(v)
  BY <1>2, <1>3 DEF IsWork
<1>5. QED
  BY <1>1, <1>2, <1>4

LEMMA WriteAttributeGrows ==
    ASSUME NEW w, IsWork(w), NEW prefix, NEW name, NEW inherited, NEW qname
    PROVE  LET v == WriteAttribute(w, prefix, name, inherited, qname) IN
           /\ Grown(w, v)
           /\ v.ok => w.ok /\ \A x : x.prefix = prefix /\ x.name = name => Holding(v.attrs, x)
           /\ v.heap = w.heap \/ v.heap = Use(w.heap, w.parents, w.s, Ns(prefix, NoUri)).heap
<1>1. PICK v : v = WriteAttribute(w, prefix, name, inherited, qname)
  OBVIOUS
<1>2. PICK r : r = Use(w.heap, w.parents, w.s, Ns(prefix, NoUri))
  OBVIOUS
<1>3. CASE v = w /\ ~w.ok
  BY <1>1, <1>3 DEF Grown, IsWork
<1>4. CASE v = [w EXCEPT !.ok = FALSE]
  BY <1>1, <1>4 DEF Grown, IsWork, WorkKeys, OwnUri
<1>5. ASSUME w.ok, NEW uri, NEW a, "from" \in DOMAIN a, a.from = <<Source(prefix, name, uri)>>,
             Fits(a.uri, OwnUri(w), uri), NEW g, g = w.heap \/ g = r.heap,
             v = [w EXCEPT !.heap = g, !.attrs = AddAttribute(w.attrs, a)]
      PROVE  /\ Grown(w, v)
             /\ v.ok => w.ok /\ \A x : x.prefix = prefix /\ x.name = name => Holding(v.attrs, x)
             /\ v.heap = w.heap \/ v.heap = r.heap
  <2>1. PICK t : t = AddAttribute(w.attrs, a)
    OBVIOUS
  <2>2. PICK own : own = OwnUri(w)
    OBVIOUS
  <2>3. PICK f : f = Source(prefix, name, uri)
    OBVIOUS
  <2>4. f.prefix = prefix /\ f.name = name /\ f.uri = uri
    BY <2>3 DEF Source
  <2>5. /\ Listed(t) /\ Distinct(t) /\ Sound(own, t) /\ Holding(t, f)
        /\ \A x : Holding(w.attrs, x) => Holding(t, x)
    BY <1>5, <2>1, <2>2, <2>3, <2>4, AddAttributeKeeps DEF IsWork
  <2>6. /\ DOMAIN v = WorkKeys /\ v.attrs = t /\ v.heap = g /\ v.tag = w.tag /\ v.type = w.type
        /\ v.s = w.s /\ v.parents = w.parents /\ v.others = w.others /\ v.ok = w.ok
    BY <1>5, <2>1 DEF IsWork, WorkKeys
  <2>7. OwnUri(v) = own
    BY <2>2, <2>6 DEF OwnUri
  <2>8. \A x : x.prefix = prefix /\ x.name = name => Holding(t, x)
    BY <2>4, <2>5 DEF Holding, Carries
  <2>9. QED
    BY <1>5, <2>5, <2>6, <2>7, <2>8 DEF Grown, IsWork
<1>6. CASE w.ok /\ inherited
  <2>1. PICK a : a = Attribute(Anonymous, name, qname, Source(prefix, name, NoUri))
    OBVIOUS
  <2>2. "from" \in DOMAIN a /\ a.from = <<Source(prefix, name, NoUri)>> /\ Fits(a.uri, OwnUri(w), NoUri)
    BY <2>1 DEF Attribute, Anonymous, Ns, Fits
  <2>3. v = [w EXCEPT !.attrs = AddAttribute(w.attrs, a)]
    BY <1>1, <1>6, <2>1 DEF WriteAttribute
  <2>4. v = [w EXCEPT !.heap = w.heap, !.attrs = AddAttribute(w.attrs, a)]
    BY <2>3 DEF IsWork, WorkKeys
  <2>5. QED
    BY <1>1, <1>2, <1>5, <1>6, <2>2, <2>4
<1>7. CASE w.ok /\ ~inherited /\ r.ok
  <2>1. PICK ns : ns = IF IsLocal(w, r.ns) THEN Anonymous ELSE r.ns
    OBVIOUS
  <2>2. PICK a : a = Attribute(ns, name, qname, Source(prefix, name, r.ns.uri))
    OBVIOUS
  <2>3. "from" \in DOMAIN a /\ a.from = <<Source(prefix, name, r.ns.uri)>> /\ Fits(a.uri, OwnUri(w), r.ns.uri)
    <3>1. a.uri = ns.uri
      BY <2>2 DEF Attribute
    <3>2. Fits(ns.uri, OwnUri(w), r.ns.uri)
      BY <2>1 DEF IsLocal, Anonymous, Ns, Fits
    <3>3. QED
      BY <2>2, <3>1, <3>2 DEF Attribute
  <2>4. v = Written(w, r, prefix, name, qname)
    BY <1>1, <1>2, <1>7 DEF WriteAttribute
  <2>5. v = [w EXCEPT !.heap = r.heap, !.attrs = AddAttribute(w.attrs, a)]
    BY <1>7, <2>1, <2>2, <2>4 DEF Written, IsWork, WorkKeys
  <2>6. QED
    BY <1>1, <1>2, <1>5, <1>7, <2>3, <2>5
<1>8. QED
  BY <1>1, <1>2, <1>3, <1>4, <1>6, <1>7 DEF WriteAttribute, Written

-----------------------------------------------------------------------------
(* An element is entered.  c: its serializer s, the parents p, its node.   *)
InEnter(c, w) ==
    /\ c.s \in Nat \ {0} /\ IsWork(w) /\ w.s = c.s /\ w.parents = c.p
    /\ Entering(w.heap, c.p, c.s)
InTag(c, w) == InEnter(c, w) /\ (w.ok => Settled(w.heap, c.s))

(* Before the tag is named, and before the first attribute is.             *)
InNames(c, w) == InEnter(c, w) /\ w.tag = Anonymous
InBegin(c, w) == InNames(c, w) /\ w.attrs = <<>>

P == INSTANCE Folding WITH Op <- LAMBDA c, w, a : ParseNsAttribute(w, a), Holds <- InBegin
A == INSTANCE Folding WITH Op <- LAMBDA c, w, p : WriteProperty(w, c.node, p), Holds <- InTag

LEMMA ParseNsAttributeEnters ==
    ASSUME NEW c, NEW w, NEW a, InBegin(c, w)
    PROVE  InBegin(c, ParseNsAttribute(w, a))
<1> USE DEF InBegin, InNames
<1>1. PICK v : v = ParseNsAttribute(w, a)
  OBVIOUS
<1>2. CASE ~a.declares
  <2>1. PICK z : z = Append(w.others, a)
    OBVIOUS
  <2>2. Listed(z)
    BY <2>1, ListedAppend DEF InEnter, IsWork
  <2>3. v = [w EXCEPT !.others = z]
    BY <1>1, <1>2, <2>1 DEF ParseNsAttribute
  <2>4. QED
    BY <1>1, <2>2, <2>3 DEF InEnter, IsWork, WorkKeys, OwnUri
<1>3. ASSUME NEW g, Entering(g, c.p, c.s), v = [w EXCEPT !.heap = g]
      PROVE  InBegin(c, v)
  BY <1>3 DEF InEnter, IsWork, WorkKeys, OwnUri
<1>4. CASE a.declares /\ a.uri \in Packages
  <2>1. PICK ns : ns = Ns(a.prefix, a.uri)
    OBVIOUS
  <2>2. v = [w EXCEPT !.heap = LogNamespace(w.heap, w.parents, w.s, ns, TRUE, TRUE)]
    BY <1>1, <1>4, <2>1 DEF ParseNsAttribute
  <2>3. Entering(LogNamespace(w.heap, w.parents, w.s, ns, TRUE, TRUE), c.p, c.s)
    BY LogEnters DEF InEnter, Enters
  <2>4. QED
    BY <1>1, <1>3, <2>2, <2>3
<1>5. CASE a.declares /\ a.uri \notin Packages
  <2>1. PICK r : r = LogNamespaceUsed(w.heap, w.parents, w.s, Ns(a.prefix, a.uri), TRUE)
    OBVIOUS
  <2>2. v = [w EXCEPT !.heap = LogUsedBy(r.heap, w.s, r.ns)]
    BY <1>1, <1>5, <2>1 DEF ParseNsAttribute, DeclareUsed
  <2>3. Enters(r.heap, c.p, c.s)
    BY <2>1, LogNamespaceUsedEnters DEF InEnter
  <2>4. Entering(LogUsedBy(r.heap, w.s, r.ns), c.p, c.s)
    BY <2>3, LogUsedEnters DEF InEnter, Enters
  <2>5. QED
    BY <1>1, <1>3, <2>2, <2>4
<1>6. QED
  BY <1>2, <1>4, <1>5

LEMMA ParseNsAttributesEnters ==
    ASSUME NEW c, NEW w, NEW node, InBegin(c, w), IsSeq(node.attrs)
    PROVE  InBegin(c, ParseNsAttributes(w, node))
<1>1. ParseNsAttributes(w, node) = P!Fold(c, w, node.attrs)
  BY Zenon DEF ParseNsAttributes, P!Fold, FoldLeft, MapThenFoldSet, Max, P!FoldLeft, P!MapThenFoldSet, P!Max
<1>2. node.attrs \in Seq(Range(node.attrs))
  BY ListedSeq
<1>3. InBegin(c, P!Fold(c, w, node.attrs))
  BY <1>2, ParseNsAttributeEnters, P!FoldKeeps
<1>4. QED
  BY <1>1, <1>3

LEMMA WriteAttributeEnters ==
    ASSUME NEW c, NEW w, InEnter(c, w), NEW prefix, NEW name, NEW inherited, NEW qname
    PROVE  LET v == WriteAttribute(w, prefix, name, inherited, qname) IN
           InEnter(c, v) /\ (InTag(c, w) => InTag(c, v)) /\ (InNames(c, w) => InNames(c, v))
<1>1. PICK v : v = WriteAttribute(w, prefix, name, inherited, qname)
  OBVIOUS
<1>2. /\ Grown(w, v) /\ (v.ok => w.ok)
      /\ v.heap = w.heap \/ v.heap = Use(w.heap, w.parents, w.s, Ns(prefix, NoUri)).heap
  BY <1>1, WriteAttributeGrows DEF InEnter
<1>3. v.heap = w.heap \/ Enters(v.heap, c.p, c.s)
  BY <1>2, UseEnters DEF InEnter
<1>4. InEnter(c, v)
  BY <1>2, <1>3 DEF InEnter, Grown, Enters
<1>5. InTag(c, w) => InTag(c, v)
  BY <1>2, <1>3, <1>4 DEF InTag, Enters
<1>6. InNames(c, w) => InNames(c, v)
  BY <1>2, <1>4 DEF InNames, Grown
<1>7. QED
  BY <1>1, <1>4, <1>5, <1>6

LEMMA WriteAttributesEnters ==
    ASSUME NEW c, NEW w, InTag(c, w), IsSeq(c.node.props)
    PROVE  InTag(c, WriteAttributes(w, c.node))
<1>1. WriteAttributes(w, c.node) = A!Fold(c, w, c.node.props)
  BY Zenon DEF WriteAttributes, A!Fold, FoldLeft, MapThenFoldSet, Max, A!FoldLeft, A!MapThenFoldSet, A!Max
<1>2. c.node.props \in Seq(Range(c.node.props))
  BY ListedSeq
<1>3. \A v, p : InTag(c, v) => InTag(c, WriteProperty(v, c.node, p))
  BY WriteAttributeEnters DEF WriteProperty, InTag
<1>4. InTag(c, A!Fold(c, w, c.node.props))
  BY <1>2, <1>3, A!FoldKeeps
<1>5. QED
  BY <1>1, <1>4

K == INSTANCE Folding WITH
        Op <- LAMBDA marker, kept, a : IF <<a.prefix, a.name>> = marker THEN kept ELSE Append(kept, a),
        Holds <- LAMBDA marker, kept : Listed(kept)

LEMMA UnmarkedEnters ==
    ASSUME NEW c, NEW w, NEW prop, InBegin(c, w)
    PROVE  InBegin(c, Unmarked(w, prop))
<1> USE DEF InBegin, InNames
<1>1. PICK others : others = w.others
  OBVIOUS
<1>2. PICK marker : marker = prop.serialize
  OBVIOUS
<1>3. PICK z : z = K!Fold(marker, <<>>, others)
  OBVIOUS
<1>4. Unmarked(w, prop) = [w EXCEPT !.others = z]
  <2>1. z = Except(others, marker)
    BY <1>3, Zenon DEF Except, K!Fold, FoldLeft, MapThenFoldSet, Max, K!FoldLeft, K!MapThenFoldSet, K!Max
  <2>2. QED
    BY <1>1, <1>2, <2>1 DEF Unmarked
<1>5. Listed(z)
  <2>1. PICK T : others \in Seq(T)
    BY <1>1 DEF InEnter, IsWork, Listed
  <2>2. \A kept, a : Listed(kept) => Listed(IF <<a.prefix, a.name>> = marker THEN kept ELSE Append(kept, a))
    BY ListedAppend
  <2>3. Listed(<<>>)
    BY ListedEmpty
  <2>4. Listed(K!Fold(marker, <<>>, others))
    BY <2>1, <2>2, <2>3, K!FoldKeeps
  <2>5. QED
    BY <1>3, <2>4
<1>6. QED
  BY <1>4, <1>5 DEF InEnter, IsWork, WorkKeys, OwnUri

LEMMA MarkEnters ==
    ASSUME NEW c, NEW w, NEW node, NEW prop, InBegin(c, w)
    PROVE  InNames(c, Mark(w, node, prop))
<1>1. PICK u : u = Unmarked(w, prop)
  OBVIOUS
<1>2. InBegin(c, u) /\ InEnter(c, u)
  BY <1>1, UnmarkedEnters DEF InBegin, InNames
<1>3. PICK r : r = Use(u.heap, u.parents, u.s, Ns(node.prefix, NoUri))
  OBVIOUS
<1>4. Enters(r.heap, c.p, c.s)
  BY <1>2, <1>3, UseEnters DEF InEnter
<1>5. InNames(c, Marked(u, r, prop))
  <2>1. CASE ~r.ok
    <3>1. Marked(u, r, prop) = [u EXCEPT !.ok = FALSE]
      BY <2>1 DEF Marked
    <3>2. QED
      BY <1>2, <3>1 DEF InBegin, InNames, InEnter, IsWork, WorkKeys, OwnUri
  <2>2. CASE r.ok
    <3>1. PICK v : v = [u EXCEPT !.heap = r.heap, !.type = r.ns]
      OBVIOUS
    <3>2. InEnter(c, v) /\ InNames(c, v)
      BY <1>2, <1>4, <3>1 DEF InBegin, InNames, InEnter, IsWork, WorkKeys, Enters, Sound
    <3>3. Marked(u, r, prop) = WriteAttribute(v, prop.serialize[1], prop.serialize[2], FALSE, r.ns)
      BY <2>2, <3>1 DEF Marked
    <3>4. QED
      BY <3>2, <3>3, WriteAttributeEnters
  <2>3. QED
    BY <2>1, <2>2
<1>6. QED
  BY <1>1, <1>2, <1>3, <1>5 DEF Mark, MarkType, MarkUnlike, InBegin

LEMMA NameTagEnters ==
    ASSUME NEW c, NEW w, NEW ns, InNames(c, w)
    PROVE  InTag(c, NameTag(w, ns))
<1> USE DEF InNames
<1>1. PICK v : v = NameTag(w, ns)
  OBVIOUS
<1>2. CASE ~w.ok
  BY <1>1, <1>2 DEF NameTag, InTag
<1>3. CASE w.ok
  <2>1. PICK r : r = LogNamespaceUsed(w.heap, w.parents, w.s, ns, FALSE)
    OBVIOUS
  <2>2. v = Tagged(w, r)
    BY <1>1, <1>3, <2>1 DEF NameTag
  <2>3. CASE ~r.ok
    <3>1. v = [w EXCEPT !.ok = FALSE]
      BY <2>2, <2>3 DEF Tagged
    <3>2. QED
      BY <1>1, <3>1 DEF InTag, InEnter, IsWork, WorkKeys, OwnUri
  <2>4. CASE r.ok
    <3>1. PICK g : g = Use(r.heap, w.parents, w.s, r.ns).heap
      OBVIOUS
    <3>2. v = [w EXCEPT !.heap = g, !.tag = r.ns]
      BY <2>2, <2>4, <3>1 DEF Tagged
    <3>3. Enters(r.heap, c.p, c.s)
      BY <2>1, LogNamespaceUsedEnters DEF InEnter
    <3>4. Enters(g, c.p, c.s)
      BY <3>1, <3>3, UseEnters DEF InEnter, Enters
    <3>5. DOMAIN v = WorkKeys /\ v.heap = g /\ v.tag = r.ns /\ v.type = w.type /\ v.attrs = w.attrs
      BY <3>2 DEF InEnter, IsWork, WorkKeys
    <3>6. Sound(OwnUri(v), v.attrs)
      <4>1. CASE w.type # Anonymous
        BY <3>5, <4>1 DEF InEnter, IsWork, OwnUri
      <4>2. CASE w.type = Anonymous
        <5>1. OwnUri(w) = NoUri
          BY <4>2 DEF OwnUri, Anonymous, Ns
        <5>2. QED
          BY <3>5, <5>1 DEF InEnter, IsWork, Sound, Sourced, Fits
      <4>3. QED
        BY <4>1, <4>2
    <3>7. QED
      BY <1>1, <3>2, <3>4, <3>5, <3>6 DEF InTag, InEnter, IsWork, WorkKeys, Enters
  <2>5. QED
    BY <2>3, <2>4
<1>4. QED
  BY <1>2, <1>3

LEMMA WorkEnters ==
    ASSUME NEW h, NEW s \in Nat \ {0}, NEW p, Entering(h, p, s), NEW node
    PROVE  InBegin([s |-> s, p |-> p, node |-> node], Work(h, s, p))
<1>1. PICK w : w = Work(h, s, p)
  OBVIOUS
<1>2. /\ DOMAIN w = WorkKeys /\ w.attrs = <<>> /\ w.others = <<>>
      /\ w.heap = h /\ w.s = s /\ w.parents = p /\ w.tag = Anonymous
  BY <1>1 DEF Work, WorkKeys
<1>3. Distinct(w.attrs) /\ Sound(OwnUri(w), w.attrs)
  BY <1>2 DEF Distinct, Sound
<1>4. IsWork(w)
  BY <1>2, <1>3, ListedEmpty DEF IsWork
<1>5. QED
  BY <1>1, <1>2, <1>4 DEF InEnter, InNames, InBegin

(* When an element has been entered, its serializer is settled.            *)
LEMMA EnterSettles ==
    ASSUME NEW h, NEW s \in Nat \ {0}, NEW p, Entering(h, p, s), NEW node, NEW prop,
           IsSeq(node.attrs), IsSeq(node.props)
    PROVE  LET w == Enter(h, s, p, node, prop) IN
           IsWork(w) /\ w.s = s /\ (w.ok => AllSettled(w.heap, p, s))
<1>1. PICK c : c = [s |-> s, p |-> p, node |-> node]
  OBVIOUS
<1>2. c.s = s /\ c.p = p /\ c.node = node
  BY <1>1
<1>3. PICK w1 : w1 = ParseNsAttributes(Work(h, s, p), node)
  OBVIOUS
<1>4. InBegin(c, w1)
  BY <1>1, <1>3, WorkEnters, ParseNsAttributesEnters
<1>5. PICK w2 : w2 = Mark(w1, node, prop)
  OBVIOUS
<1>6. PICK ns : ns = IF Inline(prop) THEN PropertyNs(prop) ELSE DescriptorNs(node)
  OBVIOUS
<1>7. PICK w3 : w3 = NameTag(w2, ns)
  OBVIOUS
<1>8. InTag(c, w3)
  BY <1>4, <1>5, <1>7, MarkEnters, NameTagEnters
<1>9. PICK w : w = WriteAttributes(w3, node)
  OBVIOUS
<1>10. InTag(c, w)
  BY <1>2, <1>8, <1>9, WriteAttributesEnters
<1>11. w = Enter(h, s, p, node, prop)
  BY <1>3, <1>5, <1>6, <1>7, <1>9 DEF Enter
<1>12. w.ok => AllSettled(w.heap, p, s)
  <2>1. SUFFICES ASSUME w.ok PROVE AllSettled(w.heap, p, s)
    OBVIOUS
  <2>2. Entering(w.heap, p, s) /\ Settled(w.heap, s)
    BY <1>2, <1>10, <2>1 DEF InTag, InEnter
  <2>3. \A a \in 1..s : a = s \/ a \in 1..s - 1
    OBVIOUS
  <2>4. QED
    BY <2>2, <2>3 DEF Entering, AllSettled
<1>13. IsWork(w) /\ w.s = s
  BY <1>2, <1>10 DEF InTag, InEnter
<1>14. QED
  BY <1>11, <1>12, <1>13

(* A new serializer owns nothing and knows nothing yet.                    *)
LEMMA NewEntering ==
    ASSUME NEW h, NEW n \in Nat, NEW p, AllSettled(h, p, n), NEW parent \in 0..n
    PROVE  Entering(NewHeap(h), Append(p, parent), n + 1)
<1>1. PICK g : g = NewHeap(h)
  OBVIOUS
<1>2. PICK q : q = Append(p, parent)
  OBVIOUS
<1>3. PICK s \in Nat \ {0} : s = n + 1
  OBVIOUS
<1>4. /\ Listed(q) /\ Len(q) = s /\ q[s] = parent
      /\ \A a \in 1..n : q[a] = p[a]
  BY <1>2, <1>3, ListedAppend DEF AllSettled, Tree
<1>5. PICK o : o = Append(h.own, 0)
  OBVIOUS
<1>6. PICK m : m = Append(h.memo, Unset)
  OBVIOUS
<1>7. g.scopes = h.scopes /\ g.own = o /\ g.memo = m /\ DOMAIN g = DOMAIN h
  BY <1>1, <1>5, <1>6 DEF NewHeap, AllSettled, IsHeap
<1>8. /\ Listed(o) /\ Len(o) = s /\ o[s] = 0 /\ \A a \in 1..n : o[a] = h.own[a]
      /\ Listed(m) /\ Len(m) = s /\ m[s] = Unset /\ \A a \in 1..n : m[a] = h.memo[a]
  BY <1>3, <1>5, <1>6, ListedAppend DEF AllSettled, IsHeap
<1>9. \A a \in 1..s : a = s \/ a \in 1..n
  BY <1>3
<1>10. IsHeap(g, s)
  <2>1. Len(h.scopes) \in Nat
    BY ListedLen DEF AllSettled, IsHeap
  <2>2. QED
    <3>1. IsHeap(h, n)
      BY DEF AllSettled
    <3>2. \A a \in 1..s : /\ o[a] \in 0..Len(h.scopes)
                          /\ m[a] \in 0..Len(h.scopes) \cup {Unset}
      BY <1>8, <1>9, <2>1, <3>1 DEF IsHeap
    <3>3. QED
      BY <1>7, <1>8, <3>1, <3>2 DEF IsHeap
<1>11. Tree(q, s)
  <2>1. \A a \in 1..n : q[a] \in 0..a - 1
    BY <1>4 DEF AllSettled, Tree
  <2>2. q[s] \in 0..s - 1
    BY <1>3, <1>4
  <2>3. QED
    BY <2>1, <2>2, <1>4, <1>9 DEF Tree
<1>12. \A a \in 1..n : Settled(g, a)
  BY <1>7, <1>8 DEF AllSettled, Settled
<1>13. \A a \in 1..s : Linked(g, q, a)
  <2>1. \A a \in 1..n : p[a] \in 0..a - 1 /\ p[a] \in 0..n
    BY DEF AllSettled, Tree
  <2>2. \A b \in 0..n : Reach(g, b) = Reach(h, b)
    BY <1>7, <1>8 DEF Reach, ScopeOf
  <2>3. ASSUME NEW a \in 1..n PROVE Linked(g, q, a)
    <3>1. PICK b \in 0..n : b = p[a]
      BY <2>1
    <3>2. g.memo[a] = h.memo[a] /\ q[a] = b /\ Reach(g, b) = Reach(h, b)
      BY <3>1, <1>4, <1>7, <1>8, <2>2
    <3>3. Linked(h, p, a)
      BY DEF AllSettled
    <3>4. QED
      BY <3>1, <3>2, <3>3 DEF Linked
  <2>4. Linked(g, q, s)
    BY <1>7, <1>8 DEF Linked
  <2>5. QED
    BY <1>9, <2>3, <2>4
<1>14. s - 1 = n
  BY <1>3
<1>15. Entering(g, q, s)
  BY <1>10, <1>11, <1>12, <1>13, <1>14 DEF Entering
<1>16. QED
  BY <1>1, <1>2, <1>3, <1>15

-----------------------------------------------------------------------------
(* The children an element defers name nodes of the document.              *)
IsChild(d, child) == child.kind = "element" => child.node \in DOMAIN d.nodes
Children(d, children) == Listed(children) /\ \A i \in DOMAIN children : IsChild(d, children[i])

C == INSTANCE Folding WITH
        Op <- LAMBDA c, children, p : Contained(c.node, children, p),
        Holds <- LAMBDA c, children : Children(c.d, children)

LEMMA ListedFunction ==
    ASSUME NEW m \in Nat, NEW f, f = [i \in 1..m |-> f[i]]
    PROVE  Listed(f)
<1>1. f \in Seq({f[i] : i \in 1..m})
  OBVIOUS
<1>2. QED
  BY <1>1 DEF Listed

LEMMA ChildrenOfTypes ==
    ASSUME NEW d, NEW p, p.count \in Nat, p.nodes \in Seq(DOMAIN d.nodes)
    PROVE  Children(d, ChildrenOf(p))
<1>1. PICK z : z = ChildrenOf(p)
  OBVIOUS
<1>2. CASE p.kind = "body"
  <2>1. PICK child : child = Child("text", p, 0)
    OBVIOUS
  <2>2. z = <<child>>
    BY <1>1, <1>2, <2>1 DEF ChildrenOf
  <2>3. z \in Seq({child}) /\ \A i \in DOMAIN z : z[i] = child
    BY <2>2
  <2>4. QED
    BY <1>1, <2>1, <2>3 DEF Children, IsChild, Listed, Child
<1>3. CASE p.kind \in {"value", "reference"}
  <2>1. PICK child : child = Child(p.kind, p, 0)
    OBVIOUS
  <2>2. z = [i \in 1..p.count |-> child]
    BY <1>1, <1>3, <2>1 DEF ChildrenOf
  <2>3. Listed(z) /\ \A i \in DOMAIN z : z[i] = child
    BY <2>2, ListedFunction
  <2>4. QED
    BY <1>1, <1>3, <2>1, <2>3 DEF Children, IsChild, Child
<1>4. CASE p.kind = "contain"
  <2>1. z = [i \in DOMAIN p.nodes |-> Child("element", p, p.nodes[i])]
    BY <1>1, <1>4 DEF ChildrenOf
  <2>2. PICK m \in Nat : DOMAIN p.nodes = 1..m /\ \A i \in 1..m : p.nodes[i] \in DOMAIN d.nodes
    BY Zenon, LenProperties, ElementOfSeq
  <2>3. \A i \in 1..m : z[i] = Child("element", p, p.nodes[i])
    BY <2>1, <2>2
  <2>4. DOMAIN z = 1..m /\ z = [i \in 1..m |-> z[i]]
    BY <2>1, <2>2
  <2>5. Listed(z)
    BY <2>4, ListedFunction
  <2>6. QED
    <3>1. ASSUME NEW i \in 1..m
          PROVE  IsChild(d, z[i])
      <4>1. z[i].node = p.nodes[i]
        <5>1. PICK child : child = Child("element", p, p.nodes[i])
          OBVIOUS
        <5>2. z[i] = child
          BY <2>3, <5>1
        <5>3. child.node = p.nodes[i]
          BY <5>1 DEF Child
        <5>4. QED
          BY <5>2, <5>3
      <4>2. QED
        BY <2>2, <4>1 DEF IsChild
    <3>2. QED
      BY <1>1, <2>4, <2>5, <3>1 DEF Children
<1>5. CASE p.kind \notin {"body", "value", "reference", "contain"}
  <2>1. z = <<>>
    BY <1>1, <1>5 DEF ChildrenOf
  <2>2. QED
    BY <1>1, <2>1, ListedEmpty DEF Children
<1>6. QED
  BY <1>2, <1>3, <1>4, <1>5

LEMMA ChildrenConcat ==
    ASSUME NEW d, NEW x, NEW y, Children(d, x), Children(d, y)
    PROVE  Children(d, x \o y)
<1>1. PICK z : z = x \o y
  OBVIOUS
<1>2. /\ Listed(z)
      /\ \A i \in DOMAIN z : \/ i \in DOMAIN x /\ z[i] = x[i]
                             \/ i - Len(x) \in DOMAIN y /\ z[i] = y[i - Len(x)]
  BY <1>1, ListedConcat DEF Children
<1>3. \A i \in DOMAIN z : IsChild(d, z[i])
  BY <1>2 DEF Children
<1>4. QED
  BY <1>1, <1>2, <1>3 DEF Children

LEMMA ContainmentsTypes ==
    ASSUME NEW d \in Documents, NEW n \in DOMAIN d.nodes
    PROVE  /\ Children(d, Containments(d.nodes[n]))
           /\ IsSeq(d.nodes[n].attrs) /\ IsSeq(d.nodes[n].props)
<1>1. PICK node \in Range(d.nodes) : node = d.nodes[n]
  BY DEF Range
<1>2. /\ IsSeq(node.attrs) /\ IsSeq(node.props)
      /\ \A p \in Range(node.props) : p.count \in Nat /\ p.nodes \in Seq(DOMAIN d.nodes)
  BY DocumentsAssumption
<1>3. PICK c : c = [node |-> node, d |-> d]
  OBVIOUS
<1>4. c.node = node /\ c.d = d
  BY <1>3
<1>5. Containments(node) = C!Fold(c, <<>>, node.props)
  BY <1>4, Zenon DEF Containments, C!Fold, FoldLeft, MapThenFoldSet, Max, C!FoldLeft, C!MapThenFoldSet, C!Max
<1>6. Children(d, <<>>)
  BY ListedEmpty DEF Children
<1>7. \A children : \A p \in Range(node.props) :
          Children(d, children) => Children(d, Contained(node, children, p))
  BY <1>2, ChildrenOfTypes, ChildrenConcat DEF Contained
<1>8. node.props \in Seq(Range(node.props))
  BY <1>2, ListedSeq
<1>9. Children(c.d, C!Fold(c, <<>>, node.props))
  BY <1>4, <1>6, <1>7, <1>8, C!FoldKeeps
<1>10. QED
  BY <1>1, <1>2, <1>4, <1>5, <1>9

-----------------------------------------------------------------------------
(* An element is exited: its other attributes are written, or warned about. *)
InExit(c, v) ==
    /\ DOMAIN v = {"work", "warned"} /\ Listed(v.warned)
    /\ IsWork(v.work) /\ v.work.s = c.s /\ v.work.others = c.others
    /\ Rescoped(c.heap, v.work.heap)
    /\ \A x : Holding(c.attrs, x) => Holding(v.work.attrs, x)
Kept(v, a) == Holding(v.work.attrs, a) \/ a \in Range(v.warned)

TryOther(v, a) == OrWarn(v, WriteAttribute(v.work, a.prefix, a.name, FALSE, Anonymous), a)
X == INSTANCE Folding WITH Op <- LAMBDA c, v, a : TryOther(v, a), Holds <- InExit

LEMMA RangeAppend ==
    ASSUME NEW s, Listed(s), NEW e
    PROVE  e \in Range(Append(s, e)) /\ \A x \in Range(s) : x \in Range(Append(s, e))
<1>1. PICK t : t = Append(s, e)
  OBVIOUS
<1>2. PICK n \in Nat : n = Len(s) /\ DOMAIN s = 1..n
  BY ListedLen
<1>3. DOMAIN t = 1..n + 1 /\ t[n + 1] = e /\ \A i \in 1..n : t[i] = s[i]
  BY <1>1, <1>2, ListedAppend
<1>4. n + 1 \in DOMAIN t /\ \A i \in DOMAIN s : i \in DOMAIN t /\ t[i] = s[i]
  BY <1>2, <1>3
<1>5. e \in Range(t) /\ \A x \in Range(s) : x \in Range(t)
  BY <1>3, <1>4 DEF Range
<1>6. QED
  BY <1>1, <1>5

LEMMA TryOtherKeeps ==
    ASSUME NEW c, NEW n \in Nat, c.s \in 1..n, IsHeap(c.heap, n), Settled(c.heap, c.s),
           NEW v, InExit(c, v), NEW a
    PROVE  LET u == TryOther(v, a) IN
           InExit(c, u) /\ Kept(u, a) /\ \A x : Kept(v, x) => Kept(u, x)
<1>1. PICK u : u = TryOther(v, a)
  OBVIOUS
<1>2. PICK w : w = WriteAttribute(v.work, a.prefix, a.name, FALSE, Anonymous)
  OBVIOUS
<1>3. /\ Grown(v.work, w) /\ (w.ok => Holding(w.attrs, a))
      /\ \/ w.heap = v.work.heap
         \/ w.heap = Use(v.work.heap, v.work.parents, v.work.s, Ns(a.prefix, NoUri)).heap
  <2>1. PICK x : x = v.work
    OBVIOUS
  <2>2. IsWork(x)
    BY <2>1 DEF InExit
  <2>3. w = WriteAttribute(x, a.prefix, a.name, FALSE, Anonymous)
    BY <1>2, <2>1
  <2>4. ASSUME NEW prefix, NEW name, NEW inherited, NEW qname,
               w = WriteAttribute(x, prefix, name, inherited, qname)
        PROVE  /\ Grown(x, w) /\ (w.ok => \A z : z.prefix = prefix /\ z.name = name => Holding(w.attrs, z))
               /\ w.heap = x.heap \/ w.heap = Use(x.heap, x.parents, x.s, Ns(prefix, NoUri)).heap
    BY <2>2, <2>4, WriteAttributeGrows
  <2>5. QED
    BY <2>1, <2>3, <2>4
<1>4. CASE w.ok
  <2>1. u = [v EXCEPT !.work = w]
    BY <1>1, <1>2, <1>4 DEF TryOther, OrWarn
  <2>2. DOMAIN u = {"work", "warned"} /\ u.work = w /\ u.warned = v.warned
    BY <2>1 DEF InExit
  <2>3. Rescoped(c.heap, w.heap)
    <3>1. IsHeap(v.work.heap, n) /\ Settled(v.work.heap, c.s) /\ v.work.s = c.s
      BY RescopedHeap DEF InExit, Settled, Rescoped
    <3>2. Calm(v.work.heap, c.s, Ns(a.prefix, NoUri))
      BY DEF Calm, Has, Ns, Anonymous
    <3>3. Rescoped(v.work.heap, w.heap)
      BY <1>3, <3>1, <3>2, UseSettled, RescopedSelf
    <3>4. QED
      BY <3>3, RescopedTwice DEF InExit
  <2>4. InExit(c, u)
    BY <1>3, <2>2, <2>3 DEF InExit, Grown
  <2>5. Kept(u, a) /\ \A x : Kept(v, x) => Kept(u, x)
    BY <1>3, <1>4, <2>2 DEF Kept, Grown
  <2>6. QED
    BY <1>1, <2>4, <2>5
<1>5. CASE ~w.ok
  <2>1. PICK z : z = Append(v.warned, a)
    OBVIOUS
  <2>2. u = [v EXCEPT !.warned = z]
    BY <1>1, <1>2, <1>5, <2>1 DEF TryOther, OrWarn
  <2>3. DOMAIN u = {"work", "warned"} /\ u.work = v.work /\ u.warned = z
    BY <2>2 DEF InExit
  <2>4. Listed(z) /\ a \in Range(z) /\ \A x \in Range(v.warned) : x \in Range(z)
    BY <2>1, ListedAppend, RangeAppend DEF InExit
  <2>5. InExit(c, u) /\ Kept(u, a) /\ \A x : Kept(v, x) => Kept(u, x)
    BY <2>3, <2>4 DEF InExit, Kept
  <2>6. QED
    BY <1>1, <2>5
<1>6. QED
  BY <1>4, <1>5

LEMMA ExitKeeps ==
    ASSUME NEW n \in Nat, NEW s \in 1..n, NEW h, IsHeap(h, n), Settled(h, s),
           NEW w, IsWork(w), w.s = s, w.heap = h
    PROVE  LET r == WriteOthers(w, w.others) IN
           /\ IsWork(r.work) /\ r.work.s = s /\ r.work.others = w.others
           /\ Rescoped(h, r.work.heap) /\ Listed(r.warned)
           /\ \A a \in Range(w.others) : Kept(r, a)
<1>1. PICK c : c = [s |-> s, heap |-> h, attrs |-> w.attrs, others |-> w.others]
  OBVIOUS
<1>2. c.s = s /\ c.heap = h /\ c.attrs = w.attrs /\ c.others = w.others
  BY <1>1
<1>3. PICK others : others = w.others
  OBVIOUS
<1>4. PICK T : others \in Seq(T)
  BY <1>3 DEF IsWork, Listed
<1>5. PICK b : b = [work |-> w, warned |-> <<>>]
  OBVIOUS
<1>6. InExit(c, b)
  <2>1. DOMAIN b = {"work", "warned"} /\ b.work = w /\ b.warned = <<>>
    BY <1>5
  <2>2. Rescoped(c.heap, w.heap)
    BY <1>2, RescopedSelf
  <2>3. QED
    BY <1>2, <2>1, <2>2, ListedEmpty DEF InExit
<1> DEFINE At(m) == X!Fold(c, b, SubSeq(others, 1, m))
           Done(m) == InExit(c, At(m)) /\ \A i \in 1..m : Kept(At(m), others[i])
           S == {m \in Nat : m <= Len(others) => Done(m)}
<1>7. 0 \in S
  <2>1. SubSeq(others, 1, 0) = <<>>
    OBVIOUS
  <2>2. At(0) = b
    BY <2>1, X!FoldEmpty
  <2>3. QED
    BY <1>6, <2>2
<1>8. ASSUME NEW m \in Nat, m \in S
      PROVE  m + 1 \in S
  <2>1. SUFFICES ASSUME m + 1 <= Len(others)
                 PROVE  Done(m + 1)
    OBVIOUS
  <2>2. PICK j \in 1..Len(others) : j = m + 1 /\ j - 1 = m
    BY <2>1
  <2>3. PICK a : a = others[j]
    OBVIOUS
  <2>4. PICK v : v = At(m)
    OBVIOUS
  <2>5. PICK u : u = At(j)
    OBVIOUS
  <2>6. u = TryOther(v, a)
    <3>1. X!Fold(c, b, SubSeq(others, 1, j)) =
          TryOther(X!Fold(c, b, SubSeq(others, 1, j - 1)), others[j])
      BY <1>4, X!FoldPrefix
    <3>2. QED
      BY <2>2, <2>3, <2>4, <2>5, <3>1
  <2>7. InExit(c, v) /\ \A i \in 1..m : Kept(v, others[i])
    BY <1>8, <2>1, <2>4
  <2>8. InExit(c, u) /\ Kept(u, a) /\ \A x : Kept(v, x) => Kept(u, x)
    BY <1>2, <2>6, <2>7, TryOtherKeeps
  <2>9. \A i \in 1..j : Kept(u, others[i])
    <3>1. \A i \in 1..j : i = j \/ i \in 1..m
      BY <2>2
    <3>2. QED
      BY <2>3, <2>7, <2>8, <3>1
  <2>10. QED
    BY <2>2, <2>5, <2>8, <2>9
<1>9. \A m \in Nat : m \in S
  <2> HIDE DEF S
  <2> QED
    BY <1>7, <1>8, I!Induction
<1>10. PICK m \in Nat : m = Len(others) /\ DOMAIN others = 1..m
  BY <1>4
<1>11. Done(m)
  BY <1>9, <1>10
<1>12. SubSeq(others, 1, m) = others
  BY <1>4, <1>10
<1>13. PICK r : r = X!Fold(c, b, others)
  OBVIOUS
<1>14. InExit(c, r) /\ \A i \in DOMAIN others : Kept(r, others[i])
  BY <1>10, <1>11, <1>12, <1>13
<1>15. WriteOthers(w, others) = r
  BY <1>5, <1>13, Zenon DEF WriteOthers, TryOther, X!Fold, FoldLeft, MapThenFoldSet, Max, X!FoldLeft, X!MapThenFoldSet, X!Max
<1>16. \A a \in Range(others) : Kept(r, a)
  BY <1>14 DEF Range
<1>17. QED
  BY <1>2, <1>3, <1>14, <1>15, <1>16 DEF InExit

-----------------------------------------------------------------------------
(* The inductive invariant: the serializers are settled; every one whose   *)
(* frame has left the stack has its attributes written or warned about.    *)
SerialKeys == {"parent", "node", "work", "body"}
IsSerializer(x, i) == DOMAIN x = SerialKeys /\ IsWork(x.work) /\ x.work.s = i
Serials(ss, h) ==
    /\ Listed(ss) /\ \A i \in DOMAIN ss : IsSerializer(ss[i], i)
    /\ AllSettled(h, Parents(ss), Len(ss))

IsFrame(d, n, f) ==
    /\ DOMAIN f = {"s", "children", "index"}
    /\ f.s \in 1..n /\ f.index \in Nat /\ Children(d, f.children)
Frames(d, n, frames) == Listed(frames) /\ \A j \in DOMAIN frames : IsFrame(d, n, frames[j])
Open(frames, i) == \E j \in DOMAIN frames : frames[j].s = i

Closed(ss, ws, i) ==
    \A a \in Range(ss[i].work.others) :
        Holding(ss[i].work.attrs, a) \/ [s |-> i, attr |-> a] \in Range(ws)

WInv ==
    /\ doc \in Documents
    /\ Serials(serializers, heap)
    /\ Listed(warnings)
    /\ pc = "building" => Frames(doc, Len(serializers), stack)
    /\ pc # "failed" => \A i \in DOMAIN serializers :
                            \/ Closed(serializers, warnings, i)
                            \/ pc = "building" /\ Open(stack, i)

-----------------------------------------------------------------------------
(* Stacks of frames.                                                       *)
LEMMA PushFrame ==
    ASSUME NEW d, NEW n \in Nat, NEW m \in Nat, m <= n, NEW frames, Frames(d, m, frames),
           NEW f, IsFrame(d, n, f)
    PROVE  LET t == Append(frames, f) IN
           /\ Frames(d, n, t) /\ Open(t, f.s) /\ \A i : Open(frames, i) => Open(t, i)
<1>1. PICK t : t = Append(frames, f)
  OBVIOUS
<1>2. PICK k \in Nat : k = Len(frames) /\ DOMAIN frames = 1..k
  BY ListedLen DEF Frames
<1>3. /\ Listed(t) /\ DOMAIN t = 1..k + 1 /\ t[k + 1] = f
      /\ \A j \in 1..k : t[j] = frames[j]
  BY <1>1, <1>2, ListedAppend DEF Frames
<1>4. \A j \in 1..k : IsFrame(d, n, t[j])
  BY <1>2, <1>3 DEF Frames, IsFrame
<1>5. Frames(d, n, t)
  BY <1>2, <1>3, <1>4 DEF Frames
<1>6. Open(t, f.s) /\ \A i : Open(frames, i) => Open(t, i)
  BY <1>2, <1>3 DEF Open
<1>7. QED
  BY <1>1, <1>5, <1>6

LEMMA AdvanceFrames ==
    ASSUME NEW d, NEW n \in Nat, NEW frames, Frames(d, n, frames), frames # <<>>
    PROVE  Frames(d, n, Advance(frames)) /\ \A i : Open(Advance(frames), i) <=> Open(frames, i)
<1>1. PICK t : t = Advance(frames)
  OBVIOUS
<1>2. PICK k : k = Len(frames)
  OBVIOUS
<1>3. PICK f : f = [frames[k] EXCEPT !.index = @ + 1]
  OBVIOUS
<1>4. t = [frames EXCEPT ![k] = f]
  BY <1>1, <1>2, <1>3 DEF Advance
<1>5. /\ Listed(t) /\ DOMAIN t = DOMAIN frames
      /\ \A j \in DOMAIN frames : t[j] = IF j = k THEN f ELSE frames[j]
  <2>1. Listed(frames)
    BY DEF Frames
  <2>2. QED
    BY <1>4, <2>1, ListedExcept
<1>6. ASSUME NEW j \in DOMAIN frames
      PROVE  IsFrame(d, n, t[j]) /\ t[j].s = frames[j].s
  <2>1. IsFrame(d, n, frames[j])
    BY DEF Frames
  <2>2. QED
    BY <1>3, <1>5, <2>1 DEF IsFrame
<1>7. QED
  BY <1>1, <1>5, <1>6 DEF Frames, Open

LEMMA TopFrame ==
    ASSUME NEW d, NEW n \in Nat, NEW frames, Frames(d, n, frames), frames # <<>>
    PROVE  /\ Last(frames) = frames[Len(frames)] /\ Len(frames) \in DOMAIN frames
           /\ IsFrame(d, n, Last(frames)) /\ Open(frames, Last(frames).s)
<1>1. Len(frames) \in DOMAIN frames
  BY DEF Frames, Listed
<1>2. Last(frames) = frames[Len(frames)]
  BY DEF Last
<1>3. QED
  BY <1>1, <1>2 DEF Frames, Open

LEMMA PopFrame ==
    ASSUME NEW d, NEW n \in Nat, NEW frames, Frames(d, n, frames), frames # <<>>
    PROVE  /\ Frames(d, n, Front(frames))
           /\ \A i : Open(frames, i) => Open(Front(frames), i) \/ i = Last(frames).s
<1>1. PICK t : t = Front(frames)
  OBVIOUS
<1>2. PICK T : frames \in Seq(T)
  BY DEF Frames, Listed
<1>3. PICK k \in Nat : k + 1 = Len(frames) /\ DOMAIN frames = 1..k + 1
  BY <1>2
<1>4. t \in Seq(T) /\ DOMAIN t = 1..k /\ \A j \in 1..k : t[j] = frames[j]
  BY <1>1, <1>2, <1>3 DEF Front
<1>5. Frames(d, n, t)
  BY <1>3, <1>4 DEF Frames, Listed
<1>6. Last(frames) = frames[k + 1]
  BY <1>3 DEF Last
<1>7. \A j \in 1..k + 1 : j = k + 1 \/ j \in 1..k
  OBVIOUS
<1>8. \A i : Open(frames, i) => Open(t, i) \/ i = Last(frames).s
  BY <1>3, <1>4, <1>6, <1>7 DEF Open
<1>9. QED
  BY <1>1, <1>5, <1>8

(* The next child of a frame, if there is one, names a node.               *)
LEMMA NextChildTypes ==
    ASSUME NEW d, NEW n \in Nat, NEW f, IsFrame(d, n, f), f.index < Len(f.children)
    PROVE  IsChild(d, f.children[f.index + 1])
<1>1. f.index + 1 \in DOMAIN f.children
  BY ListedLen DEF IsFrame, Children
<1>2. QED
  BY <1>1 DEF IsFrame, Children

-----------------------------------------------------------------------------
(* Serializers: bodies grow, one is added.                                 *)
LEMMA BodyKeeps ==
    ASSUME NEW ss, NEW h, Serials(ss, h), NEW s, NEW item
    PROVE  LET t == AddBody(ss, s, item) IN
           /\ Serials(t, h) /\ Len(t) = Len(ss) /\ Parents(t) = Parents(ss)
           /\ \A ws : \A i \in DOMAIN ss : Closed(t, ws, i) <=> Closed(ss, ws, i)
<1>1. PICK t : t = AddBody(ss, s, item)
  OBVIOUS
<1>2. PICK x : x = [ss[s] EXCEPT !.body = Append(@, item)]
  OBVIOUS
<1>3. t = [ss EXCEPT ![s] = x]
  BY <1>1, <1>2 DEF AddBody
<1>4. /\ Listed(t) /\ Len(t) = Len(ss) /\ DOMAIN t = DOMAIN ss
      /\ \A i \in DOMAIN ss : t[i] = IF i = s THEN x ELSE ss[i]
  <2>1. Listed(ss)
    BY DEF Serials
  <2>2. QED
    BY <1>3, <2>1, ListedExcept
<1>5. ASSUME NEW i \in DOMAIN ss
      PROVE  t[i].work = ss[i].work /\ t[i].parent = ss[i].parent /\ DOMAIN t[i] = SerialKeys
  <2>1. DOMAIN ss[i] = SerialKeys
    BY DEF Serials, IsSerializer
  <2>2. QED
    BY <1>2, <1>4, <2>1 DEF SerialKeys
<1>6. Parents(t) = Parents(ss)
  BY <1>4, <1>5 DEF Parents
<1>7. Serials(t, h)
  BY <1>4, <1>5, <1>6 DEF Serials, IsSerializer
<1>8. \A ws : \A i \in DOMAIN ss : Closed(t, ws, i) <=> Closed(ss, ws, i)
  BY <1>5 DEF Closed
<1>9. QED
  BY <1>1, <1>4, <1>6, <1>7, <1>8

Joined(ss, tt, h) ==
    /\ Serials(tt, h) /\ Len(tt) = Len(ss) + 1 /\ DOMAIN tt = 1..Len(ss) + 1
    /\ \A ws : \A i \in DOMAIN ss : Closed(ss, ws, i) => Closed(tt, ws, i)

LEMMA SerializerAdded ==
    ASSUME NEW ss, NEW h, Serials(ss, h), NEW parent \in 0..Len(ss),
           NEW d \in Documents, NEW k \in DOMAIN d.nodes, NEW prop, NEW w,
           w = Enter(NewHeap(h), Len(ss) + 1, Append(Parents(ss), parent), d.nodes[k], prop), w.ok,
           NEW tt, tt = Append(ss, Serializer(parent, k, w))
    PROVE  Joined(ss, tt, w.heap)
<1>1. PICK n \in Nat : n = Len(ss) /\ DOMAIN ss = 1..n
  BY ListedLen DEF Serials
<1>2. PICK p : p = Parents(ss)
  OBVIOUS
<1>3. PICK q : q = Append(p, parent)
  OBVIOUS
<1>4. PICK s \in Nat \ {0} : s = n + 1
  OBVIOUS
<1>5. AllSettled(h, p, n)
  BY <1>1, <1>2 DEF Serials
<1>6. PICK g : g = NewHeap(h)
  OBVIOUS
<1>7. Entering(g, q, s)
  BY <1>1, <1>3, <1>4, <1>5, <1>6, NewEntering
<1>8. PICK node : node = d.nodes[k]
  OBVIOUS
<1>9. IsSeq(node.attrs) /\ IsSeq(node.props)
  BY <1>8, ContainmentsTypes
<1>10. w = Enter(g, s, q, node, prop)
  BY <1>1, <1>2, <1>3, <1>4, <1>6, <1>8
<1>11. IsWork(w) /\ w.s = s /\ AllSettled(w.heap, q, s)
  BY <1>7, <1>9, <1>10, EnterSettles
<1>12. PICK x : x = Serializer(parent, k, w)
  OBVIOUS
<1>13. IsSerializer(x, s) /\ x.parent = parent
  <2>1. PICK v : v = [w EXCEPT !.heap = 0]
    OBVIOUS
  <2>2. IsWork(v) /\ v.s = s
    <3>1. IsWork(w) /\ w.s = s
      BY <1>11
    <3>2. LET u == [w EXCEPT !.heap = 0] IN IsWork(u) /\ u.s = w.s
      BY ONLY <3>1, Reheaped
    <3>3. QED
      BY <2>1, <3>1, <3>2
  <2>3. x = [parent |-> parent, node |-> k, work |-> v, body |-> <<>>]
    BY <1>12, <2>1 DEF Serializer
  <2>4. x.work = v /\ x.parent = parent /\ DOMAIN x = SerialKeys
    BY <2>3 DEF SerialKeys
  <2>5. QED
    BY <2>2, <2>4 DEF IsSerializer
<1>14. /\ Listed(tt) /\ Len(tt) = s /\ DOMAIN tt = 1..s /\ tt[s] = x
       /\ \A i \in 1..n : tt[i] = ss[i]
  BY <1>1, <1>4, <1>12, ListedAppend DEF Serials
<1>15. \A i \in 1..s : i = s \/ i \in 1..n
  BY <1>4
<1>16. Parents(tt) = q
  <2>1. /\ Listed(p) /\ Len(p) = n
    BY <1>5 DEF AllSettled, Tree
  <2>2. Listed(q) /\ DOMAIN q = 1..s /\ q[s] = parent /\ \A i \in 1..n : q[i] = p[i]
    BY <1>3, <1>4, <2>1, ListedAppend
  <2>3. \A i \in 1..n : q[i] = ss[i].parent
    BY <1>1, <1>2, <2>2 DEF Parents
  <2>4. \A i \in 1..s : q[i] = tt[i].parent
    BY <1>13, <1>14, <1>15, <2>2, <2>3
  <2>5. q = [i \in 1..s |-> q[i]]
    BY <2>2 DEF Listed
  <2>6. QED
    BY <1>14, <2>4, <2>5 DEF Parents
<1>17. \A i \in DOMAIN tt : IsSerializer(tt[i], i)
  BY <1>1, <1>13, <1>14, <1>15 DEF Serials
<1>18. Serials(tt, w.heap)
  BY <1>11, <1>14, <1>16, <1>17 DEF Serials
<1>19. \A ws : \A i \in DOMAIN ss : Closed(ss, ws, i) => Closed(tt, ws, i)
  BY <1>1, <1>14 DEF Closed
<1>20. QED
  BY <1>1, <1>4, <1>14, <1>18, <1>19 DEF Joined

(* The serializers do not mind what scopes hold.                           *)
LEMMA RescopedSerials ==
    ASSUME NEW ss, NEW h, Serials(ss, h), NEW g, Rescoped(h, g)
    PROVE  Serials(ss, g)
<1>1. PICK n \in Nat : n = Len(ss)
  BY ListedLen DEF Serials
<1>2. PICK p : p = Parents(ss)
  OBVIOUS
<1>3. AllSettled(h, p, n)
  BY <1>1, <1>2 DEF Serials
<1>4. IsHeap(g, n)
  BY <1>3, RescopedHeap DEF AllSettled
<1>5. g.own = h.own /\ g.memo = h.memo
  BY DEF Rescoped
<1>6. AllSettled(g, p, n)
  BY <1>3, <1>4, <1>5 DEF AllSettled, Settled, Linked, Reach, ScopeOf
<1>7. QED
  BY <1>1, <1>2, <1>6 DEF Serials

(* A line's tag is named by a settled serializer.                          *)
LEMMA LineKeeps ==
    ASSUME NEW ss, NEW h, Serials(ss, h), NEW s \in 1..Len(ss), NEW prop,
           NEW w, w = NameTag(Work(h, s, Parents(ss)), PropertyNs(prop)), w.ok
    PROVE  Serials(ss, w.heap)
<1>1. PICK n \in Nat : n = Len(ss)
  BY ListedLen DEF Serials
<1>2. PICK p : p = Parents(ss)
  OBVIOUS
<1>3. IsHeap(h, n) /\ Settled(h, s)
  BY <1>1, <1>2 DEF Serials, AllSettled
<1>4. PICK ns : ns = PropertyNs(prop)
  OBVIOUS
<1>5. Calm(h, s, ns)
  <2>1. ns = [prefix |-> prop.prefix, uri |-> NoUri]
    BY <1>4 DEF PropertyNs, Ns
  <2>2. ns.prefix = NoPrefix => ns = Anonymous
    BY <2>1 DEF Anonymous, Ns
  <2>3. QED
    BY <2>2 DEF Calm, Has
<1>6. PICK v : v = Work(h, s, p)
  OBVIOUS
<1>7. v.ok /\ v.heap = h /\ v.s = s /\ v.parents = p /\ DOMAIN v = WorkKeys
  BY <1>6 DEF Work, WorkKeys
<1>8. PICK r : r = LogNamespaceUsed(h, p, s, ns, FALSE)
  OBVIOUS
<1>9. Rescoped(h, r.heap) /\ IsHeap(r.heap, n) /\ Settled(r.heap, s) /\ Has(r.heap, s, r.ns)
  BY <1>1, <1>3, <1>5, <1>8, LogNamespaceUsedSettled
<1>10. w = Tagged(v, r)
  BY <1>2, <1>4, <1>6, <1>7, <1>8 DEF NameTag
<1>11. PICK g : g = Use(r.heap, p, s, r.ns).heap
  OBVIOUS
<1>12. Rescoped(r.heap, g)
  <2>1. Calm(r.heap, s, r.ns)
    BY <1>9 DEF Calm
  <2>2. QED
    BY <1>1, <1>9, <1>11, <2>1, UseSettled
<1>13. w.heap = g
  <2>1. CASE ~r.ok
    <3>1. w = [v EXCEPT !.ok = FALSE]
      BY <1>10, <2>1 DEF Tagged
    <3>2. w.ok = FALSE
      BY <1>7, <3>1 DEF WorkKeys
    <3>3. QED
      BY <3>2
  <2>2. CASE r.ok
    <3>1. w = [v EXCEPT !.heap = g, !.tag = r.ns]
      BY <1>7, <1>10, <1>11, <2>2 DEF Tagged
    <3>2. QED
      BY <1>7, <3>1 DEF WorkKeys
  <2>3. QED
    BY <2>1, <2>2
<1>14. Rescoped(h, g)
  BY <1>1, <1>3, <1>9, <1>12, RescopedTwice
<1>15. QED
  BY <1>13, <1>14, RescopedSerials

(* An element is entered: the stack and the serializers grow together.     *)
LEMMA ElementAdded ==
    ASSUME NEW ss, NEW h, Serials(ss, h), NEW parent \in 0..Len(ss),
           NEW d \in Documents, NEW k \in DOMAIN d.nodes, NEW prop, NEW w,
           w = Enter(NewHeap(h), Len(ss) + 1, Append(Parents(ss), parent), d.nodes[k], prop), w.ok,
           NEW frames, Frames(d, Len(ss), frames), NEW ws,
           \A i \in DOMAIN ss : Closed(ss, ws, i) \/ Open(frames, i)
    PROVE  LET tt == Append(ss, Serializer(parent, k, w))
               ff == Append(frames, Frame(Len(ss) + 1, Containments(d.nodes[k]))) IN
           /\ Serials(tt, w.heap) /\ Frames(d, Len(tt), ff)
           /\ \A i \in DOMAIN tt : Closed(tt, ws, i) \/ Open(ff, i)
<1>1. PICK n \in Nat : n = Len(ss) /\ DOMAIN ss = 1..n
  BY ListedLen DEF Serials
<1>2. PICK tt : tt = Append(ss, Serializer(parent, k, w))
  OBVIOUS
<1>3. Joined(ss, tt, w.heap)
  BY <1>2, SerializerAdded
<1>4. PICK f : f = Frame(n + 1, Containments(d.nodes[k]))
  OBVIOUS
<1>5. PICK cs : cs = Containments(d.nodes[k])
  OBVIOUS
<1>6. Children(d, cs)
  BY <1>5, ContainmentsTypes
<1>7. IsFrame(d, n + 1, f) /\ f.s = n + 1
  BY <1>4, <1>5, <1>6 DEF Frame, IsFrame
<1>8. PICK ff : ff = Append(frames, f)
  OBVIOUS
<1>9. Frames(d, n + 1, ff) /\ Open(ff, n + 1) /\ \A i : Open(frames, i) => Open(ff, i)
  <2>1. Frames(d, n, frames) /\ n + 1 \in Nat /\ n <= n + 1
    BY <1>1
  <2>2. QED
    BY <1>7, <1>8, <2>1, PushFrame
<1>10. \A i \in 1..n + 1 : Closed(tt, ws, i) \/ Open(ff, i)
  <2>1. \A i \in 1..n : Closed(tt, ws, i) \/ Open(ff, i)
    BY <1>1, <1>3, <1>9 DEF Joined
  <2>2. \A i \in 1..n + 1 : i = n + 1 \/ i \in 1..n
    OBVIOUS
  <2>3. QED
    BY <1>9, <2>1, <2>2
<1>11. QED
  BY <1>1, <1>2, <1>3, <1>4, <1>8, <1>9, <1>10 DEF Joined

-----------------------------------------------------------------------------
(* Every step keeps the invariant.                                         *)
LEMMA FailedKeeps ==
    ASSUME WInv, pc' = "failed", UNCHANGED <<doc, heap, serializers, warnings>>
    PROVE  WInv'
BY DEF WInv

LEMMA EnterElementKeeps ==
    ASSUME WInv, pc = "building", NEW ss, Serials(ss, heap), NEW parent \in 0..Len(ss),
           NEW k \in DOMAIN doc.nodes, NEW prop, NEW frames, Frames(doc, Len(ss), frames),
           \A i \in DOMAIN ss : Closed(ss, warnings, i) \/ Open(frames, i),
           EnterElement(heap, ss, parent, k, prop, frames), UNCHANGED <<doc, warnings>>
    PROVE  WInv'
<1>1. PICK w : /\ w = Enter(NewHeap(heap), Len(ss) + 1, Append(Parents(ss), parent), Node(k), prop)
               /\ IF w.ok
                  THEN /\ heap' = w.heap
                       /\ serializers' = Append(ss, Serializer(parent, k, w))
                       /\ stack' = Append(frames, Frame(Len(ss) + 1, Containments(Node(k))))
                       /\ UNCHANGED pc
                  ELSE pc' = "failed" /\ UNCHANGED <<heap, serializers, stack>>
  BY DEF EnterElement
<1>2. CASE ~w.ok
  BY <1>1, <1>2, FailedKeeps
<1>3. CASE w.ok
  <2>1. PICK d \in Documents : d = doc
    BY DEF WInv
  <2>2. w = Enter(NewHeap(heap), Len(ss) + 1, Append(Parents(ss), parent), d.nodes[k], prop)
    BY <1>1, <2>1 DEF Node
  <2>3. PICK tt : tt = Append(ss, Serializer(parent, k, w))
    OBVIOUS
  <2>4. PICK ff : ff = Append(frames, Frame(Len(ss) + 1, Containments(d.nodes[k])))
    OBVIOUS
  <2>5. /\ Serials(tt, w.heap) /\ Frames(d, Len(tt), ff)
        /\ \A i \in DOMAIN tt : Closed(tt, warnings, i) \/ Open(ff, i)
    BY <1>3, <2>1, <2>2, <2>3, <2>4, ElementAdded
  <2>6. /\ heap' = w.heap /\ serializers' = tt /\ stack' = ff /\ pc' = pc
        /\ doc' = d /\ warnings' = warnings
    BY <1>1, <1>3, <2>1, <2>3, <2>4 DEF Node
  <2>7. QED
    BY <2>1, <2>5, <2>6 DEF WInv
<1>4. QED
  BY <1>2, <1>3

LEMMA StartKeeps == ASSUME WInv, Start PROVE WInv'
<1>1. 1 \in DOMAIN doc.nodes
  <2>1. IsSeq(doc.nodes) /\ doc.nodes # <<>>
    BY DocumentsAssumption DEF WInv
  <2>2. QED
    BY <2>1 DEF IsSeq
<1>2. Serials(serializers, heap) /\ serializers = <<>>
  BY DEF WInv, Start
<1>3. Frames(doc, Len(serializers), <<>>)
  BY ListedEmpty DEF Frames
<1>4. 0 \in 0..Len(serializers) /\ DOMAIN serializers = {}
  BY <1>2
<1>5. pc = "building" /\ EnterElement(heap, serializers, 0, 1, NoProp, <<>>) /\ UNCHANGED <<doc, warnings>>
  BY DEF Start
<1>6. QED
  BY <1>1, <1>2, <1>3, <1>4, <1>5, EnterElementKeeps

(* The frame on top while the tree is built, and its next child.           *)
LEMMA TopTypes ==
    ASSUME WInv, Building
    PROVE  /\ Frames(doc, Len(serializers), stack) /\ IsFrame(doc, Len(serializers), Top)
           /\ Top.s \in 1..Len(serializers) /\ DOMAIN serializers = 1..Len(serializers)
           /\ Len(serializers) \in Nat
           /\ HasChild => IsChild(doc, NextChild)
<1>1. PICK n \in Nat : n = Len(serializers) /\ DOMAIN serializers = 1..n
  BY ListedLen DEF WInv, Serials
<1>2. Frames(doc, n, stack) /\ stack # <<>>
  BY <1>1 DEF WInv, Building
<1>3. IsFrame(doc, n, Top)
  BY <1>2, TopFrame DEF Top
<1>4. HasChild => IsChild(doc, NextChild)
  BY <1>3, NextChildTypes DEF HasChild, NextChild
<1>5. QED
  BY <1>1, <1>2, <1>3, <1>4 DEF IsFrame

LEMMA BodyAdded ==
    ASSUME WInv, Building, NEW item
    PROVE  LET t == AddBody(serializers, Top.s, item) IN
           /\ Serials(t, heap) /\ Len(t) = Len(serializers) /\ DOMAIN t = 1..Len(serializers)
           /\ Frames(doc, Len(serializers), Advance(stack))
           /\ \A i \in DOMAIN t : Closed(t, warnings, i) \/ Open(Advance(stack), i)
<1>1. PICK n \in Nat : n = Len(serializers) /\ DOMAIN serializers = 1..n
  BY ListedLen DEF WInv, Serials
<1>2. PICK t : t = AddBody(serializers, Top.s, item)
  OBVIOUS
<1>3. /\ Serials(t, heap) /\ Len(t) = n
      /\ \A i \in DOMAIN serializers : Closed(t, warnings, i) <=> Closed(serializers, warnings, i)
  BY <1>1, <1>2, BodyKeeps DEF WInv
<1>4. DOMAIN t = 1..n
  BY <1>3, ListedLen DEF Serials
<1>5. Frames(doc, n, stack) /\ stack # <<>> /\ pc = "building"
  BY <1>1 DEF WInv, Building
<1>6. Frames(doc, n, Advance(stack)) /\ \A i : Open(Advance(stack), i) <=> Open(stack, i)
  BY <1>5, AdvanceFrames
<1>7. \A i \in DOMAIN serializers : Closed(serializers, warnings, i) \/ Open(stack, i)
  BY <1>5 DEF WInv
<1>8. \A i \in 1..n : Closed(t, warnings, i) \/ Open(Advance(stack), i)
  BY <1>1, <1>3, <1>6, <1>7
<1>9. QED
  BY <1>1, <1>2, <1>3, <1>4, <1>6, <1>8

LEMMA AddTextKeeps == ASSUME WInv, AddText PROVE WInv'
<1>1. PICK t : t = AddBody(serializers, Top.s, Item("text", Anonymous, 0))
  OBVIOUS
<1>2. /\ Building /\ serializers' = t /\ stack' = Advance(stack)
      /\ UNCHANGED <<doc, pc, heap, warnings>>
  BY <1>1 DEF AddText
<1>3. /\ Serials(t, heap) /\ Len(t) = Len(serializers)
      /\ Frames(doc, Len(serializers), Advance(stack))
      /\ \A i \in DOMAIN t : Closed(t, warnings, i) \/ Open(Advance(stack), i)
  BY <1>1, <1>2, BodyAdded
<1>4. QED
  BY <1>2, <1>3 DEF WInv, Building

LEMMA AddLineKeeps == ASSUME WInv, AddLine PROVE WInv'
<1>1. Building /\ UNCHANGED <<doc, warnings>>
  BY DEF AddLine
<1>2. PICK w : /\ w = NameTag(Work(heap, Top.s, Parents(serializers)), PropertyNs(NextChild.prop))
               /\ IF w.ok
                  THEN /\ heap' = w.heap
                       /\ serializers' = AddBody(serializers, Top.s, Item("line", w.tag, 0))
                       /\ stack' = Advance(stack)
                       /\ UNCHANGED pc
                  ELSE pc' = "failed" /\ UNCHANGED <<heap, serializers, stack>>
  BY DEF AddLine
<1>3. CASE ~w.ok
  BY <1>1, <1>2, <1>3, FailedKeeps
<1>4. CASE w.ok
  <2>1. PICK item : item = Item("line", w.tag, 0)
    OBVIOUS
  <2>2. PICK t : t = AddBody(serializers, Top.s, item)
    OBVIOUS
  <2>3. /\ Serials(t, heap) /\ Len(t) = Len(serializers) /\ DOMAIN t = 1..Len(serializers)
        /\ Frames(doc, Len(serializers), Advance(stack))
        /\ \A i \in DOMAIN t : Closed(t, warnings, i) \/ Open(Advance(stack), i)
    BY <1>1, <2>2, BodyAdded
  <2>4. Serials(t, w.heap)
    <3>1. Parents(t) = Parents(serializers)
      BY <2>2, BodyKeeps DEF WInv
    <3>2. PICK s \in 1..Len(t) : s = Top.s
      BY <1>1, <2>3, TopTypes
    <3>3. PICK prop : prop = NextChild.prop
      OBVIOUS
    <3>4. w = NameTag(Work(heap, s, Parents(t)), PropertyNs(prop))
      BY <1>2, <3>1, <3>2, <3>3
    <3>5. QED
      BY <1>4, <2>3, <3>4, LineKeeps
  <2>5. heap' = w.heap /\ serializers' = t /\ stack' = Advance(stack) /\ pc' = pc
    BY <1>2, <1>4, <2>1, <2>2
  <2>6. QED
    BY <1>1, <2>3, <2>4, <2>5 DEF WInv, Building
<1>5. QED
  BY <1>3, <1>4

LEMMA AddElementKeeps == ASSUME WInv, AddElement PROVE WInv'
<1>1. PICK n \in Nat : n = Len(serializers)
  BY ListedLen DEF WInv, Serials
<1>2. PICK t : t = AddBody(serializers, Top.s, Item("element", Anonymous, Len(serializers) + 1))
  OBVIOUS
<1>3. Building /\ HasChild /\ NextChild.kind = "element" /\ UNCHANGED <<doc, warnings>>
  BY DEF AddElement
<1>4. /\ Serials(t, heap) /\ Len(t) = n
      /\ Frames(doc, n, Advance(stack))
      /\ \A i \in DOMAIN t : Closed(t, warnings, i) \/ Open(Advance(stack), i)
  BY <1>1, <1>2, <1>3, BodyAdded
<1>5. PICK k \in DOMAIN doc.nodes : k = NextChild.node
  BY <1>3, TopTypes DEF IsChild
<1>6. PICK parent \in 0..Len(t) : parent = Top.s
  BY <1>1, <1>3, <1>4, TopTypes
<1>7. PICK prop : prop = NextChild.prop
  OBVIOUS
<1>8. PICK frames : frames = Advance(stack)
  OBVIOUS
<1>9. EnterElement(heap, t, parent, k, prop, frames)
  BY <1>2, <1>5, <1>6, <1>7, <1>8 DEF AddElement
<1>10. pc = "building" /\ Frames(doc, Len(t), frames)
  BY <1>3, <1>4, <1>8 DEF Building
<1>11. \A i \in DOMAIN t : Closed(t, warnings, i) \/ Open(frames, i)
  BY <1>4, <1>8
<1>12. QED
  BY <1>3, <1>4, <1>9, <1>10, <1>11, EnterElementKeeps

(* Attributes are warned about under their serializer.                     *)
LEMMA WarningsAdded ==
    ASSUME NEW ws, Listed(ws), NEW warned, Listed(warned), NEW s
    PROVE  LET vs == ws \o [i \in DOMAIN warned |-> [s |-> s, attr |-> warned[i]]] IN
           /\ Listed(vs) /\ \A x \in Range(ws) : x \in Range(vs)
           /\ \A a \in Range(warned) : [s |-> s, attr |-> a] \in Range(vs)
<1>1. PICK m \in Nat : m = Len(warned) /\ DOMAIN warned = 1..m
  BY ListedLen
<1>2. PICK f : f = [i \in DOMAIN warned |-> [s |-> s, attr |-> warned[i]]]
  OBVIOUS
<1>3. DOMAIN f = 1..m /\ f = [i \in 1..m |-> f[i]]
      /\ \A i \in 1..m : f[i] = [s |-> s, attr |-> warned[i]]
  BY <1>1, <1>2
<1>4. Listed(f)
  BY <1>3, ListedFunction
<1>5. PICK vs : vs = ws \o f
  OBVIOUS
<1>6. /\ Listed(vs) /\ \A i \in DOMAIN ws : i \in DOMAIN vs /\ vs[i] = ws[i]
      /\ \A i \in DOMAIN f : Len(ws) + i \in DOMAIN vs /\ vs[Len(ws) + i] = f[i]
  BY <1>4, <1>5, ListedConcat
<1>7. \A x \in Range(ws) : x \in Range(vs)
  BY <1>6 DEF Range
<1>8. ASSUME NEW a \in Range(warned)
      PROVE  [s |-> s, attr |-> a] \in Range(vs)
  <2>1. PICK i \in 1..m : a = warned[i]
    BY <1>1 DEF Range
  <2>2. PICK j \in DOMAIN vs : vs[j] = f[i]
    BY <1>3, <1>6
  <2>3. vs[j] = [s |-> s, attr |-> a]
    BY <1>3, <2>1, <2>2
  <2>4. QED
    BY <2>3 DEF Range
<1>9. QED
  BY <1>2, <1>5, <1>6, <1>7, <1>8

(* One serializer is replaced by itself with other work.                   *)
Replaced(ss, t, h, s, x) ==
    /\ Serials(t, h) /\ Len(t) = Len(ss) /\ DOMAIN t = DOMAIN ss /\ t[s] = x
    /\ \A i \in DOMAIN ss : i # s => t[i] = ss[i]

LEMMA WorkReplaced ==
    ASSUME NEW ss, NEW h, Serials(ss, h), NEW s \in DOMAIN ss,
           NEW x, IsSerializer(x, s), x.parent = ss[s].parent,
           NEW t, t = [ss EXCEPT ![s] = x]
    PROVE  Replaced(ss, t, h, s, x)
<1>1. Listed(ss) /\ \A i \in DOMAIN ss : IsSerializer(ss[i], i)
  BY DEF Serials
<1>2. /\ Listed(t) /\ Len(t) = Len(ss) /\ DOMAIN t = DOMAIN ss
      /\ \A i \in DOMAIN ss : t[i] = IF i = s THEN x ELSE ss[i]
  <2>1. Listed(ss)
    BY <1>1
  <2>2. QED
    <3> HIDE <1>1
    <3> QED BY <2>1, ListedExcept
<1>3. \A i \in DOMAIN ss : t[i].parent = ss[i].parent /\ IsSerializer(t[i], i)
  BY <1>1, <1>2
<1>4. Parents(t) = Parents(ss)
  BY <1>2, <1>3 DEF Parents
<1>5. Serials(t, h)
  BY <1>2, <1>3, <1>4 DEF Serials
<1>6. QED
  BY <1>2, <1>5 DEF Replaced

LEMMA ExitStepKeeps == ASSUME WInv, Exit PROVE WInv'
<1>1. Building /\ pc = "building" /\ stack # <<>> /\ UNCHANGED doc
  BY DEF Exit, Building
<1>2. PICK n \in Nat : n = Len(serializers) /\ DOMAIN serializers = 1..n
  BY ListedLen DEF WInv, Serials
<1>3. PICK s \in 1..n : s = Top.s
  BY <1>1, <1>2, TopTypes
<1>4. PICK x : x = serializers[s]
  OBVIOUS
<1>5. PICK w : w = [x.work EXCEPT !.heap = heap]
  OBVIOUS
<1>6. PICK r : /\ r = WriteOthers(w, x.work.others)
               /\ heap' = r.work.heap
               /\ serializers' = [serializers EXCEPT ![s].work = [r.work EXCEPT !.heap = 0]]
               /\ warnings' = warnings \o [i \in DOMAIN r.warned |-> [s |-> s, attr |-> r.warned[i]]]
  BY <1>3, <1>4, <1>5 DEF Exit
<1>7. IsSerializer(x, s)
  BY <1>2, <1>4 DEF WInv, Serials
<1>8. IsWork(w) /\ w.s = s /\ w.heap = heap /\ w.others = x.work.others
  BY <1>5, <1>7, Reheaped DEF IsSerializer
<1>9. IsHeap(heap, n) /\ Settled(heap, s)
  BY <1>2 DEF WInv, Serials, AllSettled
<1>10. /\ IsWork(r.work) /\ r.work.s = s /\ r.work.others = w.others
       /\ Rescoped(heap, r.work.heap) /\ Listed(r.warned)
       /\ \A a \in Range(w.others) : Kept(r, a)
  <2>1. r = WriteOthers(w, w.others)
    BY <1>6, <1>8
  <2>2. QED
    BY <1>8, <1>9, <2>1, ExitKeeps
<1>11. PICK v : v = [r.work EXCEPT !.heap = 0]
  OBVIOUS
<1>12. IsWork(v) /\ v.s = s /\ v.others = w.others /\ v.attrs = r.work.attrs
  BY <1>10, <1>11, Reheaped
<1>13. PICK t : t = [serializers EXCEPT ![s].work = v]
  OBVIOUS
<1>14. /\ Serials(t, heap) /\ Len(t) = n /\ DOMAIN t = 1..n /\ t[s].work = v
       /\ \A i \in 1..n : i # s => t[i] = serializers[i]
  <2>1. Serials(serializers, heap) /\ s \in DOMAIN serializers
    BY <1>2 DEF WInv
  <2>2. PICK y : y = [x EXCEPT !.work = v]
    OBVIOUS
  <2>3. IsSerializer(y, s) /\ y.parent = x.parent /\ y.work = v
    BY <1>7, <1>12, <2>2 DEF IsSerializer, SerialKeys
  <2>4. t = [serializers EXCEPT ![s] = y]
    BY <1>4, <1>13, <2>2
  <2>5. Replaced(serializers, t, heap, s, y)
    BY <1>4, <2>1, <2>3, <2>4, WorkReplaced
  <2>6. QED
    BY <1>2, <2>3, <2>5 DEF Replaced
<1>15. Serials(t, r.work.heap)
  BY <1>10, <1>14, RescopedSerials
<1>16. PICK ws : ws = warnings \o [i \in DOMAIN r.warned |-> [s |-> s, attr |-> r.warned[i]]]
  OBVIOUS
<1>17. /\ Listed(ws) /\ \A y \in Range(warnings) : y \in Range(ws)
       /\ \A a \in Range(r.warned) : [s |-> s, attr |-> a] \in Range(ws)
  BY <1>10, <1>16, WarningsAdded DEF WInv
<1>18. Closed(t, ws, s)
  BY <1>10, <1>12, <1>14, <1>17 DEF Closed, Kept
<1>19. \A i \in 1..n : Closed(serializers, warnings, i) => Closed(t, ws, i)
  BY <1>14, <1>17, <1>18 DEF Closed
<1>20. heap' = r.work.heap /\ serializers' = t /\ warnings' = ws
  BY <1>6, <1>11, <1>13, <1>16
<1>21. Frames(doc, n, stack) /\ \A i \in 1..n : Closed(serializers, warnings, i) \/ Open(stack, i)
  BY <1>1, <1>2 DEF WInv
<1>22. /\ Frames(doc, n, Front(stack))
       /\ \A i : Open(stack, i) => Open(Front(stack), i) \/ i = s
  BY <1>1, <1>3, <1>21, PopFrame DEF Top
<1>23. CASE Len(stack) > 1
  <2>1. stack' = Front(stack) /\ pc' = pc
    BY <1>23 DEF Exit
  <2>2. \A i \in 1..n : Closed(t, ws, i) \/ Open(Front(stack), i)
    BY <1>18, <1>19, <1>21, <1>22
  <2>3. QED
    BY <1>1, <1>14, <1>15, <1>17, <1>20, <1>22, <2>1, <2>2 DEF WInv
<1>24. CASE ~(Len(stack) > 1)
  <2>1. pc' = "writing"
    BY <1>24 DEF Exit
  <2>2. \A i : ~Open(Front(stack), i)
    <3>1. PICK T : stack \in Seq(T)
      BY <1>21 DEF Frames, Listed
    <3>2. DOMAIN Front(stack) = 1..Len(stack) - 1 /\ Len(stack) \in Nat
      BY <3>1 DEF Front
    <3>3. DOMAIN Front(stack) = {}
      BY <1>24, <3>2
    <3>4. QED
      BY <3>3 DEF Open
  <2>3. \A i \in 1..n : Closed(t, ws, i)
    BY <1>18, <1>19, <1>21, <1>22, <2>2
  <2>4. QED
    BY <1>1, <1>14, <1>15, <1>17, <1>20, <2>1, <2>3 DEF WInv
<1>25. QED
  BY <1>23, <1>24

(* The tags are written of serializers that no longer change.              *)
LEMMA WritingKeeps == ASSUME WInv, OpenTag \/ WriteChild \/ CloseTag PROVE WInv'
<1>1. UNCHANGED <<doc, heap, serializers, warnings>> /\ pc = "writing"
  BY DEF OpenTag, WriteChild, CloseTag, Writing
<1>2. pc' \in {"writing", "done"}
  BY <1>1 DEF OpenTag, WriteChild, CloseTag, Pop
<1>3. QED
  BY <1>1, <1>2 DEF WInv

LEMMA InitKeeps == Init => WInv
<1>1. SUFFICES ASSUME Init PROVE WInv
  OBVIOUS
<1>2. /\ serializers = <<>> /\ stack = <<>> /\ warnings = <<>>
      /\ heap = [scopes |-> <<>>, own |-> <<>>, memo |-> <<>>]
      /\ doc \in Documents /\ pc = "building"
  BY <1>1, Zenon DEF Init
<1>3. IsHeap(heap, 0)
  <2>1. heap.scopes = <<>> /\ heap.own = <<>> /\ heap.memo = <<>> /\ DOMAIN heap = {"scopes", "own", "memo"}
    BY <1>2
  <2>2. QED
    BY <2>1, ListedEmpty DEF IsHeap
<1>4. PICK p : p = Parents(<<>>)
  OBVIOUS
<1>5. Listed(p) /\ Len(p) = 0
  <2>1. p = <<>>
    BY <1>4 DEF Parents
  <2>2. QED
    BY <2>1, ListedEmpty
<1>6. AllSettled(heap, p, 0)
  BY <1>3, <1>5 DEF AllSettled, Tree
<1>7. Serials(serializers, heap)
  BY <1>2, <1>4, <1>6, ListedEmpty DEF Serials
<1>8. Frames(doc, 0, stack) /\ Listed(warnings)
  BY <1>2, ListedEmpty DEF Frames
<1>9. Len(serializers) = 0 /\ DOMAIN serializers = {}
  BY <1>2
<1>10. QED
  BY <1>2, <1>7, <1>8, <1>9 DEF WInv

LEMMA NextKeeps == WInv /\ [Next]_vars => WInv'
<1>1. SUFFICES ASSUME WInv, [Next]_vars PROVE WInv'
  OBVIOUS
<1>2. CASE Start
  BY <1>1, <1>2, StartKeeps
<1>3. CASE AddText
  BY <1>1, <1>3, AddTextKeeps
<1>4. CASE AddLine
  BY <1>1, <1>4, AddLineKeeps
<1>5. CASE AddElement
  BY <1>1, <1>5, AddElementKeeps
<1>6. CASE Exit
  BY <1>1, <1>6, ExitStepKeeps
<1>7. CASE OpenTag \/ WriteChild \/ CloseTag
  BY <1>1, <1>7, WritingKeeps
<1>8. CASE UNCHANGED vars
  BY <1>1, <1>8 DEF WInv, vars
<1>9. QED
  BY <1>1, <1>2, <1>3, <1>4, <1>5, <1>6, <1>7, <1>8 DEF Next

LEMMA Invariant == Spec => []WInv
BY InitKeeps, NextKeeps, PTL DEF Spec

-----------------------------------------------------------------------------
(* The equation of MemoFresh has one solution, what serializers reach.     *)
Owners(h, ss, f) ==
    f = [a \in 0..Len(ss) |-> IF a = 0 THEN 0 ELSE IF h.own[a] # 0 THEN h.own[a] ELSE f[ss[a].parent]]

LEMMA ReachSolves ==
    ASSUME NEW ss, NEW h, Serials(ss, h)
    PROVE  Owners(h, ss, [a \in 0..Len(ss) |-> Reach(h, a)])
<1>1. PICK n \in Nat : n = Len(ss) /\ DOMAIN ss = 1..n
  BY ListedLen DEF Serials
<1>2. PICK p : p = Parents(ss)
  OBVIOUS
<1>3. \A a \in 1..n : p[a] = ss[a].parent /\ p[a] \in 0..a - 1 /\ Settled(h, a) /\ Linked(h, p, a)
  BY <1>1, <1>2 DEF Serials, AllSettled, Tree, Parents
<1>4. PICK g : g = [a \in 0..n |-> Reach(h, a)]
  OBVIOUS
<1>5. ASSUME NEW a \in 0..n
      PROVE  g[a] = IF a = 0 THEN 0 ELSE IF h.own[a] # 0 THEN h.own[a] ELSE g[ss[a].parent]
  <2>1. CASE a = 0
    BY <1>4, <2>1 DEF Reach
  <2>2. CASE a # 0
    <3>1. a \in 1..n
      BY <2>2
    <3>2. PICK b \in 0..n : b = ss[a].parent
      BY <1>3, <3>1
    <3>3. h.own[a] = 0 => h.memo[a] = Reach(h, b)
      BY <1>3, <3>1, <3>2 DEF Settled, Linked
    <3>4. g[a] = Reach(h, a) /\ g[b] = Reach(h, b)
      BY <1>4
    <3>5. QED
      BY <2>2, <3>2, <3>3, <3>4 DEF Reach, ScopeOf
  <2>3. QED
    BY <2>1, <2>2
<1>6. Owners(h, ss, g)
  BY <1>1, <1>4, <1>5 DEF Owners
<1>7. QED
  BY <1>1, <1>4, <1>6

LEMMA OwnersReach ==
    ASSUME NEW ss, NEW h, Serials(ss, h), NEW f, Owners(h, ss, f)
    PROVE  \A a \in 0..Len(ss) : f[a] = Reach(h, a)
<1>1. PICK n \in Nat : n = Len(ss) /\ DOMAIN ss = 1..n
  BY ListedLen DEF Serials
<1>2. PICK g : g = [a \in 0..n |-> Reach(h, a)]
  OBVIOUS
<1>3. Owners(h, ss, g)
  BY <1>1, <1>2, ReachSolves
<1>4. \A a \in 1..n : ss[a].parent \in 0..a - 1
  <2>1. PICK p : p = Parents(ss)
    OBVIOUS
  <2>2. \A a \in 1..n : p[a] = ss[a].parent /\ p[a] \in 0..a - 1
    BY <1>1, <2>1 DEF Serials, AllSettled, Tree, Parents
  <2>3. QED
    BY <2>2
<1> DEFINE S == {m \in Nat : \A a \in 0..n : a <= m => f[a] = g[a]}
<1>5. 0 \in S
  <2>1. f[0] = 0 /\ g[0] = 0
    BY <1>1, <1>3 DEF Owners
  <2>2. QED
    BY <2>1
<1>6. ASSUME NEW m \in Nat, m \in S
      PROVE  m + 1 \in S
  <2>1. ASSUME NEW a \in 0..n, a = m + 1
        PROVE  f[a] = g[a]
    <3>1. a \in 1..n
      BY <2>1
    <3>2. PICK b \in 0..n : b = ss[a].parent /\ b <= m
      BY <1>4, <2>1, <3>1
    <3>3. f[b] = g[b]
      BY <1>6, <3>2
    <3>4. f[a] = IF h.own[a] # 0 THEN h.own[a] ELSE f[b]
      BY <1>1, <3>1, <3>2 DEF Owners
    <3>5. g[a] = IF h.own[a] # 0 THEN h.own[a] ELSE g[b]
      BY <1>1, <1>3, <3>1, <3>2 DEF Owners
    <3>6. QED
      BY <3>3, <3>4, <3>5
  <2>2. \A a \in 0..n : a <= m + 1 => a = m + 1 \/ a <= m
    OBVIOUS
  <2>3. QED
    BY <1>6, <2>1, <2>2
<1>7. \A m \in Nat : m \in S
  <2> HIDE DEF S
  <2> QED
    BY <1>5, <1>6, I!Induction
<1>8. \A a \in 0..n : f[a] = g[a]
  BY <1>7
<1>9. QED
  BY <1>1, <1>2, <1>8

LEMMA FreshFromInvariant == WInv => MemoFresh
<1>1. SUFFICES ASSUME WInv PROVE MemoFresh
  OBVIOUS
<1>2. Serials(serializers, heap)
  BY <1>1 DEF WInv
<1>3. PICK f : f = CHOOSE g : Owners(heap, serializers, g)
  OBVIOUS
<1>4. Owners(heap, serializers, f)
  BY <1>2, <1>3, ReachSolves
<1>5. PICK n \in Nat : n = Len(serializers) /\ DOMAIN serializers = 1..n
  BY <1>2, ListedLen DEF Serials
<1>6. ASSUME NEW s \in 1..n, heap.memo[s] # Unset
      PROVE  heap.memo[s] = f[serializers[s].parent]
  <2>1. PICK p : p = Parents(serializers)
    OBVIOUS
  <2>2. p[s] = serializers[s].parent /\ p[s] \in 0..s - 1 /\ Linked(heap, p, s)
    BY <1>2, <1>5, <2>1 DEF Serials, AllSettled, Tree, Parents
  <2>3. PICK b \in 0..n : b = serializers[s].parent
    BY <2>2
  <2>4. f[b] = Reach(heap, b)
    BY <1>2, <1>4, <1>5, OwnersReach
  <2>5. QED
    BY <1>6, <2>2, <2>3, <2>4 DEF Linked
<1>7. QED
  BY <1>3, <1>5, <1>6 DEF MemoFresh, Owners

(* Whatever stands in the place of a value is alike.                       *)
LEMMA CarriedStands ==
    ASSUME NEW own, NEW b, Sourced(own, b), NEW a, Carries(b, a)
    PROVE  Stands(own, b, a)
<1>1. PICK s : s = b.from
  OBVIOUS
<1>2. PICK n \in Nat : n = Len(s) /\ DOMAIN s = 1..n
  BY <1>1, ListedLen DEF Sourced
<1>3. n # 0
  BY <1>1, <1>2 DEF Sourced, Listed
<1>4. n \in DOMAIN s
  BY <1>2, <1>3
<1>5. PICK i \in DOMAIN s : s[i].prefix = a.prefix /\ s[i].name = a.name
  BY <1>1 DEF Carries
<1>6. Alike(own, s[i], s[n])
  BY <1>1, <1>4, <1>5 DEF Sourced, Fits, Alike
<1>7. QED
  BY <1>1, <1>2, <1>5, <1>6 DEF Stands

LEMMA KeptFromInvariant == WInv => AttributesKept
<1>1. SUFFICES ASSUME WInv PROVE AttributesKept
  OBVIOUS
<1>2. AttributesDistinct
  <2>1. \A s \in DOMAIN serializers : Distinct(serializers[s].work.attrs)
    BY <1>1 DEF WInv, Serials, IsSerializer, IsWork
  <2>2. QED
    BY <2>1 DEF AttributesDistinct, Distinct, SameAttribute
<1>3. NothingLost
  <2>1. SUFFICES ASSUME pc = "done", NEW s \in DOMAIN serializers,
                        NEW a \in Range(serializers[s].work.others)
                 PROVE  \/ \E b \in Range(serializers[s].work.attrs) : Stands(OwnUri(serializers[s].work), b, a)
                        \/ [s |-> s, attr |-> a] \in Range(warnings)
    BY DEF NothingLost
  <2>2. Closed(serializers, warnings, s)
    BY <1>1, <2>1 DEF WInv
  <2>3. CASE Holding(serializers[s].work.attrs, a)
    <3>1. PICK w : w = serializers[s].work
      OBVIOUS
    <3>2. PICK i \in DOMAIN w.attrs : Carries(w.attrs[i], a)
      BY <2>3, <3>1 DEF Holding
    <3>3. PICK b : b = w.attrs[i]
      OBVIOUS
    <3>4. PICK own : own = OwnUri(w)
      OBVIOUS
    <3>5. Sourced(own, b)
      BY <1>1, <3>1, <3>2, <3>3, <3>4 DEF WInv, Serials, IsSerializer, IsWork, Sound
    <3>6. Stands(own, b, a)
      BY <3>2, <3>3, <3>5, CarriedStands
    <3>7. b \in Range(w.attrs)
      BY <3>2, <3>3 DEF Range
    <3>8. QED
      BY <3>1, <3>4, <3>6, <3>7
  <2>4. QED
    BY <2>2, <2>3 DEF Closed
<1>4. QED
  BY <1>2, <1>3 DEF AttributesKept

-----------------------------------------------------------------------------
(* The scope a serializer memoized is the one its ancestors lead to, for   *)
(* every document: the cache of ElementSerializer.get_parent_namespaces is *)
(* never stale.                                                            *)
THEOREM MemosStayFresh == Spec => []MemoFresh
BY Invariant, FreshFromInvariant, PTL

(* Whatever attributes a document has, each other one of a written element *)
(* is written with its value, or warned about, or one alike is written in  *)
(* its place: one of the same name and namespace, those without a prefix   *)
(* and those of the element's own namespace being alike.  No two are the   *)
(* same.                                                                   *)
THEOREM AttributesStayKept == Spec => []AttributesKept
BY Invariant, KeptFromInvariant, PTL
=============================================================================
