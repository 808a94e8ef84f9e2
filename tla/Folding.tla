------------------------------ MODULE Folding ------------------------------
(***************************************************************************)
(* Induction, for the modules of proofs.  A fact about what a fold of a    *)
(* sequence computes needs induction on the sequence; a theorem that takes *)
(* an operator as a parameter cannot be used by the provers, but a module  *)
(* that declares the operators as constants can: its lemmas are about Op   *)
(* and Holds, and an INSTANCE with other operators makes them lemmas about *)
(* these.  The first argument of both is a context that does not change.   *)
(* The last section is about recursion, with another reading of both.      *)
(***************************************************************************)
EXTENDS Integers, SequencesExt, SequenceTheorems, WellFoundedInduction, TLAPS

CONSTANTS
    Op(_, _, _),  \* context, accumulator, element: the next accumulator
    Holds(_, _)   \* context, accumulator: what is claimed of the accumulator

-----------------------------------------------------------------------------
(* A set of numbers has a least one.                                       *)
LEMMA Least == ASSUME NEW T \in SUBSET Nat, T # {} PROVE \E m \in T : \A k \in T : m <= k
<1> DEFINE R == {ss \in Nat \X Nat : ss[1] < ss[2]}
<1>1. IsWellFoundedOn(R, Nat)
  BY NatLessThanWellFounded DEF OpToRel
<1>2. \E x \in T : \A y \in T : ~ (<<y, x>> \in R)
  <2> HIDE DEF R
  <2> QED BY <1>1, WFMin
<1>3. PICK m \in T : \A k \in T : ~ (<<k, m>> \in R)
  BY <1>2
<1>4. \A k \in T : m <= k
  <2>1. ASSUME NEW k \in T, k < m PROVE FALSE
    <3>1. <<k, m>> \in Nat \X Nat OBVIOUS
    <3>2. <<k, m>>[1] < <<k, m>>[2] BY <2>1
    <3>3. <<k, m>> \in R BY <3>1, <3>2
    <3>4. QED BY <3>3, <1>3
  <2>2. QED BY <2>1
<1>5. QED BY <1>4

(* Induction over the numbers, for a set.                                  *)
LEMMA Induction ==
    ASSUME NEW T, 0 \in T, \A n \in Nat : n \in T => n + 1 \in T
    PROVE  \A n \in Nat : n \in T
<1>1. SUFFICES ASSUME Nat \ T # {} PROVE FALSE
  OBVIOUS
<1>2. PICK m \in Nat \ T : \A k \in Nat \ T : m <= k
  BY <1>1, Least
<1>3. QED BY <1>2

-----------------------------------------------------------------------------
(* The fold of s from b, and the function by which it is defined: what the *)
(* fold of the elements at the positions of t is.                          *)
Fold(c, b, s) == FoldLeft(LAMBDA a, e : Op(c, a, e), b, s)

Iterates(c, g, n, b, s) ==
    g = [t \in SUBSET (1..n) |->
            IF t = {} THEN b ELSE Op(c, g[t \ {Max(t)}], s[Max(t)])]

(* A fold is read off the function that solves the recursion.              *)
LEMMA FoldIterates ==
    ASSUME NEW c, NEW b, NEW s, NEW n \in Nat, DOMAIN s = 1..n
    PROVE  Fold(c, b, s) = (CHOOSE g : Iterates(c, g, n, b, s))[1..n]
BY DEF Fold, FoldLeft, MapThenFoldSet, Iterates

(* The greatest of a set of positions that holds the last.                 *)
LEMMA MaxIs ==
    ASSUME NEW n \in Nat, NEW t \in SUBSET (1..n+1), n + 1 \in t
    PROVE  Max(t) = n + 1 /\ t \ {n + 1} \in SUBSET (1..n)
<1>1. \A y \in t : n + 1 >= y
  OBVIOUS
<1>2. \A x \in t : (\A y \in t : x >= y) => x = n + 1
  OBVIOUS
<1>3. Max(t) = n + 1
  BY <1>1, <1>2 DEF Max
<1>4. QED BY <1>3

(* The recursion has one solution, whose values depend on the elements up  *)
(* to their position only.                                                *)
LEMMA Unique ==
    ASSUME NEW c, NEW b, NEW s, NEW z, NEW n \in Nat, NEW m \in Nat, n <= m, NEW g, NEW h,
           \A i \in 1..n : s[i] = z[i], Iterates(c, g, n, b, s), Iterates(c, h, m, b, z)
    PROVE  g[1..n] = h[1..n]
<1> DEFINE T == {k \in Nat : k <= n => \A t \in SUBSET (1..k) : g[t] = h[t]}
<1>1. 0 \in T
  <2>1. \A t \in SUBSET (1..0) : t = {} /\ t \in SUBSET (1..n) /\ t \in SUBSET (1..m)
    OBVIOUS
  <2>2. QED BY <2>1 DEF Iterates
<1>2. ASSUME NEW k \in Nat, k \in T PROVE k + 1 \in T
  <2>1. SUFFICES ASSUME k + 1 <= n, NEW t \in SUBSET (1..k+1) PROVE g[t] = h[t]
    OBVIOUS
  <2>2. CASE k + 1 \notin t
    <3>1. t \in SUBSET (1..k) BY <2>2
    <3>2. QED BY <3>1, <1>2, <2>1
  <2>3. CASE k + 1 \in t
    <3>1. Max(t) = k + 1 /\ t \ {k + 1} \in SUBSET (1..k) BY <2>3, MaxIs
    <3>2. t # {} /\ t \in SUBSET (1..n) /\ t \in SUBSET (1..m) BY <2>1, <2>3
    <3>3. g[t] = Op(c, g[t \ {k+1}], s[k+1]) BY <3>1, <3>2 DEF Iterates
    <3>4. h[t] = Op(c, h[t \ {k+1}], z[k+1]) BY <3>1, <3>2 DEF Iterates
    <3>5. QED BY <3>1, <3>3, <3>4, <1>2, <2>1
  <2>4. QED BY <2>2, <2>3
<1>3. \A k \in Nat : k \in T
  <2> HIDE DEF T
  <2> QED BY <1>1, <1>2, Induction
<1>4. n \in T BY <1>3
<1>5. QED BY <1>4

(* The recursion has a solution.                                           *)
LEMMA Exists ==
    ASSUME NEW c, NEW b, NEW s
    PROVE  \A n \in Nat : \E g : Iterates(c, g, n, b, s)
<1> DEFINE T == {n \in Nat : \E g : Iterates(c, g, n, b, s)}
<1>1. 0 \in T
  <2>1. Iterates(c, [t \in SUBSET (1..0) |-> b], 0, b, s)
    <3>1. \A t \in SUBSET (1..0) : t = {} OBVIOUS
    <3>2. QED BY <3>1 DEF Iterates
  <2>2. QED BY <2>1
<1>2. ASSUME NEW n \in Nat, n \in T PROVE n + 1 \in T
  <2>1. PICK g : Iterates(c, g, n, b, s) BY <1>2
  <2> DEFINE h == [t \in SUBSET (1..n+1) |-> IF n + 1 \in t THEN Op(c, g[t \ {n+1}], s[n+1]) ELSE g[t]]
  <2>2. ASSUME NEW t \in SUBSET (1..n+1)
        PROVE  h[t] = IF t = {} THEN b ELSE Op(c, h[t \ {Max(t)}], s[Max(t)])
    <3>1. CASE n + 1 \in t
      <4>1. Max(t) = n + 1 /\ t \ {n + 1} \in SUBSET (1..n) BY <3>1, MaxIs
      <4>2. h[t \ {n+1}] = g[t \ {n+1}] BY <4>1
      <4>3. QED BY <4>1, <4>2, <3>1
    <3>2. CASE n + 1 \notin t
      <4>1. t \in SUBSET (1..n) BY <3>2
      <4>2. h[t] = g[t] BY <3>2
      <4>3. g[t] = IF t = {} THEN b ELSE Op(c, g[t \ {Max(t)}], s[Max(t)]) BY <4>1, <2>1 DEF Iterates
      <4>4. t \ {Max(t)} \in SUBSET (1..n+1) /\ n + 1 \notin t \ {Max(t)} BY <3>2
      <4>5. h[t \ {Max(t)}] = g[t \ {Max(t)}] BY <4>4
      <4>6. QED BY <4>2, <4>3, <4>5
    <3>3. QED BY <3>1, <3>2
  <2>3. Iterates(c, h, n + 1, b, s)
    <3> DEFINE f == [t \in SUBSET (1..n+1) |-> IF t = {} THEN b ELSE Op(c, h[t \ {Max(t)}], s[Max(t)])]
    <3>1. \A t \in SUBSET (1..n+1) : h[t] = f[t] BY <2>2
    <3>2. h = f BY <3>1
    <3>3. QED BY <3>2 DEF Iterates
  <2>4. QED BY <2>3
<1>3. \A k \in Nat : k \in T
  <2> HIDE DEF T
  <2> QED BY <1>1, <1>2, Induction
<1>4. QED BY <1>3

(* A fold of nothing is where it starts.                                   *)
LEMMA FoldEmpty ==
    ASSUME NEW c, NEW b
    PROVE  Fold(c, b, <<>>) = b
<1>1. PICK g : g = (CHOOSE f : Iterates(c, f, 0, b, <<>>))
  OBVIOUS
<1>2. Iterates(c, g, 0, b, <<>>)
  BY <1>1, Exists
<1>3. g[1..0] = b
  <2>1. 1..0 = {} /\ 1..0 \in SUBSET (1..0)
    OBVIOUS
  <2>2. QED
    BY <2>1, <1>2 DEF Iterates
<1>4. DOMAIN <<>> = 1..0
  OBVIOUS
<1>5. QED
  BY <1>1, <1>3, <1>4, FoldIterates

(* A fold takes the elements one by one.                                   *)
LEMMA FoldAppend ==
    ASSUME NEW c, NEW b, NEW S, NEW s \in Seq(S), NEW e \in S
    PROVE  Fold(c, b, Append(s, e)) = Op(c, Fold(c, b, s), e)
<1>1. PICK n \in Nat : n = Len(s)
  OBVIOUS
<1>2. PICK m \in Nat : m = n + 1
  OBVIOUS
<1>3. PICK z : z = Append(s, e)
  OBVIOUS
<1>4. /\ DOMAIN s = 1..n /\ DOMAIN z = 1..m
      /\ z[m] = e /\ \A i \in 1..n : s[i] = z[i]
  BY <1>1, <1>2, <1>3
<1>5. PICK g : g = (CHOOSE f : Iterates(c, f, n, b, s))
  OBVIOUS
<1>6. PICK h : h = (CHOOSE f : Iterates(c, f, m, b, z))
  OBVIOUS
<1>7. Iterates(c, g, n, b, s) /\ Iterates(c, h, m, b, z)
  BY <1>5, <1>6, Exists
<1>8. g[1..n] = h[1..n]
  <2>1. n <= m /\ 1..n \in SUBSET (1..n)
    BY <1>2
  <2>2. \A i \in 1..n : s[i] = z[i]
    BY <1>4
  <2>3. QED
    BY <2>1, <2>2, <1>7, Unique
<1>9. h[1..m] = Op(c, h[1..n], e)
  <2>1. m \in 1..m /\ 1..m \in SUBSET (1..m)
    BY <1>2
  <2>2. (1..m) \ {m} = 1..n /\ 1..m # {}
    BY <1>2
  <2>3. Max(1..m) = m
    BY <2>1, <1>2, MaxIs
  <2>4. h[1..m] = Op(c, h[(1..m) \ {Max(1..m)}], z[Max(1..m)])
    BY <2>1, <2>2, <1>7 DEF Iterates
  <2>5. QED
    BY <2>2, <2>3, <2>4, <1>4
<1>10. Fold(c, b, s) = g[1..n] /\ Fold(c, b, z) = h[1..m]
  BY <1>4, <1>5, <1>6, FoldIterates
<1>11. QED
  BY <1>3, <1>8, <1>9, <1>10

-----------------------------------------------------------------------------
(* What an element is to a sequence, the fold of a prefix is to the next.  *)
LEMMA FoldPrefix ==
    ASSUME NEW c, NEW b, NEW S, NEW s \in Seq(S), NEW n \in 1..Len(s)
    PROVE  Fold(c, b, SubSeq(s, 1, n)) = Op(c, Fold(c, b, SubSeq(s, 1, n - 1)), s[n])
<1>1. PICK p : p = SubSeq(s, 1, n - 1)
  OBVIOUS
<1>2. PICK e \in S : e = s[n]
  OBVIOUS
<1>3. p \in Seq(S) /\ SubSeq(s, 1, n) = Append(p, e)
  BY <1>1, <1>2
<1>4. Fold(c, b, Append(p, e)) = Op(c, Fold(c, b, p), e)
  BY <1>3, FoldAppend
<1>5. QED
  BY <1>1, <1>2, <1>3, <1>4

(* What holds of the start, and is kept by every element, holds of a fold. *)
LEMMA FoldKeeps ==
    ASSUME NEW c, NEW b, NEW S, NEW s \in Seq(S), Holds(c, b),
           \A a : \A e \in S : Holds(c, a) => Holds(c, Op(c, a, e))
    PROVE  Holds(c, Fold(c, b, s))
<1> DEFINE T == {n \in Nat : n <= Len(s) => Holds(c, Fold(c, b, SubSeq(s, 1, n)))}
<1>1. 0 \in T
  <2>1. SubSeq(s, 1, 0) = <<>>
    OBVIOUS
  <2>2. QED
    BY <2>1, FoldEmpty
<1>2. ASSUME NEW n \in Nat, n \in T
      PROVE  n + 1 \in T
  <2>1. SUFFICES ASSUME n + 1 <= Len(s)
                 PROVE  Holds(c, Fold(c, b, SubSeq(s, 1, n + 1)))
    OBVIOUS
  <2>2. PICK m \in 1..Len(s) : m = n + 1 /\ m - 1 = n
    BY <2>1
  <2>3. Fold(c, b, SubSeq(s, 1, m)) = Op(c, Fold(c, b, SubSeq(s, 1, m - 1)), s[m])
    BY FoldPrefix
  <2>4. Holds(c, Fold(c, b, SubSeq(s, 1, n)))
    BY <1>2, <2>1
  <2>5. s[m] \in S
    OBVIOUS
  <2>6. QED
    BY <2>2, <2>3, <2>4, <2>5
<1>3. \A n \in Nat : n \in T
  <2> HIDE DEF T
  <2> QED
    BY <1>1, <1>2, Induction
<1>4. PICK m \in Nat : m = Len(s)
  OBVIOUS
<1>5. Holds(c, Fold(c, b, SubSeq(s, 1, m)))
  BY <1>3, <1>4
<1>6. SubSeq(s, 1, m) = s
  BY <1>4
<1>7. QED
  BY <1>5, <1>6

(* The same when what is claimed depends on how many elements were taken,  *)
(* and on what the fold does not read.                                     *)
LEMMA FoldCounts ==
    ASSUME NEW c, NEW k, NEW b, NEW S, NEW s \in Seq(S), Holds(<<k, 0>>, b),
           \A a : \A n \in 1..Len(s) : Holds(<<k, n - 1>>, a) => Holds(<<k, n>>, Op(c, a, s[n]))
    PROVE  Holds(<<k, Len(s)>>, Fold(c, b, s))
<1> DEFINE T == {n \in Nat : n <= Len(s) => Holds(<<k, n>>, Fold(c, b, SubSeq(s, 1, n)))}
<1>1. 0 \in T
  <2>1. SubSeq(s, 1, 0) = <<>>
    OBVIOUS
  <2>2. QED
    BY <2>1, FoldEmpty
<1>2. ASSUME NEW n \in Nat, n \in T
      PROVE  n + 1 \in T
  <2>1. SUFFICES ASSUME n + 1 <= Len(s)
                 PROVE  Holds(<<k, n + 1>>, Fold(c, b, SubSeq(s, 1, n + 1)))
    OBVIOUS
  <2>2. PICK m \in 1..Len(s) : m = n + 1 /\ m - 1 = n
    BY <2>1
  <2>3. Fold(c, b, SubSeq(s, 1, m)) = Op(c, Fold(c, b, SubSeq(s, 1, m - 1)), s[m])
    BY FoldPrefix
  <2>4. Holds(<<k, m - 1>>, Fold(c, b, SubSeq(s, 1, m - 1)))
    BY <1>2, <2>1, <2>2
  <2>5. QED
    BY <2>2, <2>3, <2>4
<1>3. \A n \in Nat : n \in T
  <2> HIDE DEF T
  <2> QED
    BY <1>1, <1>2, Induction
<1>4. PICK m \in Nat : m = Len(s)
  OBVIOUS
<1>5. Holds(<<k, m>>, Fold(c, b, SubSeq(s, 1, m)))
  BY <1>3, <1>4
<1>6. SubSeq(s, 1, m) = s
  BY <1>4
<1>7. QED
  BY <1>4, <1>5, <1>6

(* Contexts that an element does not tell apart give the same fold.        *)
LEMMA FoldSame ==
    ASSUME NEW c, NEW d, NEW b, NEW S, NEW s \in Seq(S), \A a : \A e \in S : Op(c, a, e) = Op(d, a, e)
    PROVE  Fold(c, b, s) = Fold(d, b, s)
<1> DEFINE T == {n \in Nat : n <= Len(s) => Fold(c, b, SubSeq(s, 1, n)) = Fold(d, b, SubSeq(s, 1, n))}
<1>1. 0 \in T
  <2>1. SubSeq(s, 1, 0) = <<>>
    OBVIOUS
  <2>2. QED
    BY <2>1, FoldEmpty
<1>2. ASSUME NEW n \in Nat, n \in T
      PROVE  n + 1 \in T
  <2>1. SUFFICES ASSUME n + 1 <= Len(s)
                 PROVE  Fold(c, b, SubSeq(s, 1, n + 1)) = Fold(d, b, SubSeq(s, 1, n + 1))
    OBVIOUS
  <2>2. PICK m \in 1..Len(s) : m = n + 1 /\ m - 1 = n
    BY <2>1
  <2>3. /\ Fold(c, b, SubSeq(s, 1, m)) = Op(c, Fold(c, b, SubSeq(s, 1, m - 1)), s[m])
        /\ Fold(d, b, SubSeq(s, 1, m)) = Op(d, Fold(d, b, SubSeq(s, 1, m - 1)), s[m])
    BY FoldPrefix
  <2>4. Fold(c, b, SubSeq(s, 1, n)) = Fold(d, b, SubSeq(s, 1, n))
    BY <1>2, <2>1
  <2>5. s[m] \in S
    OBVIOUS
  <2>6. QED
    BY <2>2, <2>3, <2>4, <2>5
<1>3. \A n \in Nat : n \in T
  <2> HIDE DEF T
  <2> QED
    BY <1>1, <1>2, Induction
<1>4. PICK m \in Nat : m = Len(s)
  OBVIOUS
<1>5. Fold(c, b, SubSeq(s, 1, m)) = Fold(d, b, SubSeq(s, 1, m))
  BY <1>3, <1>4
<1>6. SubSeq(s, 1, m) = s
  BY <1>4
<1>7. QED
  BY <1>5, <1>6

-----------------------------------------------------------------------------
(* Recursion over the elements of a set.  Here Op(c, f, n) is the value at *)
(* n of the function f that is being defined, and Holds(c, <<n, m>>) says  *)
(* that it may ask for the value at m.  There is one if a value depends on *)
(* what may be asked for only, and every set of elements has one that asks *)
(* for no other of them.                                                   *)
Below(c, N, n) == {m \in N : Holds(c, <<n, m>>)}
Local(c, N) ==
    \A n \in N : \A f, g :
        (\A m \in Below(c, N, n) : f[m] = g[m]) => Op(c, f, n) = Op(c, g, n)
Grounded(c, N) == \A S \in SUBSET N : S # {} => \E n \in S : Below(c, N, n) \cap S = {}
Recurs(c, N, f) == f = [n \in N |-> Op(c, f, n)]

(* A part of the set that holds what its elements ask for has a function   *)
(* of its own; two such functions agree.                                   *)
Solves(c, N, D, f) ==
    /\ D \in SUBSET N /\ \A n \in D : Below(c, N, n) \subseteq D
    /\ f = [n \in D |-> Op(c, f, n)]

LEMMA SolutionsAgree ==
    ASSUME NEW c, NEW N, Local(c, N), Grounded(c, N),
           NEW D, NEW f, Solves(c, N, D, f), NEW E, NEW g, Solves(c, N, E, g)
    PROVE  \A n \in D \cap E : f[n] = g[n]
<1> DEFINE Apart == {n \in D \cap E : f[n] # g[n]}
<1>1. SUFFICES ASSUME Apart # {} PROVE FALSE
  OBVIOUS
<1>2. Apart \in SUBSET N
  BY DEF Solves
<1>3. PICK n \in Apart : Below(c, N, n) \cap Apart = {}
  BY <1>1, <1>2 DEF Grounded
<1>4. \A m \in Below(c, N, n) : f[m] = g[m]
  BY <1>3 DEF Solves
<1>5. Op(c, f, n) = Op(c, g, n)
  BY <1>2, <1>3, <1>4 DEF Local
<1>6. f[n] = Op(c, f, n) /\ g[n] = Op(c, g, n)
  BY <1>3 DEF Solves
<1>7. QED
  BY <1>3, <1>5, <1>6

LEMMA RecursionExists ==
    ASSUME NEW c, NEW N, Local(c, N), Grounded(c, N)
    PROVE  \E f : Recurs(c, N, f)
<1> DEFINE At(n, v) == \E D, f : Solves(c, N, D, f) /\ n \in D /\ v = f[n]
           F == [n \in N |-> CHOOSE v : At(n, v)]
           Known == {n \in N : \E v : At(n, v)}
<1>1. ASSUME NEW D, NEW f, Solves(c, N, D, f), NEW n \in D PROVE F[n] = f[n] /\ n \in Known
  <2>1. n \in N
    BY <1>1 DEF Solves
  <2>2. At(n, f[n])
    BY <1>1
  <2>3. \A v : At(n, v) => v = f[n]
    BY <1>1, SolutionsAgree
  <2> HIDE DEF At
  <2>4. QED
    BY <2>1, <2>2, <2>3
<1>2. ASSUME NEW n \in Known PROVE F[n] = Op(c, F, n) /\ Below(c, N, n) \subseteq Known
  <2>1. PICK D, f : Solves(c, N, D, f) /\ n \in D
    OBVIOUS
  <2>2. Below(c, N, n) \subseteq D /\ n \in N /\ f[n] = Op(c, f, n)
    BY <2>1 DEF Solves
  <2> HIDE DEF F, Known, At
  <2>3. \A m \in Below(c, N, n) : F[m] = f[m] /\ m \in Known
    BY <2>1, <2>2, <1>1
  <2>4. Op(c, f, n) = Op(c, F, n)
    BY <2>2, <2>3 DEF Local
  <2>5. F[n] = f[n]
    BY <2>1, <1>1
  <2>6. QED
    BY <2>2, <2>3, <2>4, <2>5
<1>3. ASSUME NEW n \in N, Below(c, N, n) \subseteq Known, n \notin Known PROVE FALSE
  <2> DEFINE D == Known \cup {n}
             f == [m \in D |-> Op(c, F, m)]
  <2>1. D \in SUBSET N
    OBVIOUS
  <2> HIDE DEF F, Known, At
  <2>2. ASSUME NEW m \in D PROVE Below(c, N, m) \subseteq Known
    BY <2>2, <1>2, <1>3
  <2>3. ASSUME NEW m \in D PROVE Op(c, f, m) = Op(c, F, m)
    <3>1. \A k \in Below(c, N, m) : f[k] = F[k]
      BY <2>2, <2>3, <1>2
    <3>2. m \in N
      BY <2>1
    <3> HIDE DEF f, D
    <3>3. QED
      BY <3>1, <3>2 DEF Local
  <2>4. f = [m \in D |-> Op(c, f, m)]
    <3>1. PICK g : g = f
      OBVIOUS
    <3>2. \A m \in D : Op(c, g, m) = Op(c, F, m)
      BY <2>3, <3>1
    <3>3. g = [m \in D |-> Op(c, F, m)]
      BY <3>1
    <3>4. g = [m \in D |-> Op(c, g, m)]
      BY <3>2, <3>3
    <3>5. QED
      BY <3>1, <3>4
  <2>5. Solves(c, N, D, f)
    <3> HIDE DEF f
    <3>1. QED
      BY <2>1, <2>2, <2>4 DEF Solves
  <2>6. n \in D
    OBVIOUS
  <2> HIDE DEF D, f
  <2>7. QED
    BY <2>5, <2>6, <1>1, <1>3
<1>4. Known = N
  <2>1. PICK rest : rest = N \ Known
    OBVIOUS
  <2>2. rest \in SUBSET N
    BY <2>1
  <2> HIDE DEF Known, F
  <2>3. SUFFICES ASSUME rest # {} PROVE FALSE
    BY <2>1 DEF Known
  <2>4. PICK n \in rest : Below(c, N, n) \cap rest = {}
    BY <2>2, <2>3 DEF Grounded
  <2>5. Below(c, N, n) \subseteq Known
    BY <2>1, <2>4 DEF Below
  <2>6. QED
    BY <2>1, <2>4, <2>5, <1>3
<1>5. PICK g : g = F
  OBVIOUS
<1>6. \A n \in N : g[n] = Op(c, g, n)
  <2> HIDE DEF F, Known
  <2>1. QED
    BY <1>5, <1>2, <1>4
<1>7. g = [n \in N |-> g[n]]
  BY <1>5
<1>8. QED
  BY <1>6, <1>7 DEF Recurs
=============================================================================
