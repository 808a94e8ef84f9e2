---------------------------- MODULE LayoutProofs ----------------------------
(***************************************************************************)
(* What is proved of Layout, for any set of nodes and any processes.       *)
(*                                                                         *)
(* That what is placed or waits is visited is a matter of types: when the  *)
(* cells of a grid and the nodes of the lists are drawn from a set that    *)
(* may grow, every operation of Grid keeps them there, wherever it finds   *)
(* the elements it looks for, and whether or not it finds them.            *)
(*                                                                         *)
(* Where it puts them is the second half: when the paths of a process only *)
(* part, an element found in one row stays in one row, and two elements    *)
(* keep their order, however rows are inserted and cells shifted.          *)
(***************************************************************************)
EXTENDS Layout, SequenceTheorems, FiniteSetTheorems, TLAPS

I == INSTANCE Folding WITH Op <- LAMBDA c, a, e : a, Holds <- LAMBDA c, a : TRUE

-----------------------------------------------------------------------------
(* The least and the greatest of numbers.                                  *)
LEMMA MinIs ==
    ASSUME NEW S \in SUBSET Nat, S # {}
    PROVE  Min(S) \in S
<1>1. \E m \in S : \A k \in S : m <= k
  BY I!Least
<1>2. QED
  BY <1>1 DEF Min

LEMMA MaxIsOne ==
    ASSUME NEW S \in SUBSET Nat, S # {}, NEW b \in Nat, \A x \in S : x <= b
    PROVE  Max(S) \in S /\ Max(S) \in Nat /\ \A x \in S : x <= Max(S)
<1> DEFINE Bounds == {k \in Nat : \A x \in S : x <= k}
<1>1. PICK m \in Bounds : \A k \in Bounds : m <= k
  <2>1. Bounds \in SUBSET Nat /\ b \in Bounds
    OBVIOUS
  <2> HIDE DEF Bounds
  <2>2. QED
    BY <2>1, I!Least
<1>2. m \in S
  <2>1. SUFFICES ASSUME m \notin S PROVE FALSE
    OBVIOUS
  <2>2. PICK x \in S : TRUE
    OBVIOUS
  <2>3. x <= m /\ x # m /\ x \in Nat /\ m \in Nat
    BY <2>1
  <2>4. m - 1 \in Nat /\ \A y \in S : y <= m - 1
    BY <2>1, <2>3
  <2>5. m - 1 \in Bounds
    BY <2>4
  <2>6. QED
    BY <1>1, <2>3, <2>5
<1>3. \E x \in S : \A y \in S : x >= y
  BY <1>2
<1>4. PICK k : k = Max(S)
  OBVIOUS
<1>5. k \in S /\ \A y \in S : k >= y
  BY <1>3, <1>4 DEF Max
<1>6. k \in Nat /\ \A y \in S : y \in Nat /\ y <= k
  BY <1>5
<1>7. QED
  BY <1>4, <1>5, <1>6

(* Finitely many numbers have a bound.                                     *)
LEMMA FiniteBound ==
    ASSUME NEW S \in SUBSET Nat, IsFiniteSet(S)
    PROVE  \E b \in Nat : \A x \in S : x <= b
<1>1. PICK n \in Nat : ExistsBijection(1..n, S)
  BY FS_NatBijection
<1>2. PICK f \in [1..n -> Nat] : \A x \in S : \E i \in 1..n : f[i] = x
  <2>1. PICK f \in Bijection(1..n, S) : TRUE
    BY <1>1 DEF ExistsBijection
  <2>2. f \in [1..n -> S] /\ \A x \in S : \E i \in 1..n : f[i] = x
    BY <2>1 DEF Bijection, Surjection, Injection
  <2>3. f \in [1..n -> Nat]
    BY <2>2
  <2>4. QED
    BY <2>2, <2>3
<1> DEFINE T == {k \in Nat : k <= n => \E b \in Nat : \A i \in 1..k : f[i] <= b}
<1>3. 0 \in T
  OBVIOUS
<1>4. ASSUME NEW k \in Nat, k \in T PROVE k + 1 \in T
  <2>1. SUFFICES ASSUME k + 1 <= n PROVE \E b \in Nat : \A i \in 1..k+1 : f[i] <= b
    OBVIOUS
  <2>2. PICK b \in Nat : \A i \in 1..k : f[i] <= b
    BY <1>4, <2>1
  <2>3. PICK v \in Nat : v = f[k + 1]
    <3>1. k + 1 \in 1..n
      BY <2>1
    <3>2. f[k + 1] \in Nat
      BY <3>1
    <3>3. QED
      BY <3>2
  <2>4. \A i \in 1..k+1 : i \in 1..k \/ i = k + 1
    OBVIOUS
  <2>5. \A i \in 1..k : f[i] \in Nat
    BY <2>1
  <2>6. \A i \in 1..k+1 : f[i] <= b + v
    BY <2>2, <2>3, <2>4, <2>5
  <2>7. QED
    BY <2>6
<1>5. \A k \in Nat : k \in T
  <2> HIDE DEF T
  <2>1. QED
    BY <1>3, <1>4, I!Induction
<1>6. PICK b \in Nat : \A i \in 1..n : f[i] <= b
  <2>1. n \in T
    BY <1>5
  <2>2. QED
    BY <2>1
<1>7. QED
  BY <1>2, <1>6

-----------------------------------------------------------------------------
(* Grids with cells of D; one with a row is not without one later.         *)
Grids(D) == Seq(Seq(D)) \ {<<>>}

LEMMA GridIs ==
    ASSUME NEW D, NEW g \in Grids(D)
    PROVE  /\ g \in Seq(Seq(D)) /\ Len(g) \in Nat /\ Len(g) >= 1 /\ DOMAIN g = 1..Len(g)
           /\ \A r \in 1..Len(g) : g[r] \in Seq(D)
BY DEF Grids

(* An element is found in a cell, or nowhere.                              *)
LEMMA FindIs ==
    ASSUME NEW D, NEW g \in Grids(D), NEW e
    PROVE  \/ Find(g, e) = <<0, 0>>
           \/ \E r \in 1..Len(g) : \E c \in 1..Len(g[r]) : Find(g, e) = <<r, c>>
<1> DEFINE I1 == {i \in 1..Len(g) : e \in ToSet(g[i])}
           row == IF I1 # {} THEN Min(I1) ELSE 0
           I2 == {i \in 1..Len(g[row]) : g[row][i] = e}
           col == IF I2 # {} THEN Min(I2) ELSE 0
<1>1. Find(g, e) = IF row = 0 THEN <<0, 0>> ELSE <<row, col>>
  BY DEF Find, SelectInSeq, Nowhere
<1>2. SUFFICES ASSUME row # 0
               PROVE  row \in 1..Len(g) /\ col \in 1..Len(g[row])
  BY <1>1
<1>3. I1 # {} /\ I1 \in SUBSET Nat
  BY <1>2, GridIs
<1>4. row \in I1
  BY <1>3, MinIs
<1>5. row \in 1..Len(g) /\ e \in ToSet(g[row]) /\ g[row] \in Seq(D)
  BY <1>4, GridIs
<1> HIDE DEF row, I1
<1>6. DOMAIN g[row] = 1..Len(g[row]) /\ Len(g[row]) \in Nat
  BY <1>5
<1>7. I2 # {} /\ I2 \in SUBSET Nat
  BY <1>5, <1>6 DEF ToSet
<1>8. col \in I2
  BY <1>7, MinIs
<1>9. QED
  BY <1>5, <1>8

Pos(g, p) == /\ p[1] \in 0..Len(g) /\ p[2] \in Nat /\ p = <<p[1], p[2]>>
             /\ p[1] = 0 => p[2] = 0
             /\ p[1] # 0 => p[2] \in 1..Len(g[p[1]])

LEMMA FindPos ==
    ASSUME NEW D, NEW g \in Grids(D), NEW e
    PROVE  Pos(g, Find(g, e))
<1>1. Len(g) \in Nat /\ Len(g) >= 1 /\ \A r \in 1..Len(g) : Len(g[r]) \in Nat
  BY GridIs
<1>2. CASE Find(g, e) = <<0, 0>>
  BY <1>1, <1>2 DEF Pos
<1>3. CASE \E r \in 1..Len(g) : \E c \in 1..Len(g[r]) : Find(g, e) = <<r, c>>
  <2>1. PICK r \in 1..Len(g) : \E c \in 1..Len(g[r]) : Find(g, e) = <<r, c>>
    BY <1>3
  <2>2. PICK c \in 1..Len(g[r]) : Find(g, e) = <<r, c>>
    BY <2>1
  <2>3. QED
    BY <1>1, <2>2 DEF Pos
<1>4. QED
  BY <1>2, <1>3, FindIs

-----------------------------------------------------------------------------
(* The operations keep the cells in D.                                     *)
LEMMA PadIs ==
    ASSUME NEW D, None \in D, NEW cells \in Seq(D), NEW n \in Nat
    PROVE  Pad(cells, n) \in Seq(D) /\ Len(Pad(cells, n)) >= n
<1> DEFINE k == IF n > Len(cells) THEN n - Len(cells) ELSE 0
           empty == [i \in 1..k |-> None]
<1>1. k \in Nat /\ Len(cells) \in Nat
  OBVIOUS
<1>2. empty \in Seq(D) /\ Len(empty) = k
  BY <1>1
<1>3. Pad(cells, n) = cells \o empty
  BY DEF Pad
<1> HIDE DEF empty
<1>4. cells \o empty \in Seq(D) /\ Len(cells \o empty) = Len(cells) + k
  BY <1>2
<1> HIDE DEF Pad
<1>5. QED
  BY <1>1, <1>3, <1>4

LEMMA RowSet ==
    ASSUME NEW D, NEW cells \in Seq(D), NEW i, NEW e \in D
    PROVE  [cells EXCEPT ![i] = e] \in Seq(D)
<1>1. cells \in [1..Len(cells) -> D] /\ Len(cells) \in Nat
  OBVIOUS
<1>2. [cells EXCEPT ![i] = e] \in [1..Len(cells) -> D]
  BY <1>1
<1>3. QED
  BY <1>1, <1>2

LEMMA GridSet ==
    ASSUME NEW D, NEW g \in Grids(D), NEW i, NEW cells, i \in 1..Len(g) => cells \in Seq(D)
    PROVE  [g EXCEPT ![i] = cells] \in Grids(D)
<1>1. g \in Seq(Seq(D)) /\ Len(g) >= 1 /\ Len(g) \in Nat /\ DOMAIN g = 1..Len(g)
  BY GridIs
<1>2. PICK n \in Nat : n = Len(g)
  BY <1>1
<1>3. PICK C : C = Seq(D)
  OBVIOUS
<1> DEFINE h == [g EXCEPT ![i] = cells]
<1>6. g \in [1..n -> C] /\ (i \in 1..n => cells \in C)
  BY <1>1, <1>2, <1>3
<1>7. h \in [1..n -> C]
  <2>1. h = [j \in 1..n |-> IF j = i THEN cells ELSE g[j]]
    BY <1>6
  <2>2. \A j \in 1..n : (IF j = i THEN cells ELSE g[j]) \in C
    BY <1>6
  <2>3. QED
    BY <2>1, <2>2
<1> HIDE DEF h
<1>8. h \in Seq(C) /\ Len(h) = n
  BY <1>2, <1>7
<1>4. h # <<>>
  BY <1>1, <1>2, <1>8
<1>5. QED
  BY <1>3, <1>4, <1>8 DEF Grids, h

LEMMA AtIs ==
    ASSUME NEW D, NEW g \in Grids(D), NEW i \in 0..Len(g)
    PROVE  At(Len(g), i) \in 1..Len(g)
BY GridIs DEF At

LEMMA WriteIs ==
    ASSUME NEW D, None \in D, NEW g \in Grids(D), NEW row, NEW col \in Nat, NEW e \in D
    PROVE  Write(g, row, col, e) \in Grids(D)
<1> DEFINE i == At(Len(g), row)
           cells == [Pad(g[i], col) EXCEPT ![At(Len(Pad(g[i], col)), col)] = e]
<1>1. Write(g, row, col, e) = [g EXCEPT ![i] = cells]
  BY DEF Write
<1>2. ASSUME i \in 1..Len(g) PROVE cells \in Seq(D)
  <2>1. g[i] \in Seq(D)
    BY <1>2, GridIs
  <2>2. Pad(g[i], col) \in Seq(D)
    BY <2>1, PadIs
  <2>3. QED
    BY <2>2, RowSet
<1> HIDE DEF i, cells
<1>4. [g EXCEPT ![i] = cells] \in Grids(D)
  BY <1>2, GridSet
<1>3. QED
  BY <1>1, <1>4

LEMMA RowsAdded ==
    ASSUME NEW D, NEW g \in Seq(Seq(D)), NEW cells \in Seq(D)
    PROVE  Append(g, cells) \in Grids(D)
<1>1. Append(g, cells) \in Seq(Seq(D)) /\ Len(Append(g, cells)) = Len(g) + 1 /\ Len(g) \in Nat
  OBVIOUS
<1>2. QED
  BY <1>1 DEF Grids

LEMMA Inserted ==
    ASSUME NEW S, NEW s \in Seq(S), NEW i \in 1..Len(s)+1, NEW e \in S
    PROVE  /\ InsertAt(s, i, e) \in Seq(S) /\ Len(InsertAt(s, i, e)) = Len(s) + 1
           /\ InsertAt(s, i, e)[i] = e
<1> DEFINE a == SubSeq(s, 1, i - 1)
           b == SubSeq(s, i, Len(s))
<1>8. Len(s) \in Nat /\ i \in Nat /\ 1 <= i /\ i <= Len(s) + 1
  OBVIOUS
<1>1. a \in Seq(S) /\ Len(a) = i - 1
  <2>1. i - 1 \in Int /\ \A j \in 1..(i - 1) : s[j] \in S
    BY <1>8
  <2>2. a \in Seq(S) /\ Len(a) = IF 1 <= i - 1 THEN i - 1 - 1 + 1 ELSE 0
    BY <2>1, <1>8, SubSeqProperties
  <2>3. QED
    BY <2>2, <1>8
<1>2. b \in Seq(S) /\ Len(b) = Len(s) - i + 1
  <2>1. \A j \in i..Len(s) : s[j] \in S
    BY <1>8
  <2>2. b \in Seq(S) /\ Len(b) = IF i <= Len(s) THEN Len(s) - i + 1 ELSE 0
    BY <2>1, <1>8, SubSeqProperties
  <2>3. QED
    BY <2>2, <1>8
<1>3. InsertAt(s, i, e) = a \o <<e>> \o b
  BY DEF InsertAt
<1> HIDE DEF a, b
<1>9. <<e>> \in Seq(S) /\ Len(<<e>>) = 1 /\ <<e>>[1] = e
  OBVIOUS
<1>4. PICK u : u = <<e>>
  OBVIOUS
<1>10. u \in Seq(S) /\ Len(u) = 1 /\ u[1] = e
  BY <1>4, <1>9
<1>11. a \o u \in Seq(S) /\ Len(a \o u) = i
  <2>1. PICK x \in Seq(S) : x = a /\ Len(x) = i - 1
    BY <1>1
  <2>2. PICK y \in Seq(S) : y = u /\ Len(y) = 1
    BY <1>10
  <2>3. x \o y \in Seq(S) /\ Len(x \o y) = Len(x) + Len(y)
    OBVIOUS
  <2>4. QED
    BY <2>1, <2>2, <2>3, <1>8
<1>12. (a \o u)[i] = e
  <2>1. \A j \in 1..Len(a) + Len(u) : (a \o u)[j] = IF j <= Len(a) THEN a[j] ELSE u[j - Len(a)]
    <3>1. PICK x \in Seq(S) : x = a
      BY <1>1
    <3>2. PICK y \in Seq(S) : y = u
      BY <1>10
    <3>3. \A j \in 1..Len(x) + Len(y) : (x \o y)[j] = IF j <= Len(x) THEN x[j] ELSE y[j - Len(x)]
      OBVIOUS
    <3>4. QED
      BY <3>1, <3>2, <3>3
  <2>2. i \in 1..Len(a) + Len(u) /\ ~ (i <= Len(a)) /\ i - Len(a) = 1
    BY <1>1, <1>8, <1>10
  <2>3. QED
    BY <2>1, <2>2, <1>10
<1>5. PICK v : v = a \o u
  OBVIOUS
<1>13. v \in Seq(S) /\ Len(v) = i /\ v[i] = e
  BY <1>5, <1>11, <1>12
<1>14. v \o b \in Seq(S) /\ Len(v \o b) = Len(s) + 1
  BY <1>2, <1>8, <1>13
<1>15. (v \o b)[i] = e
  <2>1. \A j \in 1..Len(v) + Len(b) : (v \o b)[j] = IF j <= Len(v) THEN v[j] ELSE b[j - Len(v)]
    BY <1>2, <1>13
  <2>2. i \in 1..Len(v) + Len(b) /\ i <= Len(v)
    BY <1>2, <1>8, <1>13
  <2>3. QED
    BY <2>1, <2>2, <1>13
<1>6. v \o b \in Seq(S) /\ Len(v \o b) = Len(s) + 1 /\ (v \o b)[i] = e
  BY <1>14, <1>15
<1>7. QED
  BY <1>3, <1>4, <1>5, <1>6

LEMMA CreateRowIs ==
    ASSUME NEW D, NEW g \in Grids(D), NEW after \in 0..Len(g)
    PROVE  /\ CreateRow(g, after) \in Grids(D)
           /\ Len(CreateRow(g, after)) = Len(g) + 1 /\ CreateRow(g, after)[after + 1] = <<>>
<1>1. g \in Seq(Seq(D)) /\ Len(g) \in Nat /\ Len(g) >= 1 /\ <<>> \in Seq(D)
  BY GridIs
<1>2. PICK i \in 1..Len(g)+1 : i = after + 1
  BY <1>1
<1>3. /\ InsertAt(g, i, <<>>) \in Seq(Seq(D)) /\ Len(InsertAt(g, i, <<>>)) = Len(g) + 1
      /\ InsertAt(g, i, <<>>)[i] = <<>>
  <2>1. PICK C : C = Seq(D)
    OBVIOUS
  <2>2. PICK z \in C : z = <<>>
    BY <1>1, <2>1
  <2>3. g \in Seq(C)
    BY <1>1, <2>1
  <2>4. InsertAt(g, i, z) \in Seq(C) /\ Len(InsertAt(g, i, z)) = Len(g) + 1 /\ InsertAt(g, i, z)[i] = z
    BY <2>3, Inserted
  <2>5. QED
    BY <2>1, <2>2, <2>4
<1>4. InsertAt(g, i, <<>>) # <<>>
  BY <1>1, <1>3
<1>5. QED
  BY <1>2, <1>3, <1>4 DEF CreateRow, Grids

LEMMA AddRowIs ==
    ASSUME NEW D, NEW g \in Seq(Seq(D)), NEW e \in D
    PROVE  AddRow(g, e) \in Grids(D)
<1>1. <<e>> \in Seq(D)
  OBVIOUS
<1>2. QED
  BY <1>1, RowsAdded DEF AddRow

LEMMA AddAfterIs ==
    ASSUME NEW D, NEW g \in Grids(D), NEW element, NEW e \in D
    PROVE  AddAfter(g, element, e) \in Grids(D)
<1> DEFINE pos == Find(g, element)
           i == At(Len(g), pos[1])
<1>1. Pos(g, pos)
  BY FindPos
<1>2. AddAfter(g, element, e) = [g EXCEPT ![i] = InsertAt(g[i], pos[2] + 1, e)]
  BY DEF AddAfter
<1> HIDE DEF pos
<1>3. Len(g) \in Nat /\ Len(g) >= 1 /\ \A r \in 1..Len(g) : g[r] \in Seq(D)
  BY GridIs
<1>4. i \in 1..Len(g)
  BY <1>1, AtIs DEF Pos
<1>5. pos[2] + 1 \in 1..Len(g[i])+1
  <2>1. CASE pos[1] = 0
    BY <1>1, <1>3, <1>4, <2>1 DEF Pos
  <2>2. CASE pos[1] # 0
    <3>1. i = pos[1]
      BY <2>2 DEF At
    <3>2. QED
      BY <1>1, <1>3, <1>4, <2>2, <3>1 DEF Pos
  <2>3. QED
    BY <2>1, <2>2
<1>6. InsertAt(g[i], pos[2] + 1, e) \in Seq(D)
  BY <1>3, <1>4, <1>5, Inserted
<1>8. PICK cells \in Seq(D) : cells = InsertAt(g[i], pos[2] + 1, e)
  BY <1>6
<1> HIDE DEF i
<1>9. [g EXCEPT ![i] = cells] \in Grids(D)
  BY GridSet
<1>7. QED
  BY <1>2, <1>8, <1>9

LEMMA AddBelowIs ==
    ASSUME NEW D, None \in D, NEW g \in Grids(D), NEW element, NEW e \in D
    PROVE  AddBelow(g, element, e) \in Grids(D)
<1> DEFINE pos == Find(g, element)
<1>1. Pos(g, pos)
  BY FindPos
<1>2. pos[1] \in 0..Len(g) /\ pos[2] \in Nat
  BY <1>1 DEF Pos
<1>3. AddBelow(g, element, e) = Write(RoomBelow(g, pos[1], pos[2]), pos[1] + 1, pos[2], e)
  BY DEF AddBelow
<1> HIDE DEF pos
<1>4. Append(g, <<>>) \in Grids(D)
  <2>1. g \in Seq(Seq(D)) /\ <<>> \in Seq(D)
    BY GridIs
  <2>2. QED
    BY <2>1, RowsAdded
<1>5. CreateRow(g, pos[1]) \in Grids(D)
  BY <1>2, CreateRowIs
<1>6. RoomBelow(g, pos[1], pos[2]) \in Grids(D)
  BY <1>4, <1>5 DEF RoomBelow
<1>7. QED
  BY <1>2, <1>3, <1>6, WriteIs

LEMMA AddAtIs ==
    ASSUME NEW D, None \in D, NEW g \in Grids(D), NEW r \in Nat, NEW c \in Nat, NEW e \in D
    PROVE  AddAt(g, <<r, c>>, e) \in Grids(D)
<1>1. PICK started \in Grids(D) : started = IF <<r, c>> = <<1, 1>> THEN AddRow(g, e) ELSE g
  <2>1. AddRow(g, e) \in Grids(D)
    BY AddRowIs, GridIs
  <2>2. QED
    BY <2>1
<1> DEFINE more == [i \in 1..(r - Len(started)) |-> <<>>]
           rows == started \o more
<1>2. started \in Seq(Seq(D)) /\ Len(started) \in Nat /\ Len(started) >= 1
  BY GridIs
<1>3. more \in Seq(Seq(D))
  <2>1. PICK k \in Nat : 1..k = 1..(r - Len(started))
    <3>1. CASE r > Len(started)
      <4>1. r - Len(started) \in Nat
        BY <1>2, <3>1
      <4>2. QED
        BY <4>1
    <3>2. CASE ~ (r > Len(started))
      <4>1. 1..0 = 1..(r - Len(started))
        BY <1>2, <3>2
      <4>2. QED
        BY <4>1
    <3>3. QED
      BY <3>1, <3>2
  <2>2. <<>> \in Seq(D)
    OBVIOUS
  <2>3. [i \in 1..k |-> <<>>] \in Seq(Seq(D))
    BY <2>2
  <2>4. QED
    BY <2>1, <2>3
<1> HIDE DEF more
<1>4. rows \in Grids(D)
  <2>1. rows \in Seq(Seq(D)) /\ Len(rows) >= 1
    BY <1>2, <1>3
  <2>2. QED
    BY <2>1 DEF Grids
<1>5. AddAt(g, <<r, c>>, e) = Write(rows, r, c, e)
  BY <1>1 DEF AddAt, more
<1> HIDE DEF rows
<1>6. QED
  BY <1>4, <1>5, WriteIs

(* The columns of a grid have a bound.                                     *)
LEMMA ColumnsBound ==
    ASSUME NEW D, NEW g \in Grids(D)
    PROVE  \E b \in Nat : \A r \in 1..Len(g) : Len(g[r]) <= b
<1>1. Len(g) \in Nat /\ \A r \in 1..Len(g) : Len(g[r]) \in Nat
  BY GridIs
<1> DEFINE T == {n \in Nat : n <= Len(g) => \E b \in Nat : \A r \in 1..n : Len(g[r]) <= b}
<1>2. 0 \in T
  OBVIOUS
<1>3. ASSUME NEW n \in Nat, n \in T PROVE n + 1 \in T
  <2>1. SUFFICES ASSUME n + 1 <= Len(g) PROVE \E b \in Nat : \A r \in 1..n+1 : Len(g[r]) <= b
    OBVIOUS
  <2>2. PICK b \in Nat : \A r \in 1..n : Len(g[r]) <= b
    BY <1>1, <1>3, <2>1
  <2>3. PICK v \in Nat : v = Len(g[n + 1])
    BY <1>1, <2>1
  <2>4. \A r \in 1..n+1 : Len(g[r]) <= b + v
    <3>1. \A r \in 1..n+1 : r \in 1..n \/ r = n + 1
      OBVIOUS
    <3>2. \A r \in 1..n : Len(g[r]) \in Nat
      BY <1>1, <2>1
    <3>3. QED
      BY <2>2, <2>3, <3>1, <3>2
  <2>6. PICK m \in Nat : m = b + v
    OBVIOUS
  <2>5. QED
    BY <2>4, <2>6
<1>4. \A n \in Nat : n \in T
  <2> HIDE DEF T
  <2>1. QED
    BY <1>2, <1>3, I!Induction
<1>6. Len(g) \in T
  BY <1>1, <1>4
<1>5. QED
  BY <1>1, <1>6

LEMMA MaxColsIs ==
    ASSUME NEW D, NEW g \in Grids(D)
    PROVE  MaxCols(g) \in Nat
<1> DEFINE widths == {Len(g[row]) : row \in DOMAIN g} \cup {0}
<1>1. PICK b \in Nat : \A r \in 1..Len(g) : Len(g[r]) <= b
  BY ColumnsBound
<1>2. widths \in SUBSET Nat /\ widths # {} /\ \A x \in widths : x <= b
  BY <1>1, GridIs
<1> HIDE DEF widths
<1>3. Max(widths) \in Nat
  BY <1>2, MaxIsOne
<1>4. QED
  BY <1>3 DEF MaxCols, widths

LEMMA AdjustGridPositionIs ==
    ASSUME NEW D, None \in D, NEW g \in Grids(D), NEW e \in D
    PROVE  AdjustGridPosition(g, e) \in Grids(D)
<1> DEFINE pos == Find(g, e)
           cols == MaxCols(g)
           i == At(Len(g), pos[1])
           moved == [g EXCEPT ![i] = Append(Pad(g[i], cols), e)]
<1>1. pos[2] \in Nat
  BY FindPos DEF Pos
<1>2. cols \in Nat
  BY MaxColsIs
<1>3. AdjustGridPosition(g, e) = IF pos[2] < cols THEN Write(moved, pos[1], pos[2], None) ELSE g
  BY DEF AdjustGridPosition
<1> HIDE DEF pos, cols
<1>4. i \in 1..Len(g) => Append(Pad(g[i], cols), e) \in Seq(D)
  <2>1. SUFFICES ASSUME i \in 1..Len(g) PROVE Append(Pad(g[i], cols), e) \in Seq(D)
    OBVIOUS
  <2>2. g[i] \in Seq(D)
    BY <2>1, GridIs
  <2>3. Pad(g[i], cols) \in Seq(D)
    BY <1>2, <2>2, PadIs
  <2>4. QED
    BY <2>3
<1> HIDE DEF i
<1>5. moved \in Grids(D)
  BY <1>4, GridSet
<1> HIDE DEF moved
<1>6. Write(moved, pos[1], pos[2], None) \in Grids(D)
  BY <1>1, <1>5, WriteIs
<1>7. QED
  BY <1>3, <1>6

LEMMA MoveIs ==
    ASSUME NEW D, None \in D, NEW g \in Grids(D), NEW e \in D, NEW pos, pos[2] \in Nat,
           NEW r, NEW c \in Nat
    PROVE  Move(g, e, pos, <<r, c>>) \in Grids(D)
<1>1. PICK h \in Grids(D) : h = Write(g, r, c, e)
  BY WriteIs
<1>2. Write(h, pos[1], pos[2], None) \in Grids(D)
  BY WriteIs
<1>3. QED
  BY <1>1, <1>2 DEF Move

LEMMA AdjustColumnIs ==
    ASSUME NEW D, None \in D, NEW g \in Grids(D), NEW sources, NEW e \in D
    PROVE  AdjustColumn(g, sources, e) \in Grids(D)
<1> DEFINE pos == Find(g, e)
           cols == {Find(g, s)[2] : s \in sources} \ {0}
<1>1. AdjustColumn(g, sources, e) =
          IF cols # {} /\ Max(cols) + 1 > pos[2]
          THEN Move(g, e, pos, <<pos[1], Max(cols) + 1>>) ELSE g
  BY DEF AdjustColumn
<1>2. SUFFICES ASSUME cols # {} PROVE Move(g, e, pos, <<pos[1], Max(cols) + 1>>) \in Grids(D)
  BY <1>1
<1>3. PICK b \in Nat : \A r \in 1..Len(g) : Len(g[r]) <= b
  BY ColumnsBound
<1>4. \A s \in sources : Find(g, s)[2] \in Nat /\ Find(g, s)[2] <= b
  <2>1. SUFFICES ASSUME NEW s \in sources PROVE Find(g, s)[2] \in Nat /\ Find(g, s)[2] <= b
    OBVIOUS
  <2>2. PICK p : p = Find(g, s)
    OBVIOUS
  <2>3. Pos(g, p)
    BY <2>2, FindPos
  <2>4. p[2] <= b
    <3>1. CASE p[1] = 0
      BY <2>3, <3>1 DEF Pos
    <3>2. CASE p[1] # 0
      <4>1. p[1] \in 1..Len(g) /\ p[2] \in 1..Len(g[p[1]])
        BY <2>3, <3>2, GridIs DEF Pos
      <4>2. Len(g[p[1]]) \in Nat /\ Len(g[p[1]]) <= b
        BY <1>3, <4>1, GridIs
      <4>3. QED
        BY <4>1, <4>2
    <3>3. QED
      BY <3>1, <3>2
  <2>5. QED
    BY <2>2, <2>3, <2>4 DEF Pos
<1>5. cols \in SUBSET Nat /\ \A x \in cols : x <= b
  BY <1>4
<1>6. pos[2] \in Nat
  BY FindPos DEF Pos
<1> HIDE DEF cols, pos
<1>7. Max(cols) \in Nat
  BY <1>2, <1>5, MaxIsOne
<1>9. Max(cols) + 1 \in Nat
  BY <1>7
<1>8. QED
  BY <1>6, <1>9, MoveIs

LEMMA AdjustRowIs ==
    ASSUME NEW D, None \in D, NEW g \in Grids(D), NEW sources, NEW e \in D
    PROVE  AdjustRow(g, sources, e) \in Grids(D)
<1> DEFINE pos == Find(g, e)
           rows == {Find(g, s)[1] : s \in sources} \ {0}
<1>1. pos[2] \in Nat
  BY FindPos DEF Pos
<1>2. AdjustRow(g, sources, e) \in {g, Move(g, e, pos, <<Min(rows), pos[2]>>)}
  BY DEF AdjustRow
<1> HIDE DEF pos, rows
<1>3. Move(g, e, pos, <<Min(rows), pos[2]>>) \in Grids(D)
  BY <1>1, MoveIs
<1>4. QED
  BY <1>2, <1>3

-----------------------------------------------------------------------------
(* The folds of Layout.                                                    *)
OnlyOp(wanted, kept, n) == IF n \in wanted THEN Append(kept, n) ELSE kept
TargetOp(n, ends, f) == IF f[1] = n THEN Append(ends, f[2]) ELSE ends
ReversedOp(lists, all, n) == all \o Reverse(lists[n])

(* What was kept of the first n of k.from are different nodes of k.wanted. *)
KeptOf(c, kept) ==
    LET k == c[1] IN
    /\ kept \in Seq(k.wanted \cap {k.from[j] : j \in 1..c[2]})
    /\ IsInjective(kept)
    /\ ToSet(kept) = k.wanted \cap {k.from[j] : j \in 1..c[2]}

(* What was gathered from the first n are the nodes of the first n parts.  *)
Gathers(c, all) ==
    LET k == c[1] IN
    /\ all \in Seq(k.of)
    /\ ToSet(all) = UNION {k.part[j] : j \in 1..c[2]}

LEMMA ToSetEmpty == ToSet(<<>>) = {}
<1>1. DOMAIN <<>> = {}
  OBVIOUS
<1>2. QED
  BY <1>1 DEF ToSet

LEMMA AppendSet ==
    ASSUME NEW S, NEW s \in Seq(S), NEW e \in S
    PROVE  ToSet(Append(s, e)) = ToSet(s) \cup {e}
<1>1. PICK n \in Nat : n = Len(s)
  OBVIOUS
<1>2. PICK t : t = Append(s, e)
  OBVIOUS
<1>3. DOMAIN s = 1..n /\ DOMAIN t = 1..n+1 /\ t[n+1] = e /\ \A i \in 1..n : t[i] = s[i]
  BY <1>1, <1>2
<1>4. \A i \in 1..n+1 : i \in 1..n \/ i = n+1
  OBVIOUS
<1>5. n+1 \in 1..n+1 /\ \A i \in 1..n : i \in 1..n+1
  OBVIOUS
<1>6. ToSet(t) = ToSet(s) \cup {e}
  <2>1. ToSet(t) \subseteq ToSet(s) \cup {e}
    BY <1>3, <1>4 DEF ToSet
  <2>2. ToSet(s) \cup {e} \subseteq ToSet(t)
    BY <1>3, <1>5 DEF ToSet
  <2>3. QED
    BY <2>1, <2>2
<1>7. QED
  BY <1>2, <1>6

LEMMA ToSetIs ==
    ASSUME NEW S, NEW s \in Seq(S)
    PROVE  /\ ToSet(s) \subseteq S
           /\ \A i \in 1..Len(s) : s[i] \in ToSet(s)
           /\ s \in Seq(ToSet(s))
BY DEF ToSet

LEMMA ConcatSet ==
    ASSUME NEW S, NEW s \in Seq(S), NEW t \in Seq(S)
    PROVE  ToSet(s \o t) = ToSet(s) \cup ToSet(t)
<1>1. PICK m \in Nat, n \in Nat : m = Len(s) /\ n = Len(t)
  OBVIOUS
<1>2. PICK u : u = s \o t
  OBVIOUS
<1>3. /\ DOMAIN s = 1..m /\ DOMAIN t = 1..n /\ DOMAIN u = 1..m+n
      /\ \A i \in 1..m+n : u[i] = IF i <= m THEN s[i] ELSE t[i - m]
  BY <1>1, <1>2
<1>4. \A i \in 1..m : i \in 1..m+n /\ u[i] = s[i]
  BY <1>1, <1>3
<1>5. \A i \in 1..n : m+i \in 1..m+n /\ u[m+i] = t[i]
  <2>1. SUFFICES ASSUME NEW i \in 1..n PROVE m+i \in 1..m+n /\ u[m+i] = t[i]
    OBVIOUS
  <2>2. m+i \in 1..m+n /\ ~ (m+i <= m) /\ m+i - m = i
    OBVIOUS
  <2>3. u[m+i] = t[m+i - m]
    BY <1>1, <1>3, <2>2
  <2>4. QED
    BY <2>2, <2>3
<1>6. \A i \in 1..m+n : \/ i \in 1..m /\ u[i] = s[i]
                        \/ i - m \in 1..n /\ u[i] = t[i - m]
  BY <1>1, <1>3
<1>7. ToSet(u) = ToSet(s) \cup ToSet(t)
  <2>1. ToSet(u) \subseteq ToSet(s) \cup ToSet(t)
    BY <1>3, <1>6 DEF ToSet
  <2>2. ToSet(s) \subseteq ToSet(u)
    BY <1>3, <1>4 DEF ToSet
  <2>3. ToSet(t) \subseteq ToSet(u)
    BY <1>3, <1>5 DEF ToSet
  <2>4. QED
    BY <2>1, <2>2, <2>3
<1>8. QED
  BY <1>2, <1>7

LEMMA GathersNone == ASSUME NEW k PROVE Gathers(<<k, 0>>, <<>>)
<1>1. 1..0 = {} /\ <<>> \in Seq(k.of)
  OBVIOUS
<1>2. UNION {k.part[j] : j \in 1..0} = {}
  BY <1>1
<1>3. QED
  BY <1>1, <1>2, ToSetEmpty DEF Gathers

LEMMA GathersMore ==
    ASSUME NEW k, NEW n \in Nat \ {0}, NEW s, NEW t, Gathers(<<k, n - 1>>, s),
           t \in Seq(k.of), ToSet(t) = ToSet(s) \cup k.part[n]
    PROVE  Gathers(<<k, n>>, t)
<1>1. \A j : j \in 1..n <=> j \in 1..n-1 \/ j = n
  OBVIOUS
<1>2. ToSet(s) = UNION {k.part[j] : j \in 1..n-1}
  BY DEF Gathers
<1>3. \A x : x \in ToSet(s) <=> \E j \in 1..n-1 : x \in k.part[j]
  BY <1>2
<1>4. \A x : x \in UNION {k.part[j] : j \in 1..n} <=> \E j \in 1..n : x \in k.part[j]
  OBVIOUS
<1>5. \A x : (\E j \in 1..n : x \in k.part[j]) <=> (\E j \in 1..n-1 : x \in k.part[j]) \/ x \in k.part[n]
  BY <1>1
<1>6. \A x : x \in ToSet(t) <=> x \in UNION {k.part[j] : j \in 1..n}
  BY <1>3, <1>4, <1>5
<1>7. ToSet(t) = UNION {k.part[j] : j \in 1..n}
  BY <1>6
<1>8. QED
  BY <1>7 DEF Gathers

O == INSTANCE Folding WITH Op <- OnlyOp, Holds <- KeptOf
LEMMA OnlyFold == ASSUME NEW nodes, NEW wanted PROVE Only(nodes, wanted) = O!Fold(wanted, <<>>, nodes)
BY Zenon DEF Only, OnlyOp, O!Fold, FoldLeft, MapThenFoldSet, Max, O!FoldLeft, O!MapThenFoldSet, O!Max

LEMMA InjectiveAppend ==
    ASSUME NEW S, NEW s \in Seq(S), NEW e \in S, IsInjective(s), \A i \in 1..Len(s) : s[i] # e
    PROVE  IsInjective(Append(s, e))
<1>1. DOMAIN s = 1..Len(s) /\ Len(s) \in Nat
  OBVIOUS
<1>2. PICK t : t = Append(s, e)
  OBVIOUS
<1>3. DOMAIN t = 1..Len(s)+1 /\ t[Len(s)+1] = e /\ \A i \in 1..Len(s) : t[i] = s[i]
  BY <1>2
<1>4. \A i \in 1..Len(s)+1 : i \in 1..Len(s) \/ i = Len(s)+1
  BY <1>1
<1>5. IsInjective(t)
  BY <1>1, <1>3, <1>4 DEF IsInjective
<1>6. QED
  BY <1>2, <1>5

LEMMA OnlyIs ==
    ASSUME NEW S, NEW nodes \in Seq(S), NEW wanted, IsInjective(nodes)
    PROVE  /\ Only(nodes, wanted) \in Seq(wanted \cap ToSet(nodes))
           /\ IsInjective(Only(nodes, wanted))
           /\ ToSet(Only(nodes, wanted)) = wanted \cap ToSet(nodes)
<1>1. PICK k : k = [from |-> nodes, wanted |-> wanted]
  OBVIOUS
<1> DEFINE upto(n) == k.wanted \cap {k.from[j] : j \in 1..n}
<1>2. \A kept, n : KeptOf(<<k, n>>, kept)
                       <=> kept \in Seq(upto(n)) /\ IsInjective(kept) /\ ToSet(kept) = upto(n)
  BY DEF KeptOf
<1>3. KeptOf(<<k, 0>>, <<>>)
  <2>1. <<>> \in Seq(upto(0)) /\ IsInjective(<<>>) /\ ToSet(<<>>) = upto(0)
    BY ToSetEmpty DEF IsInjective
  <2>2. QED
    BY <1>2, <2>1
<1>4. ASSUME NEW kept, NEW n \in 1..Len(nodes), KeptOf(<<k, n - 1>>, kept)
      PROVE  KeptOf(<<k, n>>, OnlyOp(wanted, kept, nodes[n]))
  <2>1. kept \in Seq(upto(n - 1)) /\ IsInjective(kept) /\ ToSet(kept) = upto(n - 1)
    BY <1>2, <1>4
  <2>2. n \in Nat /\ n - 1 \in Nat /\ n >= 1 /\ Len(nodes) \in Nat /\ DOMAIN nodes = 1..Len(nodes)
    OBVIOUS
  <2>3. upto(n - 1) \subseteq upto(n)
    BY <2>2
  <2>4. PICK A, B : A = upto(n - 1) /\ B = upto(n)
    OBVIOUS
  <2>5. kept \in Seq(B) /\ \A i \in 1..Len(kept) : kept[i] \in A
    <3>1. A \subseteq B /\ kept \in Seq(A)
      BY <2>1, <2>3, <2>4
    <3>2. QED
      BY <3>1
  <2>6. CASE nodes[n] \in wanted
    <3>1. PICK e \in B : e = nodes[n]
      <4>1. nodes[n] \in upto(n)
        BY <1>1, <2>2, <2>6
      <4>2. QED
        BY <2>4, <4>1
    <3>2. e \notin A
      <4>1. \A j \in 1..n-1 : nodes[j] # nodes[n]
        BY <2>2 DEF IsInjective
      <4>2. QED
        BY <1>1, <2>4, <3>1, <4>1
    <3>3. \A i \in 1..Len(kept) : kept[i] # e
      BY <2>5, <3>2
    <3>4. IsInjective(Append(kept, e)) /\ Append(kept, e) \in Seq(B)
      BY <2>1, <2>5, <3>3, InjectiveAppend
    <3>5. OnlyOp(wanted, kept, nodes[n]) = Append(kept, e)
      BY <2>6, <3>1 DEF OnlyOp
    <3>6. ToSet(Append(kept, e)) = A \cup {e}
      <4>1. ToSet(Append(kept, e)) = ToSet(kept) \cup {e}
        BY <2>5, AppendSet
      <4>2. QED
        BY <2>1, <2>4, <4>1
    <3>7. B = A \cup {e}
      <4>1. \A j \in 1..n : j \in 1..n-1 \/ j = n
        BY <2>2
      <4>2. B \subseteq A \cup {e}
        BY <1>1, <2>4, <3>1, <4>1
      <4>3. QED
        BY <2>3, <2>4, <3>1, <4>2
    <3>8. QED
      BY <1>2, <2>4, <3>4, <3>5, <3>6, <3>7
  <2>7. CASE nodes[n] \notin wanted
    <3>1. OnlyOp(wanted, kept, nodes[n]) = kept
      BY <2>7 DEF OnlyOp
    <3>2. A = B
      <4>1. \A j \in 1..n : j \in 1..n-1 \/ j = n
        BY <2>2
      <4>2. B \subseteq A
        BY <1>1, <2>4, <2>7, <4>1
      <4>3. QED
        BY <2>3, <2>4, <4>2
    <3>3. QED
      BY <1>2, <2>1, <2>4, <2>5, <3>1, <3>2
  <2>8. QED
    BY <2>6, <2>7
<1>5. KeptOf(<<k, Len(nodes)>>, O!Fold(wanted, <<>>, nodes))
  BY <1>3, <1>4, O!FoldCounts
<1>6. upto(Len(nodes)) = wanted \cap ToSet(nodes)
  BY <1>1 DEF ToSet
<1>7. QED
  BY <1>2, <1>5, <1>6, OnlyFold

E == INSTANCE Folding WITH Op <- TargetOp, Holds <- Gathers
LEMMA OutgoingFold == ASSUME NEW n PROVE Outgoing(n) = E!Fold(n, <<>>, process.flows)
BY Zenon DEF Outgoing, TargetOp, E!Fold, FoldLeft, MapThenFoldSet, Max, E!FoldLeft, E!MapThenFoldSet, E!Max

A == INSTANCE Folding WITH Op <- ReversedOp, Holds <- Gathers
LEMMA ReversedFold == ASSUME NEW hosts PROVE ReversedTargets(hosts) = A!Fold(outgoing, <<>>, hosts)
BY Zenon DEF ReversedTargets, ReversedOp, A!Fold, FoldLeft, MapThenFoldSet, Max, A!FoldLeft, A!MapThenFoldSet, A!Max

LEMMA SeqGrows ==
    ASSUME NEW S, NEW U, S \subseteq U, NEW s \in Seq(S)
    PROVE  s \in Seq(U)
<1>1. s \in [1..Len(s) -> S] /\ Len(s) \in Nat
  OBVIOUS
<1>2. s \in [1..Len(s) -> U]
  BY <1>1
<1>3. QED
  BY <1>1, <1>2

LEMMA ReverseIs ==
    ASSUME NEW S, NEW s \in Seq(S)
    PROVE  Reverse(s) \in Seq(S) /\ ToSet(Reverse(s)) = ToSet(s)
<1>1. Len(s) \in Nat /\ \A i \in 1..Len(s) : s[(Len(s) - i) + 1] \in S
  OBVIOUS
<1>2. PICK n \in Nat : n = Len(s) /\ DOMAIN s = 1..n
  OBVIOUS
<1>3. PICK t : t = Reverse(s)
  OBVIOUS
<1>4. t = [i \in 1..n |-> s[(n - i) + 1]]
  BY <1>2, <1>3 DEF Reverse
<1>5. t \in [1..n -> S]
  BY <1>1, <1>2, <1>4
<1>6. t \in Seq(S) /\ DOMAIN t = 1..n
  BY <1>4, <1>5
<1>7. \A i \in 1..n : (n - i) + 1 \in 1..n /\ (n - ((n - i) + 1)) + 1 = i
  OBVIOUS
<1>8. ToSet(t) \subseteq ToSet(s)
  BY <1>2, <1>4, <1>6, <1>7 DEF ToSet
<1>9. ToSet(s) \subseteq ToSet(t)
  <2>1. ASSUME NEW i \in 1..n PROVE \E j \in 1..n : t[j] = s[i]
    <3>1. t[(n - i) + 1] = s[i]
      BY <1>4, <1>7
    <3>2. QED
      BY <1>7, <3>1
  <2>2. \A x : x \in ToSet(s) => \E i \in 1..n : x = s[i]
    BY <1>2 DEF ToSet
  <2>3. \A j \in 1..n : t[j] \in ToSet(t)
    BY <1>6 DEF ToSet
  <2>4. QED
    BY <2>1, <2>2, <2>3
<1>10. QED
  BY <1>3, <1>6, <1>8, <1>9

LEMMA OutgoingIs ==
    ASSUME process \in Processes, NEW n
    PROVE  /\ Outgoing(n) \in Targets
           /\ ToSet(Outgoing(n)) = {f[2] : f \in {f \in ToSet(process.flows) : f[1] = n}}
<1>1. PICK flows : flows = process.flows
  OBVIOUS
<1>2. PICK F : F = Node \X Node
  OBVIOUS
<1>3. flows \in Seq(F)
  BY <1>1, <1>2, ProcessesAssumption DEF Process
<1>4. \A i \in 1..Len(flows) : flows[i][2] \in FlowNodes
  <2>1. \A i \in 1..Len(flows) : flows[i] \in Node \X Node
    BY <1>2, <1>3
  <2>2. \A i \in 1..Len(flows) : process.host[flows[i][2]] = None
    BY <1>1, <1>3, ProcessesAssumption
  <2>3. QED
    BY <2>1, <2>2 DEF FlowNodes, Boundary
<1>5. PICK k : k = [of |-> FlowNodes, part |-> [i \in 1..Len(flows) |->
                                                    IF flows[i][1] = n THEN {flows[i][2]} ELSE {}]]
  OBVIOUS
<1>6. k.of = FlowNodes /\ \A i \in 1..Len(flows) : k.part[i] = IF flows[i][1] = n THEN {flows[i][2]} ELSE {}
  BY <1>5
<1>7. ASSUME NEW ends, NEW i \in 1..Len(flows), Gathers(<<k, i - 1>>, ends)
      PROVE  Gathers(<<k, i>>, TargetOp(n, ends, flows[i]))
  <2>1. PICK e \in FlowNodes : e = flows[i][2]
    BY <1>4
  <2>2. ends \in Seq(FlowNodes) /\ i \in Nat \ {0}
    BY <1>6, <1>7 DEF Gathers
  <2>3. Append(ends, e) \in Seq(FlowNodes) /\ ToSet(Append(ends, e)) = ToSet(ends) \cup {e}
    BY <2>2, AppendSet
  <2>4. PICK t : t = TargetOp(n, ends, flows[i])
    OBVIOUS
  <2>5. t \in Seq(k.of) /\ ToSet(t) = ToSet(ends) \cup k.part[i]
    BY <1>6, <2>1, <2>2, <2>3, <2>4 DEF TargetOp
  <2>6. QED
    BY <1>7, <2>2, <2>4, <2>5, GathersMore
<1>8. PICK all : all = E!Fold(n, <<>>, flows)
  OBVIOUS
<1>9. Gathers(<<k, Len(flows)>>, all)
  <2>1. Gathers(<<k, 0>>, <<>>)
    BY GathersNone
  <2>2. Gathers(<<k, Len(flows)>>, E!Fold(n, <<>>, flows))
    BY <1>3, <1>7, <2>1, E!FoldCounts
  <2>3. QED
    BY <1>8, <2>2
<1>10. all \in Seq(FlowNodes) /\ ToSet(all) = UNION {k.part[j] : j \in 1..Len(flows)}
  BY <1>6, <1>9 DEF Gathers
<1>11. UNION {k.part[j] : j \in 1..Len(flows)} = {f[2] : f \in {f \in ToSet(flows) : f[1] = n}}
  <2>1. DOMAIN flows = 1..Len(flows)
    BY <1>3
  <2>2. PICK N : N = 1..Len(flows)
    OBVIOUS
  <2>3. \A x : x \in UNION {k.part[j] : j \in N} <=> \E j \in N : flows[j][1] = n /\ x = flows[j][2]
    <3>1. \A x : x \in UNION {k.part[j] : j \in N} <=> \E j \in N : x \in k.part[j]
      OBVIOUS
    <3>2. \A j \in N : \A x : x \in k.part[j] <=> flows[j][1] = n /\ x = flows[j][2]
      BY <1>6, <2>2
    <3>3. QED
      BY <3>1, <3>2
  <2>4. \A x : x \in {f[2] : f \in {f \in ToSet(flows) : f[1] = n}}
                   <=> \E j \in N : flows[j][1] = n /\ x = flows[j][2]
    BY <2>1, <2>2 DEF ToSet
  <2>5. QED
    BY <2>2, <2>3, <2>4
<1>12. QED
  BY <1>1, <1>8, <1>10, <1>11, OutgoingFold DEF Targets

LEMMA ReversedIs ==
    ASSUME outgoing \in [Node -> Targets], NEW hosts \in Seq(Node)
    PROVE  /\ ReversedTargets(hosts) \in Targets
           /\ ToSet(ReversedTargets(hosts)) = UNION {ToSet(outgoing[n]) : n \in ToSet(hosts)}
<1>1. PICK k : k = [of |-> FlowNodes, part |-> [i \in 1..Len(hosts) |-> ToSet(outgoing[hosts[i]])]]
  OBVIOUS
<1>2. k.of = FlowNodes /\ \A i \in 1..Len(hosts) : k.part[i] = ToSet(outgoing[hosts[i]])
  BY <1>1
<1>3. ASSUME NEW all, NEW i \in 1..Len(hosts), Gathers(<<k, i - 1>>, all)
      PROVE  Gathers(<<k, i>>, ReversedOp(outgoing, all, hosts[i]))
  <2>1. outgoing[hosts[i]] \in Seq(FlowNodes)
    BY DEF Targets
  <2>2. PICK s \in Seq(FlowNodes) : s = Reverse(outgoing[hosts[i]]) /\ ToSet(s) = k.part[i]
    BY <1>2, <2>1, ReverseIs
  <2>3. all \in Seq(FlowNodes) /\ i \in Nat \ {0}
    BY <1>2, <1>3 DEF Gathers
  <2>4. PICK t : t = all \o s
    OBVIOUS
  <2>5. t \in Seq(k.of) /\ ToSet(t) = ToSet(all) \cup k.part[i]
    <3>1. all \o s \in Seq(FlowNodes)
      BY <2>3
    <3>2. ToSet(all \o s) = ToSet(all) \cup ToSet(s)
      BY <2>3, ConcatSet
    <3>3. QED
      BY <1>2, <2>2, <2>4, <3>1, <3>2
  <2>6. Gathers(<<k, i>>, t)
    BY <1>3, <2>3, <2>5, GathersMore
  <2>7. QED
    BY <2>2, <2>4, <2>6 DEF ReversedOp
<1>4. PICK all : all = A!Fold(outgoing, <<>>, hosts)
  OBVIOUS
<1>5. Gathers(<<k, Len(hosts)>>, all)
  <2>1. Gathers(<<k, 0>>, <<>>)
    BY GathersNone
  <2>2. Gathers(<<k, Len(hosts)>>, A!Fold(outgoing, <<>>, hosts))
    BY <1>3, <2>1, A!FoldCounts
  <2>3. QED
    BY <1>4, <2>2
<1>6. all \in Seq(FlowNodes) /\ ToSet(all) = UNION {k.part[j] : j \in 1..Len(hosts)}
  BY <1>2, <1>5 DEF Gathers
<1>7. UNION {k.part[j] : j \in 1..Len(hosts)} = UNION {ToSet(outgoing[n]) : n \in ToSet(hosts)}
  <2>1. DOMAIN hosts = 1..Len(hosts)
    OBVIOUS
  <2>2. PICK N : N = 1..Len(hosts)
    OBVIOUS
  <2>3. \A x : x \in UNION {k.part[j] : j \in N} <=> \E j \in N : x \in ToSet(outgoing[hosts[j]])
    BY <1>2, <2>2
  <2>4. \A x : x \in UNION {ToSet(outgoing[n]) : n \in ToSet(hosts)}
                   <=> \E j \in N : x \in ToSet(outgoing[hosts[j]])
    <3>1. ToSet(hosts) = {hosts[j] : j \in N}
      BY <2>1, <2>2 DEF ToSet
    <3>2. QED
      BY <3>1
  <2>5. QED
    BY <2>2, <2>3, <2>4
<1>8. QED
  BY <1>4, <1>6, <1>7, ReversedFold DEF Targets

(* The nodes in the order of the document, each once.                      *)
LEMMA InOrderIs ==
    ASSUME NEW nodes
    PROVE  /\ InOrder(nodes) \in Seq(nodes) /\ IsInjective(InOrder(nodes))
           /\ nodes \subseteq Node => ToSet(InOrder(nodes)) = nodes
<1>1. PICK last \in Nat : last = Max(Node \cup {0})
  <2>1. PICK numbers : numbers = Node \cup {0}
    OBVIOUS
  <2>2. numbers \in SUBSET Nat /\ numbers # {}
    BY <2>1, NodeAssumption
  <2>3. IsFiniteSet(numbers)
    BY <2>1, NodeAssumption, FS_AddElement
  <2>4. PICK b \in Nat : \A x \in numbers : x <= b
    BY <2>2, <2>3, FiniteBound
  <2>5. Max(numbers) \in Nat
    BY <2>2, <2>4, MaxIsOne
  <2>6. QED
    BY <2>1, <2>5
<1>2. Document \in Seq(Nat) /\ IsInjective(Document)
  <2>1. Document = [n \in 1..last |-> n]
    BY <1>1 DEF Document
  <2>2. QED
    BY <2>1 DEF IsInjective
<1>6. Node \subseteq ToSet(Document)
  <2>1. \A n \in Node : n \in 1..last
    <3>1. \A n \in Node : n <= last
      <4>1. PICK numbers : numbers = Node \cup {0}
        OBVIOUS
      <4>2. numbers \in SUBSET Nat /\ numbers # {} /\ IsFiniteSet(numbers)
        BY <4>1, NodeAssumption, FS_AddElement
      <4>3. PICK b \in Nat : \A x \in numbers : x <= b
        BY <4>2, FiniteBound
      <4>4. \A x \in numbers : x <= Max(numbers)
        BY <4>2, <4>3, MaxIsOne
      <4>5. QED
        BY <1>1, <4>1, <4>4
    <3>2. \A n \in Node : n \in Nat /\ n # 0
      BY NodeAssumption
    <3>3. QED
      BY <3>1, <3>2
  <2>2. DOMAIN Document = 1..last /\ \A n \in 1..last : Document[n] = n
    BY <1>1 DEF Document
  <2>3. QED
    BY <2>1, <2>2 DEF ToSet
<1>3. /\ Only(Document, nodes) \in Seq(nodes \cap ToSet(Document))
      /\ IsInjective(Only(Document, nodes))
      /\ ToSet(Only(Document, nodes)) = nodes \cap ToSet(Document)
  BY <1>2, OnlyIs
<1>7. nodes \subseteq Node => nodes \cap ToSet(Document) = nodes
  BY <1>6
<1>4. Only(Document, nodes) \in Seq(nodes)
  BY <1>3, SeqGrows
<1>5. QED
  BY <1>3, <1>4, <1>7 DEF InOrder

-----------------------------------------------------------------------------
(* Lists of different nodes.                                               *)
LEMMA ConcatInjective ==
    ASSUME NEW S, NEW s \in Seq(S), NEW t \in Seq(S), IsInjective(s), IsInjective(t),
           ToSet(s) \cap ToSet(t) = {}
    PROVE  IsInjective(s \o t)
<1>1. PICK m \in Nat, n \in Nat : m = Len(s) /\ n = Len(t)
  OBVIOUS
<1>2. PICK u : u = s \o t
  OBVIOUS
<1>3. /\ DOMAIN s = 1..m /\ DOMAIN t = 1..n /\ DOMAIN u = 1..m+n
      /\ \A i \in 1..m+n : u[i] = IF i <= m THEN s[i] ELSE t[i - m]
  BY <1>1, <1>2
<1>4. \A i \in 1..m+n : \/ i \in 1..m /\ u[i] = s[i]
                        \/ i - m \in 1..n /\ ~ (i \in 1..m) /\ u[i] = t[i - m]
  BY <1>1, <1>3
<1>5. \A i \in 1..m : \A j \in 1..n : s[i] # t[j]
  BY <1>3 DEF ToSet
<1>6. IsInjective(u)
  <2>1. SUFFICES ASSUME NEW i \in 1..m+n, NEW j \in 1..m+n, u[i] = u[j] PROVE i = j
    BY <1>3 DEF IsInjective
  <2>2. CASE i \in 1..m /\ j \in 1..m
    BY <1>3, <1>4, <2>1, <2>2 DEF IsInjective
  <2>3. CASE ~ (i \in 1..m) /\ ~ (j \in 1..m)
    <3>1. i - m \in 1..n /\ j - m \in 1..n /\ t[i - m] = t[j - m]
      BY <1>4, <2>1, <2>3
    <3>2. i - m = j - m
      BY <1>3, <3>1 DEF IsInjective
    <3>3. QED
      BY <3>2
  <2>4. CASE i \in 1..m /\ ~ (j \in 1..m)
    BY <1>4, <1>5, <2>1, <2>4
  <2>5. CASE ~ (i \in 1..m) /\ j \in 1..m
    BY <1>4, <1>5, <2>1, <2>5
  <2>6. QED
    BY <2>2, <2>3, <2>4, <2>5
<1>7. QED
  BY <1>2, <1>6

Listed(s, nodes) == s \in Seq(nodes) /\ IsInjective(s)

LEMMA ListedGrows ==
    ASSUME NEW U, NEW W, U \subseteq W, NEW s, Listed(s, U)
    PROVE  Listed(s, W)
BY SeqGrows DEF Listed

LEMMA GridGrows ==
    ASSUME NEW U, NEW W, U \subseteq W, NEW g \in Seq(Seq(U))
    PROVE  g \in Seq(Seq(W))
<1>1. Seq(U) \subseteq Seq(W)
  BY SeqGrows
<1>2. QED
  BY <1>1, SeqGrows

LEMMA ListedEmpty ==
    ASSUME NEW U
    PROVE  Listed(<<>>, U) /\ ToSet(<<>>) = {}
<1>1. <<>> \in Seq(U) /\ DOMAIN <<>> = {}
  OBVIOUS
<1>2. IsInjective(<<>>)
  BY <1>1 DEF IsInjective
<1>3. ToSet(<<>>) = {}
  BY <1>1 DEF ToSet
<1>4. QED
  BY <1>1, <1>2, <1>3 DEF Listed

LEMMA ListedOne ==
    ASSUME NEW U, NEW e \in U
    PROVE  Listed(<<e>>, U) /\ ToSet(<<e>>) = {e}
<1>1. <<e>> \in Seq(U) /\ DOMAIN <<e>> = 1..1 /\ <<e>>[1] = e
  OBVIOUS
<1>2. IsInjective(<<e>>)
  BY <1>1 DEF IsInjective
<1>3. ToSet(<<e>>) = {e}
  BY <1>1 DEF ToSet
<1>4. QED
  BY <1>1, <1>2, <1>3 DEF Listed

LEMMA ListedConcat ==
    ASSUME NEW U, NEW s, NEW t, Listed(s, U), Listed(t, U), ToSet(s) \cap ToSet(t) = {}
    PROVE  Listed(s \o t, U) /\ ToSet(s \o t) = ToSet(s) \cup ToSet(t)
<1>1. s \in Seq(U) /\ t \in Seq(U)
  BY DEF Listed
<1>2. ToSet(s \o t) = ToSet(s) \cup ToSet(t)
  BY <1>1, ConcatSet
<1>3. IsInjective(s \o t)
  BY <1>1, ConcatInjective DEF Listed
<1>4. s \o t \in Seq(U)
  BY <1>1
<1>5. QED
  BY <1>2, <1>3, <1>4 DEF Listed

LEMMA ListedFront ==
    ASSUME NEW U, NEW s, Listed(s, U), s # <<>>
    PROVE  Listed(Front(s), U) /\ Last(s) \in U
<1>1. s \in Seq(U) /\ Len(s) \in Nat /\ Len(s) # 0 /\ DOMAIN s = 1..Len(s)
  BY DEF Listed
<1>2. Last(s) \in U
  BY <1>1 DEF Last
<1>3. PICK k \in Nat : k = Len(s) - 1
  <2>1. Len(s) - 1 \in Nat
    BY <1>1
  <2>2. QED
    BY <2>1
<1>4. PICK f : f = SubSeq(s, 1, k)
  OBVIOUS
<1>5. f \in Seq(U) /\ DOMAIN f = 1..k /\ \A i \in 1..k : f[i] = s[i] /\ i \in 1..Len(s)
  BY <1>1, <1>3, <1>4
<1>6. IsInjective(f)
  BY <1>1, <1>5 DEF IsInjective, Listed
<1>7. Front(s) = f
  BY <1>3, <1>4 DEF Front
<1>8. QED
  BY <1>2, <1>5, <1>6, <1>7 DEF Listed

(* What is placed is drawn from the set of the cells.                      *)
LEMMA PlacedDrawn ==
    ASSUME NEW U, NEW g \in Seq(Seq(U \cup {None}))
    PROVE  Placed(g) \subseteq U
<1>1. SUFFICES ASSUME NEW pos \in Occupied(g) PROVE Cell(g, pos) \in U
  BY DEF Placed
<1>2. pos \in Positions(g) /\ Cell(g, pos) # None
  BY <1>1 DEF Occupied
<1>3. PICK r \in DOMAIN g : pos \in {r} \X DOMAIN g[r]
  BY <1>2 DEF Positions
<1>4. pos[1] = r /\ pos[2] \in DOMAIN g[r] /\ g[r] \in Seq(U \cup {None})
  BY <1>3
<1>5. g[r][pos[2]] \in U \cup {None}
  BY <1>4
<1>6. QED
  BY <1>2, <1>4, <1>5 DEF Cell

-----------------------------------------------------------------------------
(* The invariant.                                                          *)
Handling == pc \in {"row", "fan out", "targets", "attached"}

Waiting ==
    /\ Listed(stack, visited)
    /\ pc \in {"targets", "attached"} =>
           /\ Listed(next, visited) /\ Listed(below, visited)
           /\ ToSet(stack) \cap ToSet(next) = {}
           /\ ToSet(stack) \cap ToSet(below) = {}
           /\ ToSet(next) \cap ToSet(below) = {}

Walking ==
    /\ pc # "failed"
    /\ stack # <<>> \/ Handling => grid # <<>>
    /\ Handling => current \in visited

IInv == TypeOK /\ grid \in Seq(Seq(visited \cup {None})) /\ Waiting /\ Walking

LEMMA Safe == ASSUME IInv PROVE TypeOK /\ WaitOnce /\ NeverOccupied
<1>1. TypeOK /\ NeverOccupied
  BY DEF IInv, Walking, NeverOccupied
<1>2. Placed(grid) \subseteq visited
  BY PlacedDrawn DEF IInv
<1>3. Listed(stack, visited)
  BY DEF IInv, Waiting
<1>4. ToSet(stack) \subseteq visited
  BY <1>3, ToSetIs DEF Listed
<1>5. CASE pc \in {"targets", "attached"}
  <2>1. /\ Listed(next, visited) /\ Listed(below, visited)
        /\ ToSet(stack) \cap ToSet(next) = {} /\ ToSet(stack) \cap ToSet(below) = {}
        /\ ToSet(next) \cap ToSet(below) = {}
    BY <1>5 DEF IInv, Waiting
  <2>2. Listed(next \o below, visited) /\ ToSet(next \o below) = ToSet(next) \cup ToSet(below)
    BY <2>1, ListedConcat
  <2>3. Listed(stack \o (next \o below), visited)
    BY <1>3, <2>1, <2>2, ListedConcat
  <2>4. ToSet(stack \o (next \o below)) \subseteq visited
    BY <2>3, ToSetIs DEF Listed
  <2>5. QED
    BY <1>1, <1>2, <1>5, <2>3, <2>4 DEF WaitOnce, Listed
<1>6. CASE pc \notin {"targets", "attached"}
  <2>1. stack \o <<>> = stack
    BY <1>3 DEF Listed
  <2>2. QED
    BY <1>1, <1>2, <1>3, <1>4, <1>6, <2>1 DEF WaitOnce, Listed
<1>7. QED
  BY <1>5, <1>6

LEMMA NodesKept ==
    ASSUME process' = process
    PROVE  FlowNodes' = FlowNodes /\ Targets' = Targets /\ Boundary' = Boundary
BY DEF FlowNodes, Boundary, Targets

(* The types of what is drawn from the visited nodes follow.               *)
LEMMA Typing ==
    ASSUME TypeOK, process' = process, outgoing' \in [Node -> Targets],
           visited' \subseteq FlowNodes, grid' \in Seq(Seq(visited' \cup {None})),
           Listed(stack', visited'), pc' \in Phases, rescued' \in BOOLEAN,
           current' \in FlowNodes \cup {None}, previous' \in FlowNodes \cup {None},
           index' \in Nat \ {0}, next' \in Targets, attached' \in Targets, below' \in Targets
    PROVE  TypeOK'
<1>1. FlowNodes' = FlowNodes /\ Targets' = Targets
  BY NodesKept
<1>2. grid' \in Seq(Seq(FlowNodes \cup {None}))
  <2>1. visited' \cup {None} \subseteq FlowNodes \cup {None}
    OBVIOUS
  <2>2. QED
    BY <2>1, GridGrows
<1>3. stack' \in Targets
  BY SeqGrows DEF Listed, Targets
<1>4. QED
  BY <1>1, <1>2, <1>3 DEF TypeOK, Phases

LEMMA InitHolds == ASSUME Init PROVE IInv
<1>1. process \in Process
  BY ProcessesAssumption DEF Init
<1>2. outgoing \in [Node -> Targets]
  <2>1. \A n \in Node : Outgoing(n) \in Targets
    BY OutgoingIs DEF Init
  <2>2. QED
    BY <2>1 DEF Init
<1>3. <<>> \in Targets /\ <<>> \in Seq(Seq(FlowNodes \cup {None})) /\ <<>> \in Seq(Seq(visited \cup {None}))
  BY DEF Targets
<1>4. TypeOK
  <2>1. /\ grid \in Seq(Seq(FlowNodes \cup {None})) /\ stack \in Targets
        /\ next \in Targets /\ attached \in Targets /\ below \in Targets
    BY <1>3 DEF Init
  <2>2. visited \subseteq FlowNodes /\ pc \in Phases /\ rescued \in BOOLEAN
    BY Zenon DEF Init, Phases
  <2>3. current \in FlowNodes \cup {None} /\ previous \in FlowNodes \cup {None}
    BY Zenon DEF Init
  <2>4. index \in Nat \ {0}
    <3>1. index = 1
      BY Zenon DEF Init
    <3>2. QED
      BY <3>1
  <2>5. QED
    BY <1>1, <1>2, <2>1, <2>2, <2>3, <2>4 DEF TypeOK
<1>5. Waiting
  BY ListedEmpty DEF Init, Waiting
<1>6. QED
  BY <1>3, <1>4, <1>5 DEF Init, IInv, Walking, Handling

-----------------------------------------------------------------------------
(* The steps.                                                              *)
LEMMA StartStep == ASSUME IInv, Start PROVE IInv'
<1>1. PICK starting : starting = InOrder(Starting)
  OBVIOUS
<1>2. PICK W : W = visited \cup Starting
  OBVIOUS
<1>3. /\ visited' = W /\ stack' = starting /\ pc' = "drain" /\ rescued' = FALSE
      /\ grid' = grid \o [i \in DOMAIN starting |-> <<starting[i]>>]
      /\ UNCHANGED <<process, outgoing, current, index, previous, next, attached, below>>
  BY <1>1, <1>2 DEF Start, handling
<1>4. Starting \subseteq FlowNodes /\ W \subseteq FlowNodes
  BY <1>2 DEF IInv, TypeOK, Starting
<1>5. Listed(starting, W)
  <2>1. Listed(starting, Starting)
    BY <1>1, InOrderIs DEF Listed
  <2>2. Starting \subseteq W
    BY <1>2
  <2>3. QED
    BY <2>1, <2>2, ListedGrows
<1>6. PICK C : C = Seq(W \cup {None})
  OBVIOUS
<1>7. grid \in Seq(C)
  <2>1. visited \cup {None} \subseteq W \cup {None}
    BY <1>2
  <2>2. QED
    BY <2>1, <1>6, GridGrows DEF IInv
<1>8. PICK added \in Seq(C) : added = [i \in DOMAIN starting |-> <<starting[i]>>] /\ Len(added) = Len(starting)
  <2>1. starting \in Seq(W) /\ DOMAIN starting = 1..Len(starting) /\ Len(starting) \in Nat
    BY <1>5 DEF Listed
  <2>2. \A i \in 1..Len(starting) : <<starting[i]>> \in C
    BY <1>6, <2>1
  <2>3. [i \in 1..Len(starting) |-> <<starting[i]>>] \in Seq(C)
    BY <2>1, <2>2
  <2>4. Len([i \in 1..Len(starting) |-> <<starting[i]>>]) = Len(starting)
    BY <2>1
  <2>5. QED
    BY <2>1, <2>3, <2>4
<1>9. grid' = grid \o added
  BY <1>3, <1>8
<1>10. grid \o added \in Seq(C) /\ Len(grid \o added) = Len(grid) + Len(added)
  BY <1>7, <1>8
<1>11. starting # <<>> => grid' # <<>>
  <2>1. SUFFICES ASSUME starting # <<>> PROVE grid' # <<>>
    OBVIOUS
  <2>2. Len(starting) \in Nat /\ Len(starting) # 0
    BY <1>5, <2>1 DEF Listed
  <2>3. Len(grid) \in Nat
    BY <1>7
  <2>4. Len(grid') # 0
    BY <1>8, <1>9, <1>10, <2>2, <2>3
  <2>5. QED
    BY <2>4
<1>12. grid' \in Seq(Seq(visited' \cup {None}))
  BY <1>3, <1>6, <1>9, <1>10
<1>13. TypeOK'
  <2>1. TypeOK
    BY DEF IInv
  <2>2. /\ outgoing' \in [Node -> Targets]
        /\ current' \in FlowNodes \cup {None} /\ previous' \in FlowNodes \cup {None}
        /\ index' \in Nat \ {0} /\ next' \in Targets /\ attached' \in Targets /\ below' \in Targets
    BY <1>3, <2>1 DEF TypeOK
  <2>3. pc' \in Phases /\ rescued' \in BOOLEAN
    BY <1>3 DEF Phases
  <2>4. QED
    BY <1>3, <1>4, <1>5, <1>12, <2>1, <2>2, <2>3, Typing
<1>14. QED
  BY <1>3, <1>5, <1>11, <1>12, <1>13 DEF IInv, Waiting, Walking, Handling

LEMMA DrainedStep == ASSUME IInv, Drained PROVE IInv'
<1>1. pc = "drain" /\ stack = <<>>
  BY DEF Drained
<1>2. UNCHANGED <<process, outgoing, current, index, previous, next, attached, below>>
  BY DEF Drained, handling
<1>3. TypeOK /\ grid \in Seq(Seq(visited \cup {None}))
  BY DEF IInv
<1>4. /\ outgoing' \in [Node -> Targets]
      /\ current' \in FlowNodes \cup {None} /\ previous' \in FlowNodes \cup {None}
      /\ index' \in Nat \ {0} /\ next' \in Targets /\ attached' \in Targets /\ below' \in Targets
  BY <1>2, <1>3 DEF TypeOK
<1>5. CASE ~rescued /\ Missing # {}
  <2>1. PICK m : m = Min(Missing)
    OBVIOUS
  <2>2. PICK W : W = visited \cup {m}
    OBVIOUS
  <2>3. /\ stack' = <<m>> /\ grid' = AddRow(grid, m) /\ visited' = W
        /\ rescued' = TRUE /\ pc' = pc
    BY <1>5, <2>1, <2>2 DEF Drained, Mark
  <2>4. m \in FlowNodes /\ m \in W
    <3>1. Missing \in SUBSET Nat
      BY NodeAssumption DEF Missing, FlowNodes
    <3>2. m \in Missing
      BY <1>5, <2>1, <3>1, MinIs
    <3>3. QED
      BY <2>2, <3>2 DEF Missing
  <2>5. Listed(stack', W)
    BY <2>3, <2>4, ListedOne
  <2>6. grid' \in Grids(W \cup {None})
    <3>1. visited \cup {None} \subseteq W \cup {None}
      BY <2>2
    <3>2. grid \in Seq(Seq(W \cup {None}))
      BY <1>3, <3>1, GridGrows
    <3>3. m \in W \cup {None}
      BY <2>4
    <3>4. QED
      BY <2>3, <3>2, <3>3, AddRowIs
  <2>7. grid' \in Seq(Seq(visited' \cup {None})) /\ grid' # <<>>
    BY <2>3, <2>6 DEF Grids
  <2>8. W \subseteq FlowNodes
    BY <1>3, <2>2, <2>4 DEF TypeOK
  <2>9. TypeOK'
    <3>1. pc' \in Phases /\ rescued' \in BOOLEAN
      BY <1>1, <2>3 DEF Phases
    <3>2. QED
      BY <1>2, <1>3, <1>4, <2>3, <2>5, <2>7, <2>8, <3>1, Typing
  <2>10. QED
    BY <1>1, <2>3, <2>5, <2>7, <2>9 DEF IInv, Waiting, Walking, Handling
<1>6. CASE ~(~rescued /\ Missing # {})
  <2>1. pc' = "start" /\ UNCHANGED <<stack, grid, visited, rescued>>
    BY <1>6 DEF Drained
  <2>2. TypeOK'
    <3>1. Listed(stack', visited')
      BY <2>1 DEF IInv, Waiting
    <3>2. pc' \in Phases /\ rescued' \in BOOLEAN /\ visited' \subseteq FlowNodes
      BY <1>3, <2>1 DEF Phases, TypeOK
    <3>3. grid' \in Seq(Seq(visited' \cup {None}))
      BY <1>3, <2>1
    <3>4. QED
      BY <1>2, <1>3, <1>4, <3>1, <3>2, <3>3, Typing
  <2>3. QED
    BY <1>1, <1>3, <2>1, <2>2 DEF IInv, Waiting, Walking, Handling
<1>7. QED
  BY <1>5, <1>6

(* The node being handled is visited, and the grid has rows.               *)
LEMMA Current ==
    ASSUME IInv, Handling
    PROVE  /\ current \in visited /\ current \in FlowNodes /\ current \in Node /\ grid # <<>>
           /\ grid \in Grids(visited \cup {None})
           /\ outgoing[current] \in Seq(FlowNodes)
<1>1. current \in visited /\ grid # <<>>
  BY DEF IInv, Walking
<1>2. visited \subseteq FlowNodes /\ FlowNodes \subseteq Node /\ outgoing \in [Node -> Targets]
  BY DEF IInv, TypeOK, FlowNodes
<1>3. grid \in Grids(visited \cup {None})
  BY <1>1 DEF IInv, Grids
<1>4. QED
  BY <1>1, <1>2, <1>3 DEF Targets

LEMMA TakeStep == ASSUME IInv, Take PROVE IInv'
<1>1. PICK n : n = Last(stack)
  OBVIOUS
<1>2. /\ pc = "drain" /\ stack # <<>> /\ current' = n /\ stack' = Front(stack) /\ pc' = "row"
      /\ grid' \in {grid, AdjustColumn(grid, Sources(n), n)}
      /\ UNCHANGED <<process, outgoing, visited, rescued, index, previous, next, attached, below>>
  BY <1>1 DEF Take
<1>3. Listed(stack', visited) /\ n \in visited
  BY <1>1, <1>2, ListedFront DEF IInv, Waiting
<1>4. PICK U : U = visited \cup {None}
  OBVIOUS
<1>5. grid \in Grids(U)
  BY <1>2, <1>4 DEF IInv, Walking, Grids
<1>6. grid' \in Grids(U)
  <2>1. None \in U /\ n \in U
    BY <1>3, <1>4
  <2>2. AdjustColumn(grid, Sources(n), n) \in Grids(U)
    BY <1>5, <2>1, AdjustColumnIs
  <2>3. QED
    BY <1>2, <1>5, <2>2
<1>7. grid' \in Seq(Seq(visited' \cup {None})) /\ grid' # <<>>
  BY <1>2, <1>4, <1>6 DEF Grids
<1>8. TypeOK'
  <2>1. TypeOK /\ visited \subseteq FlowNodes
    BY DEF IInv, TypeOK
  <2>2. /\ outgoing' \in [Node -> Targets] /\ current' \in FlowNodes \cup {None}
        /\ previous' \in FlowNodes \cup {None} /\ rescued' \in BOOLEAN
    BY <1>2, <1>3, <2>1 DEF TypeOK
  <2>3. index' \in Nat \ {0} /\ next' \in Targets /\ attached' \in Targets /\ below' \in Targets
    BY <1>2, <2>1 DEF TypeOK
  <2>4. pc' \in Phases /\ visited' \subseteq FlowNodes /\ Listed(stack', visited')
    BY <1>2, <1>3, <2>1 DEF Phases
  <2>5. QED
    BY <1>2, <1>7, <2>1, <2>2, <2>3, <2>4, Typing
<1>9. QED
  BY <1>2, <1>3, <1>7, <1>8 DEF IInv, Waiting, Walking, Handling

LEMMA AlignRowStep == ASSUME IInv, AlignRow PROVE IInv'
<1>1. /\ pc = "row" /\ pc' = "fan out"
      /\ grid' \in {grid, AdjustRow(grid, Sources(current), current)}
      /\ UNCHANGED <<process, outgoing, visited, stack, rescued>>
      /\ UNCHANGED <<current, index, previous, next, attached, below>>
  BY DEF AlignRow, handling
<1>2. PICK U : U = visited \cup {None}
  OBVIOUS
<1>3. current \in visited /\ grid \in Grids(U) /\ current \in FlowNodes
  BY <1>1, <1>2, Current DEF Handling
<1>4. grid' \in Grids(U)
  <2>1. None \in U /\ current \in U
    BY <1>2, <1>3
  <2>2. AdjustRow(grid, Sources(current), current) \in Grids(U)
    BY <1>3, <2>1, AdjustRowIs
  <2>3. QED
    BY <1>1, <1>3, <2>2
<1>5. grid' \in Seq(Seq(visited' \cup {None})) /\ grid' # <<>>
  BY <1>1, <1>2, <1>4 DEF Grids
<1>6. Listed(stack', visited')
  BY <1>1 DEF IInv, Waiting
<1>7. TypeOK'
  <2>1. TypeOK
    BY DEF IInv
  <2>2. /\ outgoing' \in [Node -> Targets] /\ current' \in FlowNodes \cup {None}
        /\ previous' \in FlowNodes \cup {None} /\ rescued' \in BOOLEAN
    BY <1>1, <2>1 DEF TypeOK
  <2>3. index' \in Nat \ {0} /\ next' \in Targets /\ attached' \in Targets /\ below' \in Targets
    BY <1>1, <2>1 DEF TypeOK
  <2>4. pc' \in Phases /\ visited' \subseteq FlowNodes
    BY <1>1, <2>1 DEF Phases, TypeOK
  <2>5. QED
    BY <1>1, <1>5, <1>6, <2>1, <2>2, <2>3, <2>4, Typing
<1>8. QED
  BY <1>1, <1>3, <1>5, <1>6, <1>7 DEF IInv, Waiting, Walking, Handling

LEMMA FanOutStep == ASSUME IInv, FanOut PROVE IInv'
<1>1. /\ pc = "fan out" /\ pc' = "targets"
      /\ grid' \in {grid, AdjustGridPosition(grid, current)}
      /\ index' = 1 /\ previous' = None /\ next' = <<>> /\ below' = <<>>
      /\ UNCHANGED <<process, outgoing, visited, stack, rescued, current, attached>>
  BY DEF FanOut
<1>2. PICK U : U = visited \cup {None}
  OBVIOUS
<1>3. current \in visited /\ grid \in Grids(U)
  BY <1>1, <1>2, Current DEF Handling
<1>4. grid' \in Grids(U)
  <2>1. None \in U /\ current \in U
    BY <1>2, <1>3
  <2>2. AdjustGridPosition(grid, current) \in Grids(U)
    BY <1>3, <2>1, AdjustGridPositionIs
  <2>3. QED
    BY <1>1, <1>3, <2>2
<1>5. grid' \in Seq(Seq(visited' \cup {None})) /\ grid' # <<>>
  BY <1>1, <1>2, <1>4 DEF Grids
<1>6. Listed(stack', visited')
  BY <1>1 DEF IInv, Waiting
<1>7. TypeOK'
  <2>1. TypeOK
    BY DEF IInv
  <2>2. /\ outgoing' \in [Node -> Targets] /\ current' \in FlowNodes \cup {None}
        /\ rescued' \in BOOLEAN /\ attached' \in Targets
    BY <1>1, <2>1 DEF TypeOK
  <2>3. /\ previous' \in FlowNodes \cup {None} /\ index' \in Nat \ {0}
        /\ next' \in Targets /\ below' \in Targets
    <3>1. <<>> \in Targets
      BY DEF Targets
    <3>2. 1 \in Nat \ {0}
      OBVIOUS
    <3>3. QED
      BY <1>1, <3>1, <3>2
  <2>4. pc' \in Phases /\ visited' \subseteq FlowNodes
    BY <1>1, <2>1 DEF Phases, TypeOK
  <2>5. QED
    BY <1>1, <1>5, <1>6, <2>1, <2>2, <2>3, <2>4, Typing
<1>8. Waiting'
  <2>1. Listed(next', visited') /\ Listed(below', visited') /\ ToSet(next') = {} /\ ToSet(below') = {}
    BY <1>1, ListedEmpty
  <2>2. QED
    BY <1>6, <2>1 DEF Waiting
<1>9. QED
  BY <1>1, <1>3, <1>5, <1>7, <1>8 DEF IInv, Walking, Handling

LEMMA PlaceIs ==
    ASSUME NEW U, None \in U, NEW target \in U, grid \in Grids(U)
    PROVE  Place(target) \in Grids(U)
<1>1. /\ AddAfter(grid, current, target) \in Grids(U)
      /\ AddAfter(grid, previous, target) \in Grids(U)
      /\ AddBelow(grid, outgoing[current][index - 1], target) \in Grids(U)
  BY AddAfterIs, AddBelowIs
<1>2. QED
  BY <1>1 DEF Place

LEMMA TargetStep == ASSUME IInv, Target PROVE IInv'
<1>1. PICK target : target = outgoing[current][index]
  OBVIOUS
<1>2. /\ pc = "targets" /\ index <= Len(outgoing[current])
      /\ index' = index + 1 /\ pc' = pc
      /\ UNCHANGED <<process, outgoing, stack, rescued, current, attached, below>>
  BY DEF Target
<1>3. TypeOK /\ grid \in Seq(Seq(visited \cup {None})) /\ visited \subseteq FlowNodes
  BY DEF IInv, TypeOK
<1>4. current \in visited /\ outgoing[current] \in Seq(FlowNodes) /\ grid \in Grids(visited \cup {None})
  BY <1>2, Current DEF Handling
<1>5. target \in FlowNodes
  <2>1. index \in Nat /\ index # 0
    BY <1>3 DEF TypeOK
  <2>2. index \in 1..Len(outgoing[current])
    BY <1>2, <1>4, <2>1
  <2>3. QED
    BY <1>1, <1>4, <2>2
<1>6. /\ Listed(stack, visited) /\ Listed(next, visited) /\ Listed(below, visited)
      /\ ToSet(stack) \cap ToSet(next) = {} /\ ToSet(stack) \cap ToSet(below) = {}
      /\ ToSet(next) \cap ToSet(below) = {}
  BY <1>2 DEF IInv, Waiting
<1>7. /\ outgoing' \in [Node -> Targets] /\ current' \in FlowNodes \cup {None}
      /\ rescued' \in BOOLEAN /\ pc' \in Phases
      /\ attached' \in Targets /\ below' \in Targets
  BY <1>2, <1>3 DEF TypeOK
<1>8. index' \in Nat \ {0}
  <2>1. index \in Nat
    BY <1>3 DEF TypeOK
  <2>2. QED
    BY <1>2, <2>1
<1>9. CASE Seen(target) \/ Waits(target)
  <2>1. UNCHANGED <<grid, visited, previous, next>>
    BY <1>1, <1>9 DEF Target
  <2>2. TypeOK'
    <3>1. /\ previous' \in FlowNodes \cup {None} /\ next' \in Targets
          /\ visited' \subseteq FlowNodes
      BY <1>3, <2>1 DEF TypeOK
    <3>2. grid' \in Seq(Seq(visited' \cup {None})) /\ Listed(stack', visited')
      BY <1>2, <1>3, <1>6, <2>1
    <3>3. QED
      BY <1>2, <1>3, <1>7, <1>8, <3>1, <3>2, Typing
  <2>3. Waiting'
    BY <1>2, <1>6, <2>1 DEF Waiting
  <2>4. grid' # <<>>
    BY <1>4, <2>1 DEF Grids
  <2>5. QED
    BY <1>2, <1>3, <1>4, <2>1, <2>2, <2>3, <2>4 DEF IInv, Walking, Handling
<1>10. CASE ~(Seen(target) \/ Waits(target))
  <2>1. PICK W : W = visited \cup {target}
    OBVIOUS
  <2>2. /\ grid' = Place(target)
        /\ previous' \in {previous, target}
        /\ next' = Cons(target, next) /\ visited' = W
    BY <1>1, <1>10, <2>1 DEF Target
  <2>3. target \notin visited
    BY <1>10 DEF Seen
  <2>4. visited \subseteq W /\ W \subseteq FlowNodes /\ target \in W
    BY <1>3, <1>5, <2>1
  <2>5. Listed(stack, W) /\ Listed(next, W) /\ Listed(below, W)
    BY <1>6, <2>4, ListedGrows
  <2>6. target \notin ToSet(stack) /\ target \notin ToSet(next) /\ target \notin ToSet(below)
    BY <1>6, <2>3, ToSetIs DEF Listed
  <2>7. Listed(next', W) /\ ToSet(next') = {target} \cup ToSet(next)
    <3>1. PICK one : one = <<target>>
      OBVIOUS
    <3>2. Listed(one, W) /\ ToSet(one) = {target}
      BY <2>4, <3>1, ListedOne
    <3>3. ToSet(one) \cap ToSet(next) = {}
      BY <2>6, <3>2
    <3>4. Listed(one, W) /\ Listed(next, W)
      BY <2>5, <3>2
    <3>5. PICK rest : rest = next
      OBVIOUS
    <3>6. Listed(one, W) /\ Listed(rest, W) /\ ToSet(one) \cap ToSet(rest) = {}
      BY <3>3, <3>4, <3>5
    <3>7. Listed(one \o rest, W)
      BY <3>6, ListedConcat
    <3>8. ToSet(one \o rest) = ToSet(one) \cup ToSet(rest)
      BY <3>6, ListedConcat
    <3>9. Listed(one \o next, W) /\ ToSet(one \o next) = ToSet(one) \cup ToSet(next)
      BY <3>5, <3>7, <3>8
    <3>10. next' = one \o next
      BY <2>2, <3>1 DEF Cons
    <3>11. QED
      BY <3>2, <3>9, <3>10
  <2>8. grid' \in Grids(W \cup {None})
    <3>1. grid \in Grids(W \cup {None})
      <4>1. visited \cup {None} \subseteq W \cup {None}
        BY <2>4
      <4>2. grid \in Seq(Seq(W \cup {None}))
        BY <1>3, <4>1, GridGrows
      <4>3. QED
        BY <1>4, <4>2 DEF Grids
    <3>2. None \in W \cup {None} /\ target \in W \cup {None}
      BY <2>4
    <3>3. QED
      BY <2>2, <3>1, <3>2, PlaceIs
  <2>9. grid' \in Seq(Seq(visited' \cup {None})) /\ grid' # <<>>
    BY <2>2, <2>8 DEF Grids
  <2>10. TypeOK'
    <3>1. previous' \in FlowNodes \cup {None}
      BY <1>3, <1>5, <2>2 DEF TypeOK
    <3>2. next' \in Targets
      BY <2>4, <2>7, ListedGrows DEF Listed, Targets
    <3>3. Listed(stack', visited') /\ visited' \subseteq FlowNodes
      BY <1>2, <2>2, <2>4, <2>5
    <3>4. QED
      BY <1>2, <1>3, <1>7, <1>8, <2>9, <3>1, <3>2, <3>3, Typing
  <2>11. Waiting'
    <3>1. /\ ToSet(stack) \cap ToSet(next') = {}
          /\ ToSet(next') \cap ToSet(below) = {}
      BY <1>6, <2>6, <2>7
    <3>2. stack' = stack /\ below' = below
      BY <1>2
    <3>3. QED
      BY <1>6, <2>2, <2>5, <2>7, <3>1, <3>2 DEF Waiting
  <2>12. current' \in visited'
    BY <1>2, <1>4, <2>2, <2>4
  <2>13. QED
    BY <1>2, <2>9, <2>10, <2>11, <2>12 DEF IInv, Walking, Handling
<1>11. QED
  BY <1>9, <1>10

(* Sorting moves the nodes that wait, and loses or doubles none.           *)
LEMMA GatewaysFirstIs ==
    ASSUME NEW U, NEW nodes, Listed(nodes, U)
    PROVE  /\ Listed(GatewaysFirst(nodes), ToSet(nodes))
           /\ U \subseteq Node => ToSet(GatewaysFirst(nodes)) = ToSet(nodes)
<1>1. PICK gateways : gateways = {n \in Node : Gateway(n)}
  OBVIOUS
<1>2. PICK others : others = Node \ gateways
  OBVIOUS
<1>3. PICK s : s = Only(nodes, gateways)
  OBVIOUS
<1>4. PICK t : t = Only(nodes, others)
  OBVIOUS
<1>5. nodes \in Seq(U) /\ IsInjective(nodes)
  BY DEF Listed
<1>6. s \in Seq(gateways \cap ToSet(nodes)) /\ IsInjective(s) /\ ToSet(s) = gateways \cap ToSet(nodes)
  BY <1>3, <1>5, OnlyIs
<1>7. t \in Seq(others \cap ToSet(nodes)) /\ IsInjective(t) /\ ToSet(t) = others \cap ToSet(nodes)
  BY <1>4, <1>5, OnlyIs
<1>8. ToSet(s) \subseteq gateways /\ ToSet(t) \subseteq others
  BY <1>6, <1>7, ToSetIs
<1>9. ToSet(s) \cap ToSet(t) = {}
  BY <1>2, <1>8
<1>10. Listed(s, ToSet(nodes)) /\ Listed(t, ToSet(nodes))
  BY <1>6, <1>7, SeqGrows DEF Listed
<1>11. Listed(s \o t, ToSet(nodes)) /\ ToSet(s \o t) = ToSet(s) \cup ToSet(t)
  BY <1>9, <1>10, ListedConcat
<1>12. GatewaysFirst(nodes) = s \o t
  BY <1>1, <1>2, <1>3, <1>4 DEF GatewaysFirst
<1>13. U \subseteq Node => ToSet(s) \cup ToSet(t) = ToSet(nodes)
  <2>1. ToSet(nodes) \subseteq U
    BY <1>5, ToSetIs
  <2>2. QED
    BY <1>2, <1>6, <1>7, <2>1
<1>14. QED
  BY <1>11, <1>12, <1>13

LEMMA AttachStep == ASSUME IInv, Attach PROVE IInv'
<1>1. PICK hosts : hosts = InOrder(Attachers(current))
  OBVIOUS
<1>2. /\ pc = "targets" /\ pc' = "attached"
      /\ next' = GatewaysFirst(next)
      /\ outgoing' = [n \in Node |-> IF n \in ToSet(hosts) THEN Reverse(outgoing[n]) ELSE outgoing[n]]
      /\ attached' = ReversedTargets(hosts)
      /\ UNCHANGED <<process, grid, visited, stack, rescued, current, index, previous, below>>
  BY <1>1 DEF Attach
<1>3. TypeOK /\ grid \in Seq(Seq(visited \cup {None})) /\ visited \subseteq FlowNodes
  BY DEF IInv, TypeOK
<1>4. current \in visited /\ grid # <<>>
  BY <1>2, Current DEF Handling
<1>5. /\ Listed(stack, visited) /\ Listed(next, visited) /\ Listed(below, visited)
      /\ ToSet(stack) \cap ToSet(next) = {} /\ ToSet(stack) \cap ToSet(below) = {}
      /\ ToSet(next) \cap ToSet(below) = {}
  BY <1>2 DEF IInv, Waiting
<1>6. Listed(next', ToSet(next)) /\ ToSet(next') \subseteq ToSet(next) /\ ToSet(next) \subseteq visited
  <2>1. Listed(next', ToSet(next))
    BY <1>2, <1>5, GatewaysFirstIs
  <2>2. QED
    BY <1>5, <2>1, ToSetIs DEF Listed
<1>7. Listed(next', visited)
  BY <1>6, ListedGrows
<1>8. outgoing' \in [Node -> Targets]
  <2>1. \A n \in Node : outgoing[n] \in Seq(FlowNodes)
    BY <1>3 DEF TypeOK, Targets
  <2>2. \A n \in Node : Reverse(outgoing[n]) \in Seq(FlowNodes)
    BY <2>1, ReverseIs
  <2>3. QED
    BY <1>2, <2>1, <2>2 DEF Targets
<1>9. attached' \in Targets
  <2>1. hosts \in Seq(Attachers(current))
    BY <1>1, InOrderIs
  <2>2. Attachers(current) \subseteq Node
    BY DEF Attachers, Boundary
  <2>3. hosts \in Seq(Node)
    BY <2>1, <2>2, SeqGrows
  <2>4. outgoing \in [Node -> Targets]
    BY <1>3 DEF TypeOK
  <2>5. QED
    BY <1>2, <2>3, <2>4, ReversedIs
<1>10. grid' \in Seq(Seq(visited' \cup {None})) /\ Listed(stack', visited')
  BY <1>2, <1>3, <1>5
<1>11. TypeOK'
  <2>1. /\ visited' \subseteq FlowNodes /\ pc' \in Phases /\ rescued' \in BOOLEAN
        /\ current' \in FlowNodes \cup {None} /\ previous' \in FlowNodes \cup {None}
        /\ index' \in Nat \ {0} /\ below' \in Targets
    BY <1>2, <1>3 DEF TypeOK, Phases
  <2>2. next' \in Targets
    BY <1>3, <1>7, ListedGrows DEF Listed, Targets
  <2>3. QED
    BY <1>2, <1>3, <1>8, <1>9, <1>10, <2>1, <2>2, Typing
<1>12. Waiting'
  <2>1. /\ ToSet(stack) \cap ToSet(next') = {}
        /\ ToSet(next') \cap ToSet(below) = {}
    BY <1>5, <1>6
  <2>2. stack' = stack /\ below' = below /\ visited' = visited
    BY <1>2
  <2>3. QED
    BY <1>5, <1>7, <2>1, <2>2 DEF Waiting
<1>13. QED
  BY <1>2, <1>4, <1>10, <1>11, <1>12 DEF IInv, Walking, Handling

LEMMA GetIs ==
    ASSUME NEW g, NEW r, NEW c
    PROVE  Get(g, r, c) = IF r \in DOMAIN g /\ c \in DOMAIN g[r] THEN g[r][c] ELSE None
<1>1. <<r, c>> \in Positions(g) <=> r \in DOMAIN g /\ c \in DOMAIN g[r]
  <2>1. ASSUME <<r, c>> \in Positions(g) PROVE r \in DOMAIN g /\ c \in DOMAIN g[r]
    <3>1. PICK q \in DOMAIN g : <<r, c>> \in {q} \X DOMAIN g[q]
      BY <2>1 DEF Positions
    <3>2. QED
      BY <3>1
  <2>2. ASSUME r \in DOMAIN g, c \in DOMAIN g[r] PROVE <<r, c>> \in Positions(g)
    <3>1. <<r, c>> \in {r} \X DOMAIN g[r]
      BY <2>2
    <3>2. QED
      BY <2>2, <3>1 DEF Positions
  <2>3. QED
    BY <2>1, <2>2
<1>2. QED
  BY <1>1 DEF Get

(* A new row is empty, and a row is made when a cell needed is taken; what *)
(* AddAt adds first never touches the first row of a grid that has one.    *)
LEMMA RoomFound ==
    ASSUME NEW U, None \in U, NEW g \in Grids(U), NEW p \in Nat, NEW q \in Nat, p <= Len(g),
           NEW e \in U, NEW rows,
           \/ rows = CreateRow(g, p)
           \/ rows = g /\ Get(g, p + 1, q + 1) = None
    PROVE  rows \in Grids(U) /\ ~Refused(rows, <<p + 1, q + 1>>, e)
<1>1. PICK r \in Nat, c \in Nat : r = p + 1 /\ c = q + 1
  OBVIOUS
<1>2. p \in 0..Len(g)
  BY GridIs
<1>3. rows \in Grids(U) /\ Get(rows, r, c) = None
  <2>1. CASE rows = CreateRow(g, p)
    <3>1. rows \in Grids(U) /\ rows[r] = <<>>
      BY <1>1, <1>2, <2>1, CreateRowIs
    <3>2. c \notin DOMAIN rows[r]
      BY <3>1
    <3>3. QED
      BY <3>1, <3>2, GetIs
  <2>2. CASE rows = g /\ Get(g, p + 1, q + 1) = None
    BY <1>1, <2>2
  <2>3. QED
    BY <2>1, <2>2
<1>4. Get(AddRow(rows, e), 1, 1) = Get(rows, 1, 1)
  <2>1. PICK C : C = Seq(U)
    OBVIOUS
  <2>2. rows \in Seq(C) /\ Len(rows) \in Nat /\ Len(rows) >= 1 /\ <<e>> \in C
    BY <1>3, <2>1, GridIs
  <2>3. PICK more : more = Append(rows, <<e>>)
    OBVIOUS
  <2>4. 1 \in DOMAIN more /\ 1 \in DOMAIN rows /\ more[1] = rows[1]
    BY <2>2, <2>3
  <2>5. QED
    BY <2>3, <2>4, GetIs DEF AddRow
<1>5. ASSUME <<r, c>> = <<1, 1>> PROVE r = 1 /\ c = 1
  BY <1>5
<1>6. Get(IF <<r, c>> = <<1, 1>> THEN AddRow(rows, e) ELSE rows, r, c) = None
  BY <1>3, <1>4, <1>5
<1>7. PICK cell : cell = <<r, c>>
  OBVIOUS
<1>8. cell[1] = r /\ cell[2] = c
  BY <1>7
<1>9. ~Refused(rows, cell, e)
  BY <1>6, <1>7, <1>8 DEF Refused
<1>10. QED
  BY <1>1, <1>3, <1>7, <1>9

LEMMA AttachedTargetStep == ASSUME IInv, AttachedTarget PROVE IInv'
<1>1. PICK target : target = Head(attached)
  OBVIOUS
<1>2. PICK pos : pos = Find(grid, current)
  OBVIOUS
<1>3. PICK rows : rows = IF RowTaken(current) THEN CreateRow(grid, pos[1]) ELSE grid
  OBVIOUS
<1>4. PICK cell : cell = <<pos[1] + 1, pos[2] + 1>>
  OBVIOUS
<1>5. /\ pc = "attached" /\ attached # <<>> /\ attached' = Tail(attached)
      /\ UNCHANGED <<process, outgoing, stack, rescued, current, index, previous, next>>
  BY DEF AttachedTarget
<1>6. TypeOK /\ grid \in Seq(Seq(visited \cup {None})) /\ visited \subseteq FlowNodes
  BY DEF IInv, TypeOK
<1>7. current \in visited /\ grid \in Grids(visited \cup {None})
  BY <1>5, Current DEF Handling
<1>8. /\ Listed(stack, visited) /\ Listed(next, visited) /\ Listed(below, visited)
      /\ ToSet(stack) \cap ToSet(next) = {} /\ ToSet(stack) \cap ToSet(below) = {}
      /\ ToSet(next) \cap ToSet(below) = {}
  BY <1>5 DEF IInv, Waiting
<1>9. target \in FlowNodes /\ attached' \in Targets
  <2>1. attached \in Seq(FlowNodes)
    BY <1>6 DEF TypeOK, Targets
  <2>2. QED
    BY <1>1, <1>5, <2>1 DEF Targets
<1>10. /\ outgoing' \in [Node -> Targets] /\ current' \in FlowNodes \cup {None}
       /\ previous' \in FlowNodes \cup {None} /\ rescued' \in BOOLEAN
       /\ index' \in Nat \ {0} /\ next' \in Targets
  BY <1>5, <1>6 DEF TypeOK
<1>11. CASE Seen(target)
  <2>1. UNCHANGED <<grid, visited, below, pc>>
    BY <1>1, <1>11 DEF AttachedTarget
  <2>2. TypeOK'
    <3>1. below' \in Targets /\ visited' \subseteq FlowNodes /\ pc' \in Phases
      BY <1>6, <2>1 DEF TypeOK
    <3>2. grid' \in Seq(Seq(visited' \cup {None})) /\ Listed(stack', visited')
      BY <1>5, <1>6, <1>8, <2>1
    <3>3. QED
      BY <1>5, <1>6, <1>9, <1>10, <3>1, <3>2, Typing
  <2>3. Waiting'
    BY <1>5, <1>8, <2>1 DEF Waiting
  <2>4. grid' # <<>>
    BY <1>7, <2>1 DEF Grids
  <2>5. QED
    BY <1>5, <1>6, <1>7, <2>1, <2>2, <2>3, <2>4 DEF IInv, Walking, Handling
<1>12. CASE ~Seen(target)
  <2>1. PICK W : W = visited \cup {target}
    OBVIOUS
  <2>2. visited \subseteq W /\ W \subseteq FlowNodes /\ target \in W /\ target \notin visited
    BY <1>6, <1>9, <1>12, <2>1 DEF Seen
  <2>3. PICK U : U = W \cup {None}
    OBVIOUS
  <2>4. None \in U /\ target \in U
    BY <2>2, <2>3
  <2>5. grid \in Grids(U)
    <3>1. visited \cup {None} \subseteq U
      BY <2>2, <2>3
    <3>2. grid \in Seq(Seq(U))
      BY <1>6, <3>1, GridGrows
    <3>3. QED
      BY <1>7, <3>2 DEF Grids
  <2>6. PICK p \in Nat, q \in Nat : p = pos[1] /\ q = pos[2] /\ p <= Len(grid)
    <3>1. Pos(grid, pos)
      BY <1>2, <2>5, FindPos
    <3>2. Len(grid) \in Nat
      BY <2>5, GridIs
    <3>3. QED
      BY <3>1, <3>2 DEF Pos
  <2>7. \/ rows = CreateRow(grid, p)
        \/ rows = grid /\ Get(grid, p + 1, q + 1) = None
    BY <1>2, <1>3, <2>6 DEF RowTaken
  <2>8. rows \in Grids(U) /\ ~Refused(rows, <<p + 1, q + 1>>, target)
    BY <2>4, <2>5, <2>6, <2>7, RoomFound
  <2>9. cell = <<p + 1, q + 1>> /\ ~Refused(rows, cell, target)
    BY <1>4, <2>6, <2>8
  <2>10. /\ grid' = AddAt(rows, cell, target) /\ visited' = W
         /\ below' = Append(below, target) /\ pc' = pc
    BY <1>1, <1>2, <1>3, <1>4, <1>12, <2>1, <2>9 DEF AttachedTarget
  <2>11. grid' \in Grids(U)
    <3>1. PICK r \in Nat, c \in Nat : r = p + 1 /\ c = q + 1
      OBVIOUS
    <3>2. AddAt(rows, <<r, c>>, target) \in Grids(U)
      BY <2>4, <2>8, AddAtIs
    <3>3. QED
      BY <2>9, <2>10, <3>1, <3>2
  <2>12. grid' \in Seq(Seq(visited' \cup {None})) /\ grid' # <<>>
    BY <2>3, <2>10, <2>11 DEF Grids
  <2>13. Listed(stack, W) /\ Listed(next, W) /\ Listed(below, W)
    BY <1>8, <2>2, ListedGrows
  <2>14. target \notin ToSet(stack) /\ target \notin ToSet(next) /\ target \notin ToSet(below)
    BY <1>8, <2>2, ToSetIs DEF Listed
  <2>15. Listed(below', W) /\ ToSet(below') = ToSet(below) \cup {target}
    <3>1. PICK one : one = <<target>>
      OBVIOUS
    <3>2. Listed(one, W) /\ ToSet(one) = {target}
      BY <2>2, <3>1, ListedOne
    <3>3. ToSet(below) \cap ToSet(one) = {}
      BY <2>14, <3>2
    <3>4. Listed(below, W) /\ Listed(one, W)
      BY <2>13, <3>2
    <3>5. Listed(below \o one, W) /\ ToSet(below \o one) = ToSet(below) \cup ToSet(one)
      BY <3>3, <3>4, ListedConcat
    <3>6. below' = below \o one
      <4>1. below \in Seq(W) /\ target \in W
        BY <2>2, <2>13 DEF Listed
      <4>2. Append(below, target) = below \o <<target>>
        BY <4>1
      <4>3. QED
        BY <2>10, <3>1, <4>2
    <3>7. QED
      BY <3>2, <3>5, <3>6
  <2>16. TypeOK'
    <3>1. below' \in Targets
      BY <2>2, <2>15, ListedGrows DEF Listed, Targets
    <3>2. Listed(stack', visited') /\ visited' \subseteq FlowNodes /\ pc' \in Phases
      BY <1>5, <2>2, <2>10, <2>13 DEF Phases
    <3>3. QED
      BY <1>5, <1>6, <1>9, <1>10, <2>12, <3>1, <3>2, Typing
  <2>17. Waiting'
    <3>1. /\ ToSet(stack) \cap ToSet(below') = {}
          /\ ToSet(next) \cap ToSet(below') = {}
      BY <1>8, <2>14, <2>15
    <3>2. stack' = stack /\ next' = next
      BY <1>5
    <3>3. QED
      BY <1>8, <2>10, <2>13, <2>15, <3>1, <3>2 DEF Waiting
  <2>18. current' \in visited'
    BY <1>5, <1>7, <2>2, <2>10
  <2>19. QED
    BY <1>5, <2>10, <2>12, <2>16, <2>17, <2>18 DEF IInv, Walking, Handling
<1>13. QED
  BY <1>11, <1>12

LEMMA HandledStep == ASSUME IInv, Handled PROVE IInv'
<1>1. /\ pc = "attached" /\ pc' = "drain"
      /\ stack' = stack \o next \o below
      /\ visited' = visited \cup ToSet(next) \cup ToSet(below)
      /\ UNCHANGED <<process, outgoing, grid, rescued>>
      /\ UNCHANGED <<current, index, previous, next, attached, below>>
  BY DEF Handled, handling
<1>2. TypeOK /\ grid \in Seq(Seq(visited \cup {None})) /\ visited \subseteq FlowNodes
  BY DEF IInv, TypeOK
<1>3. /\ Listed(stack, visited) /\ Listed(next, visited) /\ Listed(below, visited)
      /\ ToSet(stack) \cap ToSet(next) = {} /\ ToSet(stack) \cap ToSet(below) = {}
      /\ ToSet(next) \cap ToSet(below) = {}
  BY <1>1 DEF IInv, Waiting
<1>4. visited' = visited
  BY <1>1, <1>3, ToSetIs DEF Listed
<1>5. Listed(stack \o next, visited) /\ ToSet(stack \o next) = ToSet(stack) \cup ToSet(next)
  BY <1>3, ListedConcat
<1>6. ToSet(stack \o next) \cap ToSet(below) = {}
  BY <1>3, <1>5
<1>7. Listed(stack', visited')
  BY <1>1, <1>3, <1>4, <1>5, <1>6, ListedConcat
<1>8. grid' # <<>>
  BY <1>1, Current DEF Handling
<1>9. grid' \in Seq(Seq(visited' \cup {None}))
  BY <1>1, <1>2, <1>4
<1>10. TypeOK'
  <2>1. /\ outgoing' \in [Node -> Targets] /\ current' \in FlowNodes \cup {None}
        /\ previous' \in FlowNodes \cup {None} /\ rescued' \in BOOLEAN
        /\ index' \in Nat \ {0} /\ next' \in Targets /\ attached' \in Targets /\ below' \in Targets
    BY <1>1, <1>2 DEF TypeOK
  <2>2. pc' \in Phases /\ visited' \subseteq FlowNodes
    BY <1>1, <1>2, <1>4 DEF Phases
  <2>3. QED
    BY <1>1, <1>2, <1>7, <1>9, <2>1, <2>2, Typing
<1>11. QED
  BY <1>1, <1>7, <1>8, <1>9, <1>10 DEF IInv, Waiting, Walking, Handling

LEMMA FinishStep == ASSUME IInv, Finish PROVE IInv'
<1>1. /\ pc = "start" /\ pc' = "done"
      /\ UNCHANGED <<process, outgoing, grid, visited, stack, rescued>>
      /\ UNCHANGED <<current, index, previous, next, attached, below>>
  BY DEF Finish, handling
<1>2. TypeOK'
  BY <1>1, NodesKept DEF IInv, TypeOK, Phases
<1>3. QED
  BY <1>1, <1>2 DEF IInv, Waiting, Walking, Handling

-----------------------------------------------------------------------------
(* Who is where.  An element that is in one cell of a grid is Above another *)
(* when its row is the same or a smaller one.                              *)
Single(s, x) == \E i \in DOMAIN s : \A j \in DOMAIN s : s[j] = x <=> j = i
Absent(s, x) == \A j \in DOMAIN s : s[j] # x
In(g, x, r) == r \in DOMAIN g /\ Single(g[r], x) /\ \A q \in DOMAIN g : q # r => Absent(g[q], x)
Above(g, x, y) == \E r, q \in DOMAIN g : In(g, x, r) /\ In(g, y, q) /\ r <= q

(* A row, or a grid, may become another as far as the elements of U go.    *)
RowStep(U, s, t) ==
    \A x \in U \ {None} : (Single(s, x) => Single(t, x)) /\ (Absent(s, x) => Absent(t, x))
SameRows(U, g, h) == \A x \in U \ {None} : \A r : In(g, x, r) => In(h, x, r)
Keeps(U, g, h) == \A x, y \in U \ {None} : Above(g, x, y) => Above(h, x, y)

LEMMA SameKeeps == ASSUME NEW U, NEW g, NEW h, SameRows(U, g, h) PROVE Keeps(U, g, h)
BY DEF SameRows, Keeps, Above, In

LEMMA KeepsAll ==
    ASSUME NEW U, NEW g, NEW h, NEW k, Keeps(U, g, h), Keeps(U, h, k)
    PROVE  Keeps(U, g, k)
BY DEF Keeps

LEMMA InAbove ==
    ASSUME NEW g, NEW x, NEW y, NEW r \in Nat, NEW q \in Nat, In(g, x, r), In(g, y, q), r <= q
    PROVE  Above(g, x, y)
BY DEF Above, In

LEMMA AboveSelf ==
    ASSUME NEW g, DOMAIN g \subseteq Nat, NEW x, NEW y, Above(g, x, y)
    PROVE  Above(g, x, x) /\ Above(g, y, y)
<1>1. PICK r \in DOMAIN g, q \in DOMAIN g : In(g, x, r) /\ In(g, y, q) /\ r <= q
  BY DEF Above
<1>2. r <= r /\ q <= q
  OBVIOUS
<1>3. Above(g, x, x)
  BY <1>1, <1>2 DEF Above
<1>4. Above(g, y, y)
  BY <1>1, <1>2 DEF Above
<1>5. QED
  BY <1>3, <1>4

LEMMA InOnce ==
    ASSUME NEW g, NEW x, NEW r, NEW q, In(g, x, r), In(g, x, q)
    PROVE  r = q
BY DEF In, Single, Absent

(* What is in one row once is found there.                                 *)
LEMMA MinOne == ASSUME NEW n \in Nat PROVE Min({n}) = n
<1>1. Min({n}) \in {n}
  BY MinIs
<1>2. QED
  BY <1>1

LEMMA FindIn ==
    ASSUME NEW U, NEW g \in Grids(U), NEW x, NEW r, In(g, x, r)
    PROVE  \E i \in 1..Len(g[r]) : /\ Find(g, x) = <<r, i>> /\ r \in 1..Len(g)
                                   /\ \A j \in DOMAIN g[r] : g[r][j] = x <=> j = i
<1>1. r \in 1..Len(g) /\ r \in Nat /\ g[r] \in Seq(U) /\ DOMAIN g = 1..Len(g)
  BY GridIs DEF In
<1>2. PICK i \in DOMAIN g[r] : \A j \in DOMAIN g[r] : g[r][j] = x <=> j = i
  BY DEF In, Single
<1>3. i \in 1..Len(g[r]) /\ i \in Nat /\ DOMAIN g[r] = 1..Len(g[r])
  BY <1>1
<1> DEFINE I1 == {k \in 1..Len(g) : x \in ToSet(g[k])}
           I2 == {k \in 1..Len(g[r]) : g[r][k] = x}
<1>4. I1 = {r}
  <2>1. x \in ToSet(g[r])
    BY <1>2 DEF ToSet
  <2>2. \A k \in 1..Len(g) : k # r => x \notin ToSet(g[k])
    BY <1>1 DEF In, Absent, ToSet
  <2>3. QED
    BY <1>1, <2>1, <2>2
<1>5. I2 = {i}
  BY <1>2, <1>3
<1>6. Min(I1) = r /\ Min(I2) = i
  <2> HIDE DEF I1, I2
  <2>1. QED
    BY <1>1, <1>3, <1>4, <1>5, MinOne
<1>7. r # 0 /\ I1 # {} /\ I2 # {}
  BY <1>1, <1>4, <1>5
<1>8. Find(g, x) = <<r, i>>
  <2>1. Find(g, x) = LET row == IF I1 # {} THEN Min(I1) ELSE 0 IN
                     IF row = 0 THEN Nowhere
                     ELSE <<row, LET I3 == {k \in 1..Len(g[row]) : g[row][k] = x} IN
                                 IF I3 # {} THEN Min(I3) ELSE 0>>
    BY DEF Find, SelectInSeq
  <2>2. QED
    BY <1>6, <1>7, <2>1
<1>9. QED
  BY <1>1, <1>2, <1>3, <1>8

LEMMA FoundIn ==
    ASSUME NEW U, NEW g \in Grids(U), NEW x, Find(g, x)[1] # 0
    PROVE  \E r \in 1..Len(g) : \E c \in 1..Len(g[r]) : g[r][c] = x
<1> DEFINE I1 == {i \in 1..Len(g) : x \in ToSet(g[i])}
           row == IF I1 # {} THEN Min(I1) ELSE 0
<1>1. Find(g, x) = IF row = 0 THEN <<0, 0>>
                   ELSE <<row, LET I2 == {i \in 1..Len(g[row]) : g[row][i] = x} IN
                               IF I2 # {} THEN Min(I2) ELSE 0>>
  BY DEF Find, SelectInSeq, Nowhere
<1>2. I1 # {}
  BY <1>1
<1>3. PICK r \in 1..Len(g) : x \in ToSet(g[r])
  BY <1>2
<1>4. g[r] \in Seq(U)
  BY <1>3, GridIs
<1>5. DOMAIN g[r] = 1..Len(g[r])
  BY <1>4
<1>6. QED
  BY <1>3, <1>5 DEF ToSet

-----------------------------------------------------------------------------
(* Rows.  A cell of s that holds x corresponds to one of t.                *)
LEMMA RowMapped ==
    ASSUME NEW s, NEW t, NEW x, NEW m,
           \A j \in DOMAIN s : s[j] = x => m[j] \in DOMAIN t /\ t[m[j]] = x,
           \A i \in DOMAIN t : t[i] = x => \E j \in DOMAIN s : s[j] = x /\ i = m[j]
    PROVE  (Single(s, x) => Single(t, x)) /\ (Absent(s, x) => Absent(t, x))
<1>1. ASSUME Single(s, x) PROVE Single(t, x)
  <2>1. PICK i \in DOMAIN s : \A j \in DOMAIN s : s[j] = x <=> j = i
    BY <1>1 DEF Single
  <2>2. m[i] \in DOMAIN t /\ t[m[i]] = x
    BY <2>1
  <2>3. \A j \in DOMAIN t : t[j] = x => j = m[i]
    BY <2>1
  <2>4. QED
    BY <2>2, <2>3 DEF Single
<1>2. ASSUME Absent(s, x) PROVE Absent(t, x)
  BY <1>2 DEF Absent
<1>3. QED
  BY <1>1, <1>2

LEMMA InsertedCells ==
    ASSUME NEW S, NEW s \in Seq(S), NEW i \in 1..Len(s)+1, NEW e
    PROVE  LET t == InsertAt(s, i, e) IN
           /\ DOMAIN t = 1..Len(s)+1
           /\ \A j \in 1..Len(s)+1 : t[j] = IF j < i THEN s[j] ELSE IF j = i THEN e ELSE s[j - 1]
<1> DEFINE D1 == S \cup {e}
<1>1. s \in Seq(D1) /\ e \in D1 /\ Len(s) \in Nat /\ i \in Nat /\ 1 <= i /\ i <= Len(s) + 1
  BY SeqGrows
<1>2. PICK a \in Seq(D1) : a = SubSeq(s, 1, i - 1) /\ Len(a) = i - 1 /\ \A j \in 1..i-1 : a[j] = s[j]
  <2>1. i - 1 \in Int /\ \A j \in 1..(i - 1) : s[j] \in D1
    BY <1>1
  <2> HIDE DEF D1
  <2>2. /\ SubSeq(s, 1, i - 1) \in Seq(D1)
        /\ Len(SubSeq(s, 1, i - 1)) = IF 1 <= i - 1 THEN i - 1 - 1 + 1 ELSE 0
        /\ \A j \in 1..(i - 1) - 1 + 1 : SubSeq(s, 1, i - 1)[j] = s[1 + j - 1]
    BY <2>1, <1>1, SubSeqProperties
  <2>3. Len(SubSeq(s, 1, i - 1)) = i - 1
    BY <1>1, <2>2
  <2>4. \A j \in 1..i-1 : SubSeq(s, 1, i - 1)[j] = s[j]
    BY <1>1, <2>2
  <2>5. QED
    BY <2>2, <2>3, <2>4
<1>3. PICK b \in Seq(D1) : /\ b = SubSeq(s, i, Len(s)) /\ Len(b) = Len(s) - i + 1
                           /\ \A j \in 1..Len(s)-i+1 : b[j] = s[i + j - 1]
  <2>1. \A j \in i..Len(s) : s[j] \in D1
    BY <1>1
  <2> HIDE DEF D1
  <2>2. /\ SubSeq(s, i, Len(s)) \in Seq(D1)
        /\ Len(SubSeq(s, i, Len(s))) = IF i <= Len(s) THEN Len(s) - i + 1 ELSE 0
        /\ \A j \in 1..Len(s)-i+1 : SubSeq(s, i, Len(s))[j] = s[i + j - 1]
    BY <2>1, <1>1, SubSeqProperties
  <2>3. Len(SubSeq(s, i, Len(s))) = Len(s) - i + 1
    BY <1>1, <2>2
  <2>4. QED
    BY <2>2, <2>3
<1>4. PICK u \in Seq(D1) : u = <<e>> /\ Len(u) = 1 /\ u[1] = e
  <2>1. <<e>> \in Seq(D1) /\ Len(<<e>>) = 1 /\ <<e>>[1] = e
    OBVIOUS
  <2> HIDE DEF D1
  <2>2. QED
    BY <2>1
<1> HIDE DEF D1
<1>5. PICK v \in Seq(D1) : v = a \o u /\ Len(v) = i
                           /\ \A j \in 1..i : v[j] = IF j < i THEN s[j] ELSE e
  <2>1. a \o u \in Seq(D1) /\ Len(a \o u) = Len(a) + Len(u)
    OBVIOUS
  <2>2. \A j \in 1..Len(a)+Len(u) : (a \o u)[j] = IF j <= Len(a) THEN a[j] ELSE u[j - Len(a)]
    OBVIOUS
  <2>3. \A j \in 1..i : (a \o u)[j] = IF j < i THEN s[j] ELSE e
    <3>1. SUFFICES ASSUME NEW j \in 1..i PROVE (a \o u)[j] = IF j < i THEN s[j] ELSE e
      OBVIOUS
    <3>2. CASE j < i
      <4>1. j \in 1..i-1 /\ j <= Len(a) /\ j \in 1..Len(a)+Len(u)
        BY <1>1, <1>2, <1>4, <3>2
      <4>2. QED
        BY <1>2, <2>2, <3>2, <4>1
    <3>3. CASE ~(j < i)
      <4>1. ~(j <= Len(a)) /\ j - Len(a) = 1 /\ j \in 1..Len(a)+Len(u)
        BY <1>1, <1>2, <1>4, <3>3
      <4>2. QED
        BY <1>4, <2>2, <3>3, <4>1
    <3>4. QED
      BY <3>2, <3>3
  <2>4. Len(a \o u) = i
    BY <1>1, <1>2, <1>4, <2>1
  <2>5. QED
    BY <2>1, <2>3, <2>4
<1>6. v \o b \in Seq(D1) /\ Len(v \o b) = Len(s) + 1
  <2>1. v \o b \in Seq(D1) /\ Len(v \o b) = Len(v) + Len(b)
    OBVIOUS
  <2>2. Len(v) + Len(b) = Len(s) + 1
    BY <1>1, <1>3, <1>5
  <2>3. QED
    BY <2>1, <2>2
<1>7. \A j \in 1..Len(s)+1 : (v \o b)[j] = IF j < i THEN s[j] ELSE IF j = i THEN e ELSE s[j - 1]
  <2>1. \A j \in 1..Len(v)+Len(b) : (v \o b)[j] = IF j <= Len(v) THEN v[j] ELSE b[j - Len(v)]
    OBVIOUS
  <2>2. SUFFICES ASSUME NEW j \in 1..Len(s)+1
                 PROVE  (v \o b)[j] = IF j < i THEN s[j] ELSE IF j = i THEN e ELSE s[j - 1]
    OBVIOUS
  <2>3. j \in 1..Len(v)+Len(b)
    BY <1>1, <1>3, <1>5
  <2>4. CASE j <= i
    <3>1. j \in 1..i /\ j <= Len(v)
      BY <1>1, <1>5, <2>4
    <3>2. (v \o b)[j] = IF j < i THEN s[j] ELSE e
      BY <1>5, <2>1, <2>3, <3>1
    <3>3. QED
      BY <1>1, <2>4, <3>2
  <2>5. CASE ~(j <= i)
    <3>1. ~(j <= Len(v)) /\ j - Len(v) \in 1..Len(s)-i+1 /\ i + (j - Len(v)) - 1 = j - 1
      BY <1>1, <1>5, <2>5
    <3>2. (v \o b)[j] = b[j - Len(v)] /\ b[j - Len(v)] = s[j - 1]
      BY <1>3, <2>1, <2>3, <3>1
    <3>3. QED
      BY <1>1, <2>5, <3>2
  <2>6. QED
    BY <2>4, <2>5
<1>8. InsertAt(s, i, e) = v \o b
  BY <1>2, <1>3, <1>4, <1>5 DEF InsertAt
<1>9. DOMAIN (v \o b) = 1..Len(s)+1
  BY <1>6
<1>10. QED
  BY <1>7, <1>8, <1>9

LEMMA InsertStep ==
    ASSUME NEW U, NEW s \in Seq(U), NEW i \in 1..Len(s)+1, NEW e, e \notin U
    PROVE  RowStep(U, s, InsertAt(s, i, e)) /\ Single(InsertAt(s, i, e), e)
<1>1. PICK t : t = InsertAt(s, i, e)
  OBVIOUS
<1>2. PICK n \in Nat : n = Len(s)
  OBVIOUS
<1>3. /\ DOMAIN t = 1..n+1 /\ DOMAIN s = 1..n /\ i \in 1..n+1
      /\ \A j \in 1..n+1 : t[j] = IF j < i THEN s[j] ELSE IF j = i THEN e ELSE s[j - 1]
      /\ \A j \in 1..n : s[j] \in U
  BY <1>1, <1>2, InsertedCells
<1>4. Single(t, e)
  <2>1. \A j \in 1..n+1 : j # i => t[j] # e
    <3>1. \A j \in 1..n+1 : j # i => (j < i /\ j \in 1..n) \/ (~(j < i) /\ j - 1 \in 1..n)
      BY <1>3
    <3>2. QED
      BY <1>3, <3>1
  <2>2. t[i] = e
    BY <1>3
  <2>3. QED
    BY <1>3, <2>1, <2>2 DEF Single
<1>5. ASSUME NEW x \in U \ {None}
      PROVE  (Single(s, x) => Single(t, x)) /\ (Absent(s, x) => Absent(t, x))
  <2>1. PICK m : m = [j \in 1..n |-> IF j < i THEN j ELSE j + 1]
    OBVIOUS
  <2>2. \A j \in 1..n : m[j] \in 1..n+1 /\ t[m[j]] = s[j]
    <3>1. SUFFICES ASSUME NEW j \in 1..n PROVE m[j] \in 1..n+1 /\ t[m[j]] = s[j]
      OBVIOUS
    <3>2. CASE j < i
      BY <1>3, <2>1, <3>2
    <3>3. CASE ~(j < i)
      <4>1. m[j] = j + 1 /\ j + 1 \in 1..n+1 /\ ~(j + 1 < i) /\ j + 1 # i /\ (j + 1) - 1 = j
        BY <1>3, <2>1, <3>3
      <4>2. QED
        BY <1>3, <4>1
    <3>4. QED
      BY <3>2, <3>3
  <2>3. \A k \in 1..n+1 : t[k] = x => \E j \in 1..n : s[j] = x /\ k = m[j]
    <3>1. SUFFICES ASSUME NEW k \in 1..n+1, t[k] = x PROVE \E j \in 1..n : s[j] = x /\ k = m[j]
      OBVIOUS
    <3>2. k # i
      BY <1>3, <3>1
    <3>3. CASE k < i
      <4>1. k \in 1..n /\ m[k] = k /\ s[k] = x
        BY <1>3, <2>1, <3>1, <3>3
      <4>2. QED
        BY <4>1
    <3>4. CASE ~(k < i)
      <4>1. k - 1 \in 1..n /\ ~(k - 1 < i) /\ (k - 1) + 1 = k
        BY <1>3, <3>2, <3>4
      <4>2. m[k - 1] = k /\ s[k - 1] = x
        BY <1>3, <2>1, <3>1, <3>2, <3>4, <4>1
      <4>3. QED
        BY <4>1, <4>2
    <3>5. QED
      BY <3>3, <3>4
  <2>4. \A j \in DOMAIN s : s[j] = x => m[j] \in DOMAIN t /\ t[m[j]] = x
    BY <1>3, <2>2
  <2>5. \A k \in DOMAIN t : t[k] = x => \E j \in DOMAIN s : s[j] = x /\ k = m[j]
    BY <1>3, <2>3
  <2>6. QED
    BY <2>4, <2>5, RowMapped
<1>6. RowStep(U, s, t)
  BY <1>5 DEF RowStep
<1>7. QED
  BY <1>1, <1>4, <1>6

LEMMA PadCells ==
    ASSUME NEW U, NEW s \in Seq(U), NEW c \in Nat
    PROVE  \E n \in Nat : /\ n >= c /\ n >= Len(s) /\ (n = Len(s) \/ n = c) /\ DOMAIN Pad(s, c) = 1..n
                          /\ \A j \in 1..n : Pad(s, c)[j] = IF j <= Len(s) THEN s[j] ELSE None
<1> DEFINE k == IF c > Len(s) THEN c - Len(s) ELSE 0
           empty == [i \in 1..k |-> None]
           D1 == U \cup {None}
<1>1. k \in Nat /\ Len(s) \in Nat
  OBVIOUS
<1>2. empty \in Seq(D1) /\ Len(empty) = k /\ s \in Seq(D1)
  <2>1. s \in Seq(D1)
    BY SeqGrows
  <2>2. QED
    BY <1>1, <2>1
<1>3. \A j \in 1..k : empty[j] = None
  OBVIOUS
<1>4. Pad(s, c) = s \o empty
  BY DEF Pad
<1>5. PICK n \in Nat : n = Len(s) + k
  BY <1>1
<1>6. n >= c /\ n >= Len(s) /\ (n = Len(s) \/ n = c)
  BY <1>1, <1>5
<1> HIDE DEF empty, k, D1
<1>7. DOMAIN (s \o empty) = 1..n
  BY <1>2, <1>5
<1>8. \A j \in 1..n : (s \o empty)[j] = IF j <= Len(s) THEN s[j] ELSE None
  <2>1. \A j \in 1..Len(s)+Len(empty) : (s \o empty)[j] = IF j <= Len(s) THEN s[j] ELSE empty[j - Len(s)]
    BY <1>2
  <2>2. \A j \in 1..n : ~(j <= Len(s)) => j - Len(s) \in 1..k
    BY <1>1, <1>5
  <2>3. QED
    BY <1>2, <1>3, <1>5, <2>1, <2>2
<1>9. QED
  BY <1>4, <1>6, <1>7, <1>8

(* Something new is written where there is nothing.                        *)
LEMMA WriteStep ==
    ASSUME NEW U, NEW s \in Seq(U), NEW c \in Nat \ {0}, c <= Len(s) => s[c] = None, NEW e, e \notin U,
           None \in U
    PROVE  LET t == [Pad(s, c) EXCEPT ![c] = e] IN RowStep(U, s, t) /\ Single(t, e)
<1>1. PICK t : t = [Pad(s, c) EXCEPT ![c] = e]
  OBVIOUS
<1>2. PICK n \in Nat : /\ n >= c /\ n >= Len(s) /\ DOMAIN Pad(s, c) = 1..n
                       /\ \A j \in 1..n : Pad(s, c)[j] = IF j <= Len(s) THEN s[j] ELSE None
  BY PadCells
<1>3. DOMAIN t = 1..n /\ c \in 1..n
      /\ \A j \in 1..n : t[j] = IF j = c THEN e ELSE IF j <= Len(s) THEN s[j] ELSE None
  BY <1>1, <1>2
<1>4. DOMAIN s = 1..Len(s) /\ Len(s) \in Nat /\ \A j \in 1..Len(s) : s[j] \in U /\ j \in 1..n
  BY <1>2
<1>5. Single(t, e)
  <2>1. \A j \in DOMAIN t : t[j] = e <=> j = c
    <3>1. SUFFICES ASSUME NEW j \in 1..n, j # c PROVE t[j] # e
      BY <1>3
    <3>2. t[j] = IF j <= Len(s) THEN s[j] ELSE None
      BY <1>3, <3>1
    <3>3. j <= Len(s) => s[j] \in U
      BY <1>4
    <3>4. QED
      BY <3>2, <3>3
  <2>2. c \in DOMAIN t
    BY <1>3
  <2>3. QED
    BY <2>1, <2>2 DEF Single
<1>6. ASSUME NEW x \in U \ {None}
      PROVE  (Single(s, x) => Single(t, x)) /\ (Absent(s, x) => Absent(t, x))
  <2>1. PICK m : m = [j \in 1..n |-> j]
    OBVIOUS
  <2>2. \A j \in 1..Len(s) : s[j] = x => m[j] \in 1..n /\ t[m[j]] = x
    BY <1>2, <1>3, <1>4, <2>1
  <2>3. \A k \in 1..n : t[k] = x => \E j \in 1..Len(s) : s[j] = x /\ k = m[j]
    BY <1>3, <1>4, <2>1
  <2>4. \A j \in DOMAIN s : s[j] = x => m[j] \in DOMAIN t /\ t[m[j]] = x
    BY <1>3, <1>4, <2>2
  <2>5. \A k \in DOMAIN t : t[k] = x => \E j \in DOMAIN s : s[j] = x /\ k = m[j]
    BY <1>3, <1>4, <2>3
  <2>6. QED
    BY <2>4, <2>5, RowMapped
<1>7. RowStep(U, s, t)
  BY <1>6 DEF RowStep
<1>8. QED
  BY <1>1, <1>5, <1>7

-----------------------------------------------------------------------------
(* Grids.                                                                  *)
LEMMA OutsideAbsent ==
    ASSUME NEW U, NEW g \in Seq(Seq(U)), NEW e, e \notin U
    PROVE  \A q \in DOMAIN g : Absent(g[q], e)
<1>1. SUFFICES ASSUME NEW q \in DOMAIN g PROVE Absent(g[q], e)
  OBVIOUS
<1>2. g[q] \in Seq(U)
  OBVIOUS
<1>3. PICK s \in Seq(U) : s = g[q]
  BY <1>2
<1>4. \A j \in DOMAIN s : s[j] # e
  OBVIOUS
<1>5. QED
  BY <1>3, <1>4 DEF Absent

(* A row is replaced.                                                      *)
LEMMA RowReplaced ==
    ASSUME NEW U, NEW g, NEW i \in DOMAIN g, NEW t, RowStep(U, g[i], t)
    PROVE  SameRows(U, g, [g EXCEPT ![i] = t])
<1>1. PICK h : h = [g EXCEPT ![i] = t]
  OBVIOUS
<1>2. DOMAIN h = DOMAIN g /\ h[i] = t /\ \A q \in DOMAIN g : q # i => h[q] = g[q]
  BY <1>1
<1>3. ASSUME NEW x \in U \ {None}, NEW r, In(g, x, r) PROVE In(h, x, r)
  <2>1. r \in DOMAIN g /\ Single(g[r], x) /\ \A q \in DOMAIN g : q # r => Absent(g[q], x)
    BY <1>3 DEF In
  <2>2. Single(h[r], x)
    BY <1>2, <2>1 DEF RowStep
  <2>3. \A q \in DOMAIN h : q # r => Absent(h[q], x)
    BY <1>2, <2>1 DEF RowStep
  <2>4. QED
    BY <1>2, <2>1, <2>2, <2>3 DEF In
<1>4. QED
  BY <1>1, <1>3 DEF SameRows

(* Something new comes into a row.                                         *)
LEMMA RowGains ==
    ASSUME NEW U, NEW g \in Seq(Seq(U)), NEW i \in DOMAIN g, NEW t, NEW e, e \notin U,
           RowStep(U, g[i], t), Single(t, e)
    PROVE  SameRows(U, g, [g EXCEPT ![i] = t]) /\ In([g EXCEPT ![i] = t], e, i)
<1>1. PICK h : h = [g EXCEPT ![i] = t]
  OBVIOUS
<1>2. DOMAIN h = DOMAIN g /\ h[i] = t /\ \A q \in DOMAIN g : q # i => h[q] = g[q]
  BY <1>1
<1>3. \A q \in DOMAIN g : Absent(g[q], e)
  BY OutsideAbsent
<1>4. In(h, e, i)
  BY <1>2, <1>3 DEF In
<1>5. SameRows(U, g, h)
  BY <1>1, RowReplaced
<1>6. QED
  BY <1>1, <1>4, <1>5

(* An empty row comes between two others.                                  *)
LEMMA EmptyRow ==
    ASSUME NEW x
    PROVE  Absent(<<>>, x) /\ ~Single(<<>>, x)
<1>1. DOMAIN <<>> = {}
  OBVIOUS
<1>2. QED
  BY <1>1 DEF Absent, Single

Shifted(i, r) == IF r < i THEN r ELSE r + 1

LEMMA RowCreated ==
    ASSUME NEW U, NEW g \in Grids(U), NEW k \in 0..Len(g)
    PROVE  \A x, r : In(g, x, r) => In(CreateRow(g, k), x, Shifted(k + 1, r))
<1>1. /\ g \in Seq(Seq(U)) /\ <<>> \in Seq(U) /\ DOMAIN g = 1..Len(g) /\ Len(g) \in Nat /\ k \in Nat
      /\ k + 1 \in 1..Len(g)+1
  BY GridIs
<1>2. PICK n, i : n = Len(g) /\ i = k + 1 /\ n \in Nat /\ i \in 1..n+1
  BY <1>1
<1>3. PICK h : h = CreateRow(g, k)
  OBVIOUS
<1>4. /\ DOMAIN h = 1..n+1
      /\ \A j \in 1..n+1 : h[j] = IF j < i THEN g[j] ELSE IF j = i THEN <<>> ELSE g[j - 1]
  <2>1. PICK C : C = Seq(U)
    OBVIOUS
  <2>2. g \in Seq(C)
    BY <1>1, <2>1
  <2>3. h = InsertAt(g, i, <<>>)
    BY <1>2, <1>3 DEF CreateRow
  <2>4. i \in 1..Len(g)+1
    BY <1>2
  <2>5. LET t == InsertAt(g, i, <<>>) IN
        /\ DOMAIN t = 1..Len(g)+1
        /\ \A j \in 1..Len(g)+1 : t[j] = IF j < i THEN g[j] ELSE IF j = i THEN <<>> ELSE g[j - 1]
    BY <2>2, <2>4, InsertedCells
  <2>6. QED
    BY <1>2, <2>3, <2>5
<1>5. ASSUME NEW x, NEW r, In(g, x, r) PROVE In(h, x, Shifted(i, r))
  <2>1. r \in 1..n /\ Single(g[r], x) /\ \A q \in 1..n : q # r => Absent(g[q], x)
    BY <1>1, <1>2, <1>5 DEF In
  <2>2. PICK p \in 1..n+1 : p = Shifted(i, r)
    BY <1>2, <2>1 DEF Shifted
  <2>3. h[p] = g[r]
    <3>1. CASE r < i
      BY <1>4, <2>2, <3>1 DEF Shifted
    <3>2. CASE ~(r < i)
      <4>1. p = r + 1 /\ ~(p < i) /\ p # i /\ p - 1 = r
        BY <1>2, <2>1, <2>2, <3>2 DEF Shifted
      <4>2. QED
        BY <1>4, <4>1
    <3>3. QED
      BY <3>1, <3>2
  <2>4. ASSUME NEW q \in 1..n+1, q # p PROVE Absent(h[q], x)
    <3>1. CASE q < i
      <4>1. q \in 1..n /\ q # r
        BY <1>2, <2>1, <2>2, <2>4, <3>1 DEF Shifted
      <4>2. QED
        BY <1>4, <2>1, <3>1, <4>1
    <3>2. CASE q = i
      <4>1. h[q] = <<>>
        BY <1>4, <3>2
      <4>2. QED
        BY <4>1, EmptyRow
    <3>3. CASE ~(q < i) /\ q # i
      <4>1. q - 1 \in 1..n /\ q - 1 # r
        BY <1>2, <2>1, <2>2, <2>4, <3>3 DEF Shifted
      <4>2. h[q] = g[q - 1]
        BY <1>4, <3>3
      <4>3. QED
        BY <2>1, <4>1, <4>2
    <3>4. QED
      BY <3>1, <3>2, <3>3
  <2>5. Single(h[p], x)
    BY <2>1, <2>3
  <2>6. QED
    BY <1>4, <2>2, <2>4, <2>5 DEF In
<1>6. QED
  BY <1>2, <1>3, <1>5

(* Rows come after the last.                                               *)
LEMMA RowsFollow ==
    ASSUME NEW C, NEW g \in Seq(C), NEW t \in Seq(C), NEW x
    PROVE  /\ \A r : In(g, x, r) /\ (\A q \in DOMAIN t : Absent(t[q], x)) => In(g \o t, x, r)
           /\ \A r : In(t, x, r) /\ (\A q \in DOMAIN g : Absent(g[q], x)) => In(g \o t, x, Len(g) + r)
<1>1. PICK m \in Nat, n \in Nat : m = Len(g) /\ n = Len(t)
  OBVIOUS
<1>2. PICK h : h = g \o t
  OBVIOUS
<1>3. /\ DOMAIN g = 1..m /\ DOMAIN t = 1..n /\ DOMAIN h = 1..m+n
      /\ \A j \in 1..m+n : h[j] = IF j <= m THEN g[j] ELSE t[j - m]
  BY <1>1, <1>2
<1>4. \A j \in 1..m+n : (j \in 1..m /\ h[j] = g[j]) \/ (~(j <= m) /\ j - m \in 1..n /\ h[j] = t[j - m])
  BY <1>3
<1>5. ASSUME NEW r, In(g, x, r), \A q \in DOMAIN t : Absent(t[q], x) PROVE In(h, x, r)
  <2>1. r \in 1..m /\ r \in 1..m+n /\ h[r] = g[r]
    BY <1>3, <1>5 DEF In
  <2>2. \A q \in 1..m+n : q # r => Absent(h[q], x)
    BY <1>3, <1>4, <1>5 DEF In
  <2>3. QED
    BY <1>3, <1>5, <2>1, <2>2 DEF In
<1>6. ASSUME NEW r, In(t, x, r), \A q \in DOMAIN g : Absent(g[q], x) PROVE In(h, x, m + r)
  <2>1. r \in 1..n /\ m + r \in 1..m+n /\ ~(m + r <= m) /\ (m + r) - m = r
    BY <1>3, <1>6 DEF In
  <2>2. h[m + r] = t[r]
    BY <1>3, <2>1
  <2>3. \A q \in 1..m+n : q # m + r => Absent(h[q], x)
    <3>1. SUFFICES ASSUME NEW q \in 1..m+n, q # m + r PROVE Absent(h[q], x)
      OBVIOUS
    <3>2. CASE q \in 1..m /\ h[q] = g[q]
      BY <1>3, <1>6, <3>2
    <3>3. CASE ~(q <= m) /\ q - m \in 1..n /\ h[q] = t[q - m]
      <4>1. q - m # r
        BY <2>1, <3>1
      <4>2. QED
        BY <1>3, <1>6, <3>3, <4>1 DEF In
    <3>4. QED
      BY <1>4, <3>2, <3>3
  <2>4. QED
    BY <1>3, <1>6, <2>1, <2>2, <2>3 DEF In
<1>7. QED
  BY <1>1, <1>2, <1>5, <1>6

(* The operations.  After the element, or below it, comes what was added.  *)
LEMMA CellWritten ==
    ASSUME NEW U, None \in U, NEW g \in Grids(U), NEW i \in 1..Len(g), NEW c \in Nat \ {0},
           c <= Len(g[i]) => g[i][c] = None, NEW e, e \notin U
    PROVE  SameRows(U, g, Write(g, i, c, e)) /\ In(Write(g, i, c, e), e, i)
<1>1. g \in Seq(Seq(U)) /\ g[i] \in Seq(U) /\ i \in DOMAIN g /\ At(Len(g), i) = i
  BY GridIs DEF At
<1>2. PICK s \in Seq(U) : s = g[i]
  BY <1>1
<1>3. PICK n \in Nat : n >= c /\ DOMAIN Pad(s, c) = 1..n
  BY PadCells
<1>4. At(Len(Pad(s, c)), c) = c
  BY DEF At
<1>5. PICK t : t = [Pad(s, c) EXCEPT ![c] = e]
  OBVIOUS
<1>6. RowStep(U, s, t) /\ Single(t, e)
  BY <1>2, <1>5, WriteStep
<1>7. Write(g, i, c, e) = [g EXCEPT ![i] = t]
  BY <1>1, <1>2, <1>4, <1>5 DEF Write
<1>8. SameRows(U, g, [g EXCEPT ![i] = t]) /\ In([g EXCEPT ![i] = t], e, i)
  BY <1>1, <1>2, <1>6, RowGains
<1>9. QED
  BY <1>7, <1>8

LEMMA SameAdds ==
    ASSUME NEW U, NEW g, NEW h, DOMAIN g \subseteq Nat, NEW x \in U \ {None}, NEW r, NEW e, NEW q \in Nat,
           In(g, x, r), SameRows(U, g, h), In(h, e, q), r <= q
    PROVE  Keeps(U, g, h) /\ Above(h, x, e)
<1>1. In(h, x, r) /\ r \in Nat
  BY DEF SameRows, In
<1>2. Above(h, x, e)
  BY <1>1, InAbove
<1>3. QED
  BY <1>2, SameKeeps

LEMMA AddAfterStep ==
    ASSUME NEW U, NEW g \in Grids(U), NEW x \in U \ {None}, NEW r, In(g, x, r), NEW e, e \notin U
    PROVE  Keeps(U, g, AddAfter(g, x, e)) /\ Above(AddAfter(g, x, e), x, e)
<1>1. PICK c \in 1..Len(g[r]) : Find(g, x) = <<r, c>> /\ r \in 1..Len(g)
  BY FindIn
<1>2. g \in Seq(Seq(U)) /\ g[r] \in Seq(U) /\ r \in DOMAIN g /\ DOMAIN g \subseteq Nat /\ At(Len(g), r) = r
  BY <1>1, GridIs DEF At
<1>3. PICK s \in Seq(U) : s = g[r]
  BY <1>2
<1>4. PICK i \in 1..Len(s)+1 : i = c + 1
  BY <1>1, <1>3
<1>5. PICK t : t = InsertAt(s, i, e)
  OBVIOUS
<1>6. RowStep(U, s, t) /\ Single(t, e)
  BY <1>5, InsertStep
<1>7. AddAfter(g, x, e) = [g EXCEPT ![r] = t]
  BY <1>1, <1>2, <1>3, <1>4, <1>5 DEF AddAfter
<1>8. SameRows(U, g, [g EXCEPT ![r] = t]) /\ In([g EXCEPT ![r] = t], e, r)
  BY <1>2, <1>3, <1>6, RowGains
<1>9. r \in Nat /\ r <= r
  BY <1>1
<1>10. QED
  BY <1>2, <1>7, <1>8, <1>9, SameAdds

LEMMA CreateRowKeeps ==
    ASSUME NEW U, NEW g \in Grids(U), NEW k \in 0..Len(g)
    PROVE  /\ Keeps(U, g, CreateRow(g, k))
           /\ \A x : In(g, x, k) => In(CreateRow(g, k), x, k)
<1>1. PICK h : h = CreateRow(g, k)
  OBVIOUS
<1>2. \A x, r : In(g, x, r) => In(h, x, Shifted(k + 1, r))
  BY <1>1, RowCreated
<1>3. DOMAIN g = 1..Len(g) /\ Len(g) \in Nat /\ k \in Nat
  BY GridIs
<1>4. ASSUME NEW x, NEW y, Above(g, x, y) PROVE Above(h, x, y)
  <2>1. PICK r \in 1..Len(g), q \in 1..Len(g) : In(g, x, r) /\ In(g, y, q) /\ r <= q
    BY <1>3, <1>4 DEF Above
  <2>2. /\ Shifted(k + 1, r) \in Nat /\ Shifted(k + 1, q) \in Nat
        /\ Shifted(k + 1, r) <= Shifted(k + 1, q)
    BY <1>3, <2>1 DEF Shifted
  <2>3. In(h, x, Shifted(k + 1, r)) /\ In(h, y, Shifted(k + 1, q))
    BY <1>2, <2>1
  <2>4. QED
    BY <2>2, <2>3, InAbove
<1>5. Shifted(k + 1, k) = k
  BY <1>3 DEF Shifted
<1>6. QED
  BY <1>1, <1>2, <1>4, <1>5 DEF Keeps

LEMMA RowAppended ==
    ASSUME NEW U, NEW g \in Seq(Seq(U)), NEW s, \A x \in U \ {None} : Absent(s, x)
    PROVE  SameRows(U, g, Append(g, s))
<1>1. PICK n \in Nat : n = Len(g)
  OBVIOUS
<1>2. PICK h : h = Append(g, s)
  OBVIOUS
<1>3. /\ DOMAIN g = 1..n /\ DOMAIN h = 1..n+1 /\ h[n+1] = s /\ \A j \in 1..n : h[j] = g[j]
  BY <1>1, <1>2
<1>4. ASSUME NEW x \in U \ {None}, NEW r, In(g, x, r) PROVE In(h, x, r)
  <2>1. r \in 1..n /\ r \in 1..n+1 /\ Single(h[r], x)
    BY <1>3, <1>4 DEF In
  <2>2. \A q \in 1..n+1 : q \in 1..n \/ q = n+1
    OBVIOUS
  <2>3. \A q \in 1..n+1 : q # r => Absent(h[q], x)
    BY <1>3, <1>4, <2>2 DEF In
  <2>4. QED
    BY <1>3, <2>1, <2>3 DEF In
<1>5. QED
  BY <1>2, <1>4 DEF SameRows

LEMMA AddRowStep ==
    ASSUME NEW U, NEW g \in Seq(Seq(U)), NEW e, e \notin U
    PROVE  SameRows(U, g, AddRow(g, e)) /\ In(AddRow(g, e), e, Len(g) + 1)
<1>1. PICK n \in Nat : n = Len(g)
  OBVIOUS
<1>2. PICK h : h = Append(g, <<e>>)
  OBVIOUS
<1>3. /\ DOMAIN g = 1..n /\ DOMAIN h = 1..n+1 /\ h[n+1] = <<e>> /\ \A j \in 1..n : h[j] = g[j]
  BY <1>1, <1>2
<1>4. DOMAIN <<e>> = 1..1 /\ <<e>>[1] = e
  OBVIOUS
<1>5. Single(<<e>>, e) /\ \A x \in U \ {None} : Absent(<<e>>, x)
  BY <1>4 DEF Single, Absent
<1>6. SameRows(U, g, h)
  BY <1>2, <1>5, RowAppended
<1>7. \A q \in DOMAIN g : Absent(g[q], e)
  BY OutsideAbsent
<1>8. In(h, e, n + 1)
  <2>1. \A q \in 1..n+1 : q \in 1..n \/ q = n+1
    OBVIOUS
  <2>2. QED
    BY <1>3, <1>5, <1>7, <2>1 DEF In
<1>9. QED
  BY <1>1, <1>2, <1>6, <1>8 DEF AddRow

(* What may be written below an element, and to the right of it.           *)
LEMMA BelowStep ==
    ASSUME NEW U, None \in U, NEW g \in Grids(U), NEW h \in Grids(U), NEW x \in U \ {None},
           NEW r \in Nat \ {0}, Keeps(U, g, h), In(h, x, r), r + 1 <= Len(h),
           NEW c \in Nat \ {0}, c <= Len(h[r + 1]) => h[r + 1][c] = None, NEW e, e \notin U
    PROVE  Keeps(U, g, Write(h, r + 1, c, e)) /\ Above(Write(h, r + 1, c, e), x, e)
<1>1. PICK i \in 1..Len(h) : i = r + 1 /\ i \in Nat /\ r <= i
  <2>1. Len(h) \in Nat /\ r + 1 \in 1..Len(h)
    BY GridIs
  <2>2. QED
    BY <2>1
<1>2. SameRows(U, h, Write(h, i, c, e)) /\ In(Write(h, i, c, e), e, i)
  BY <1>1, CellWritten
<1>3. DOMAIN h \subseteq Nat
  BY GridIs
<1>4. PICK k : k = Write(h, i, c, e)
  OBVIOUS
<1>5. Keeps(U, h, k) /\ Above(k, x, e)
  BY <1>1, <1>2, <1>3, <1>4, SameAdds
<1>6. Keeps(U, g, k)
  BY <1>5, KeepsAll
<1>7. QED
  BY <1>1, <1>4, <1>5, <1>6

LEMMA GetNone ==
    ASSUME NEW U, NEW g \in Grids(U), NEW r \in 1..Len(g), NEW c \in Nat \ {0}, Get(g, r, c) = None
    PROVE  c <= Len(g[r]) => g[r][c] = None
<1>1. SUFFICES ASSUME c <= Len(g[r]) PROVE g[r][c] = None
  OBVIOUS
<1>2. g[r] \in Seq(U) /\ r \in DOMAIN g
  BY GridIs
<1>3. c \in DOMAIN g[r]
  BY <1>1, <1>2
<1>4. <<r, c>> \in Positions(g)
  BY <1>2, <1>3 DEF Positions
<1>5. QED
  BY <1>4 DEF Get

LEMMA AddBelowStep ==
    ASSUME NEW U, None \in U, NEW g \in Grids(U), NEW x \in U \ {None}, NEW r, In(g, x, r), NEW e, e \notin U
    PROVE  Keeps(U, g, AddBelow(g, x, e)) /\ Above(AddBelow(g, x, e), x, e)
<1>1. PICK c \in 1..Len(g[r]) : Find(g, x) = <<r, c>> /\ r \in 1..Len(g)
  BY FindIn
<1>2. /\ g \in Seq(Seq(U)) /\ g[r] \in Seq(U) /\ r \in Nat \ {0} /\ c \in Nat \ {0}
      /\ Len(g) \in Nat /\ DOMAIN g = 1..Len(g)
  BY <1>1, GridIs
<1>3. PICK h : h = RoomBelow(g, r, c)
  OBVIOUS
<1>4. AddBelow(g, x, e) = Write(h, r + 1, c, e)
  BY <1>1, <1>3 DEF AddBelow
<1>5. /\ h \in Grids(U) /\ Keeps(U, g, h) /\ In(h, x, r) /\ r + 1 <= Len(h)
      /\ c <= Len(h[r + 1]) => h[r + 1][c] = None
  <2>1. CASE r + 1 > Len(g)
    <3>1. h = Append(g, <<>>)
      BY <1>3, <2>1 DEF RoomBelow
    <3>2. <<>> \in Seq(U) /\ \A y \in U \ {None} : Absent(<<>>, y)
      BY EmptyRow
    <3>3. h \in Grids(U)
      BY <1>2, <3>1, <3>2, RowsAdded
    <3>4. SameRows(U, g, h)
      BY <1>2, <3>1, <3>2, RowAppended
    <3>5. r = Len(g) /\ r + 1 <= Len(h) /\ h[r + 1] = <<>>
      <4>1. r = Len(g)
        <5>1. r \in Nat /\ Len(g) \in Nat /\ r <= Len(g)
          BY <1>1, <1>2
        <5>2. PICK m \in Nat, k \in Nat : m = Len(g) /\ k = r /\ k <= m
          BY <5>1
        <5>3. k + 1 > m
          BY <2>1, <5>2
        <5>4. QED
          BY <5>2, <5>3
      <4>2. PICK C : C = Seq(U)
        OBVIOUS
      <4>3. PICK z \in C : z = <<>>
        BY <3>2, <4>2
      <4>4. Len(Append(g, z)) = Len(g) + 1 /\ Append(g, z)[Len(g) + 1] = z
        BY <1>2, <4>2
      <4>5. QED
        BY <1>2, <3>1, <4>1, <4>3, <4>4
    <3>6. In(h, x, r)
      BY <3>4 DEF SameRows
    <3>7. QED
      BY <1>2, <3>3, <3>4, <3>5, <3>6, SameKeeps
  <2>2. CASE ~(r + 1 > Len(g)) /\ Get(g, r + 1, c) # None
    <3>1. h = CreateRow(g, r)
      BY <1>3, <2>2 DEF RoomBelow
    <3>2. r \in 0..Len(g)
      BY <1>1, <1>2
    <3>3. h \in Grids(U) /\ Len(h) = Len(g) + 1 /\ h[r + 1] = <<>>
      BY <3>1, <3>2, CreateRowIs
    <3>4. Keeps(U, g, h) /\ In(h, x, r)
      BY <3>1, <3>2, CreateRowKeeps
    <3>5. QED
      BY <1>1, <1>2, <3>3, <3>4
  <2>3. CASE ~(r + 1 > Len(g)) /\ Get(g, r + 1, c) = None
    <3>1. h = g
      BY <1>3, <2>3 DEF RoomBelow
    <3>2. r + 1 \in 1..Len(g)
      BY <1>1, <1>2, <2>3
    <3>3. c <= Len(g[r + 1]) => g[r + 1][c] = None
      BY <1>2, <2>3, <3>2, GetNone
    <3>4. Keeps(U, g, g)
      BY DEF Keeps
    <3>5. QED
      BY <1>2, <3>1, <3>2, <3>3, <3>4
  <2>4. QED
    BY <2>1, <2>2, <2>3
<1>6. Keeps(U, g, Write(h, r + 1, c, e)) /\ Above(Write(h, r + 1, c, e), x, e)
  BY <1>2, <1>5, BelowStep
<1>7. QED
  BY <1>4, <1>6

(* Where the attacher handler adds, no row is missing above.               *)
LEMMA AddAtStep ==
    ASSUME NEW U, None \in U, NEW g \in Grids(U), NEW h \in Grids(U), NEW x \in U \ {None},
           NEW r \in Nat \ {0}, Keeps(U, g, h), In(h, x, r),
           NEW c \in Nat \ {0}, Get(h, r + 1, c) = None, NEW e, e \notin U
    PROVE  Keeps(U, g, AddAt(h, <<r + 1, c>>, e)) /\ Above(AddAt(h, <<r + 1, c>>, e), x, e)
<1>1. /\ h \in Seq(Seq(U)) /\ Len(h) \in Nat /\ DOMAIN h = 1..Len(h) /\ r \in 1..Len(h) /\ r + 1 \in Nat
      /\ <<>> \in Seq(U)
  BY GridIs DEF In
<1>2. <<r + 1, c>> # <<1, 1>>
  OBVIOUS
<1> DEFINE more == [i \in 1..((r + 1) - Len(h)) |-> <<>>]
<1>3. AddAt(h, <<r + 1, c>>, e) = Write(h \o more, r + 1, c, e)
  BY <1>2 DEF AddAt
<1>4. CASE r + 1 <= Len(h)
  <2>1. more = <<>>
    <3>1. 1..((r + 1) - Len(h)) = {}
      BY <1>1, <1>4
    <3>2. [i \in {} |-> <<>>] = <<>>
      OBVIOUS
    <3>3. QED
      BY <3>1, <3>2
  <2>2. h \o more = h
    <3>1. PICK C : C = Seq(U)
      OBVIOUS
    <3>2. h \in Seq(C)
      BY <1>1, <3>1
    <3>3. h \o <<>> = h
      BY <3>2
    <3>4. QED
      BY <2>1, <3>3
  <2>3. r + 1 \in 1..Len(h)
    BY <1>1, <1>4
  <2>4. c <= Len(h[r + 1]) => h[r + 1][c] = None
    BY <2>3, GetNone
  <2>5. Keeps(U, g, Write(h, r + 1, c, e)) /\ Above(Write(h, r + 1, c, e), x, e)
    BY <1>4, <2>4, BelowStep
  <2>6. QED
    BY <1>3, <2>2, <2>5
<1>5. CASE ~(r + 1 <= Len(h))
  <2>1. r = Len(h)
    <3>1. r \in Nat /\ Len(h) \in Nat /\ r <= Len(h)
      BY <1>1
    <3>2. PICK m \in Nat, k \in Nat : m = Len(h) /\ k = r /\ k <= m
      BY <3>1
    <3>3. ~(k + 1 <= m)
      BY <1>5, <3>2
    <3>4. QED
      BY <3>2, <3>3
  <2>2. more = <<<<>>>>
    <3>1. (r + 1) - Len(h) = 1
      BY <1>1, <2>1
    <3>2. more = [i \in 1..1 |-> <<>>]
      BY <3>1
    <3>3. QED
      BY <3>2
  <2>3. PICK k : k = h \o more
    OBVIOUS
  <2>4. PICK C : C = Seq(U)
    OBVIOUS
  <2>5. PICK z \in C : z = <<>>
    BY <1>1, <2>4
  <2>6. k = Append(h, z)
    <3>1. h \in Seq(C)
      BY <1>1, <2>4
    <3>2. h \o <<z>> = Append(h, z)
      BY <3>1
    <3>3. QED
      BY <2>2, <2>3, <2>5, <3>2
  <2>7. k \in Grids(U)
    BY <1>1, <2>4, <2>6, RowsAdded
  <2>8. SameRows(U, h, k)
    <3>1. \A y \in U \ {None} : Absent(z, y)
      BY <2>5, EmptyRow
    <3>2. QED
      BY <1>1, <2>6, <3>1, RowAppended
  <2>9. r + 1 <= Len(k) /\ k[r + 1] = <<>>
    <3>1. h \in Seq(C) /\ Len(h) = r
      BY <1>1, <2>1, <2>4
    <3>2. Len(Append(h, z)) = Len(h) + 1 /\ Append(h, z)[Len(h) + 1] = z
      BY <3>1
    <3>3. QED
      BY <1>1, <2>5, <2>6, <3>1, <3>2
  <2>10. In(k, x, r)
    BY <2>8 DEF SameRows
  <2>11. Keeps(U, g, k)
    BY <2>8, SameKeeps, KeepsAll
  <2>12. c <= Len(k[r + 1]) => k[r + 1][c] = None
    <3>1. Len(<<>>) = 0
      OBVIOUS
    <3>2. QED
      BY <2>9, <3>1
  <2>13. Keeps(U, g, Write(k, r + 1, c, e)) /\ Above(Write(k, r + 1, c, e), x, e)
    BY <2>7, <2>9, <2>10, <2>11, <2>12, BelowStep
  <2>14. QED
    BY <1>3, <2>3, <2>13
<1>6. QED
  BY <1>4, <1>5

LEMMA SameBound ==
    ASSUME NEW m \in Nat, NEW n \in Nat, 1..m = 1..n
    PROVE  m = n
<1>1. \A k \in Nat \ {0} : k \in 1..m <=> k \in 1..n
  OBVIOUS
<1>2. ASSUME m < n PROVE FALSE
  <2>1. n \in 1..n /\ n \in Nat \ {0} /\ ~(n \in 1..m)
    BY <1>2
  <2>2. QED
    BY <1>1, <2>1
<1>3. ASSUME n < m PROVE FALSE
  <2>1. m \in 1..m /\ m \in Nat \ {0} /\ ~(m \in 1..n)
    BY <1>3
  <2>2. QED
    BY <1>1, <2>1
<1>4. QED
  BY <1>2, <1>3

(* A fan-out of tasks moves within its row.                                *)
LEMMA AdjustGridPositionStep ==
    ASSUME NEW U, None \in U, NEW g \in Grids(U), NEW e \in U \ {None}, NEW r, In(g, e, r)
    PROVE  SameRows(U, g, AdjustGridPosition(g, e))
<1>1. PICK c \in 1..Len(g[r]) : /\ Find(g, e) = <<r, c>> /\ r \in 1..Len(g)
                                /\ \A j \in DOMAIN g[r] : g[r][j] = e <=> j = c
  BY FindIn
<1>2. /\ g \in Seq(Seq(U)) /\ g[r] \in Seq(U) /\ r \in DOMAIN g /\ r # 0 /\ Len(g) \in Nat
      /\ DOMAIN g = 1..Len(g) /\ At(Len(g), r) = r
  BY <1>1, GridIs DEF At
<1>3. PICK s \in Seq(U) : s = g[r]
  BY <1>2
<1>4. PICK cols \in Nat : cols = MaxCols(g)
  BY MaxColsIs
<1>5. PICK a : a = Append(Pad(s, cols), e)
  OBVIOUS
<1>6. PICK h : h = [g EXCEPT ![r] = a]
  OBVIOUS
<1>7. AdjustGridPosition(g, e) = IF c < cols THEN Write(h, r, c, None) ELSE g
  BY <1>1, <1>2, <1>3, <1>4, <1>5, <1>6 DEF AdjustGridPosition
<1>8. SameRows(U, g, g)
  BY DEF SameRows
<1>9. PICK n \in Nat : /\ n >= Len(s) /\ DOMAIN Pad(s, cols) = 1..n
                       /\ \A j \in 1..n : Pad(s, cols)[j] = IF j <= Len(s) THEN s[j] ELSE None
  BY PadCells
<1>10. /\ DOMAIN a = 1..n+1 /\ a[n+1] = e /\ a \in Seq(U) /\ Len(a) = n + 1
       /\ \A j \in 1..n : a[j] = IF j <= Len(s) THEN s[j] ELSE None
  <2>1. PICK p \in Seq(U) : p = Pad(s, cols) /\ Len(p) = n /\ DOMAIN p = 1..n
    <3>1. Pad(s, cols) \in Seq(U)
      BY PadIs
    <3>2. PICK p \in Seq(U) : p = Pad(s, cols)
      BY <3>1
    <3>3. DOMAIN p = 1..Len(p) /\ Len(p) \in Nat
      OBVIOUS
    <3>4. 1..Len(p) = 1..n
      BY <1>9, <3>2, <3>3
    <3>5. Len(p) = n
      BY <3>3, <3>4, SameBound
    <3>6. QED
      BY <1>9, <3>2, <3>5
  <2>2. a = Append(p, e)
    BY <1>5, <2>1
  <2>3. a \in Seq(U) /\ Len(a) = n + 1 /\ DOMAIN a = 1..n+1 /\ a[n+1] = e /\ \A j \in 1..n : a[j] = p[j]
    BY <2>1, <2>2
  <2>4. QED
    BY <1>9, <2>1, <2>3
<1>11. PICK t : t = [a EXCEPT ![c] = None]
  OBVIOUS
<1>12. c \in 1..Len(s) /\ Len(s) \in Nat /\ c \in 1..n /\ c \in Nat /\ c # 0 /\ c # n + 1
  BY <1>3, <1>9
<1>13. Write(h, r, c, None) = [g EXCEPT ![r] = t]
  <2>1. h[r] = a /\ Len(h) = Len(g) /\ h \in Grids(U)
    <3>1. h \in Grids(U)
      BY <1>6, <1>10, GridSet
    <3>2. DOMAIN h = 1..Len(h) /\ Len(h) \in Nat /\ DOMAIN h = DOMAIN g /\ h[r] = a
      BY <1>2, <1>6, <3>1, GridIs
    <3>3. 1..Len(h) = 1..Len(g)
      BY <1>2, <3>2
    <3>4. Len(h) = Len(g)
      BY <1>2, <3>2, <3>3, SameBound
    <3>5. QED
      BY <3>1, <3>2, <3>4
  <2>2. Pad(a, c) = a
    <3>1. ~(c > Len(a))
      BY <1>9, <1>10, <1>12
    <3>2. Pad(a, c) = a \o [i \in 1..0 |-> None]
      BY <3>1 DEF Pad
    <3>3. [i \in 1..0 |-> None] = <<>>
      <4>1. 1..0 = {} /\ [i \in {} |-> None] = <<>>
        OBVIOUS
      <4>2. QED
        BY <4>1
    <3>4. a \o <<>> = a
      BY <1>10
    <3>5. QED
      BY <3>2, <3>3, <3>4
  <2>3. At(Len(a), c) = c /\ At(Len(h), r) = r
    BY <1>2, <1>12 DEF At
  <2>4. Write(h, r, c, None) = [h EXCEPT ![r] = t]
    BY <1>11, <2>1, <2>2, <2>3 DEF Write
  <2>5. [h EXCEPT ![r] = t] = [g EXCEPT ![r] = t]
    BY <1>2, <1>6
  <2>6. QED
    BY <2>4, <2>5
<1>14. /\ DOMAIN t = 1..n+1
       /\ \A j \in 1..n+1 : t[j] = IF j = c THEN None ELSE IF j = n+1 THEN e
                                   ELSE IF j <= Len(s) THEN s[j] ELSE None
  <2>1. DOMAIN t = 1..n+1 /\ t[c] = None /\ \A j \in 1..n+1 : j # c => t[j] = a[j]
    BY <1>10, <1>11, <1>12
  <2>2. \A j \in 1..n+1 : j \in 1..n \/ j = n+1
    OBVIOUS
  <2>3. QED
    BY <1>10, <1>12, <2>1, <2>2
<1>15. \A j \in 1..Len(s) : j \in 1..n+1 /\ j # n+1
  BY <1>9, <1>12
<1>16. DOMAIN s = 1..Len(s)
  OBVIOUS
<1>17. Single(t, e)
  <2>1. \A j \in 1..n+1 : t[j] = e => j = n+1
    BY <1>1, <1>3, <1>14, <1>12
  <2>2. t[n+1] = e /\ n+1 \in 1..n+1
    BY <1>12, <1>14
  <2>3. QED
    BY <1>14, <2>1, <2>2 DEF Single
<1>18. ASSUME NEW x \in U \ {None}, x # e
       PROVE  (Single(s, x) => Single(t, x)) /\ (Absent(s, x) => Absent(t, x))
  <2>1. PICK m : m = [j \in 1..Len(s) |-> j]
    OBVIOUS
  <2>2. s[c] = e
    BY <1>1, <1>3, <1>12, <1>16
  <2>3. \A j \in DOMAIN s : s[j] = x => m[j] \in DOMAIN t /\ t[m[j]] = x
    BY <1>14, <1>15, <1>16, <1>18, <2>1, <2>2
  <2>4. \A k \in DOMAIN t : t[k] = x => \E j \in DOMAIN s : s[j] = x /\ k = m[j]
    <3>1. SUFFICES ASSUME NEW k \in 1..n+1, t[k] = x PROVE \E j \in DOMAIN s : s[j] = x /\ k = m[j]
      BY <1>14
    <3>2. k <= Len(s) /\ s[k] = x
      BY <1>14, <1>18, <3>1
    <3>3. k \in 1..Len(s)
      BY <1>12, <3>2
    <3>4. QED
      BY <1>16, <2>1, <3>2, <3>3
  <2>5. QED
    BY <2>3, <2>4, RowMapped
<1>19. RowStep(U, s, t)
  <2>1. ~Absent(s, e)
    BY <1>1, <1>3, <1>12, <1>16 DEF Absent
  <2>2. QED
    BY <1>17, <1>18, <2>1 DEF RowStep
<1>20. SameRows(U, g, [g EXCEPT ![r] = t])
  BY <1>2, <1>3, <1>19, RowReplaced
<1>21. QED
  BY <1>7, <1>8, <1>13, <1>20

(* The starting nodes get a row each, below the others.                    *)
LEMMA RowsStep ==
    ASSUME NEW U, NEW W, NEW g \in Seq(Seq(U)), NEW s \in Seq(W), IsInjective(s), U \cap W = {}
    PROVE  LET h == g \o [i \in DOMAIN s |-> <<s[i]>>] IN
           SameRows(U, g, h) /\ \A i \in DOMAIN s : In(h, s[i], Len(g) + i)
<1>1. PICK C : C = Seq(U \cup W)
  OBVIOUS
<1>2. g \in Seq(C)
  BY <1>1, GridGrows
<1>3. PICK t : t = [i \in DOMAIN s |-> <<s[i]>>]
  OBVIOUS
<1>4. t \in Seq(C) /\ DOMAIN t = DOMAIN s
  <2>1. \A i \in DOMAIN s : <<s[i]>> \in C
    BY <1>1
  <2>2. DOMAIN s = 1..Len(s) /\ Len(s) \in Nat
    OBVIOUS
  <2>3. t \in [1..Len(s) -> C]
    BY <1>3, <2>1, <2>2
  <2>4. QED
    BY <1>3, <2>2, <2>3
<1>5. \A i \in DOMAIN s : DOMAIN t[i] = 1..1 /\ t[i][1] = s[i] /\ s[i] \in W
  <2>1. \A i \in DOMAIN s : DOMAIN <<s[i]>> = 1..1 /\ <<s[i]>>[1] = s[i]
    OBVIOUS
  <2>2. QED
    BY <1>3, <2>1
<1>6. \A x \in U \ {None} : \A q \in DOMAIN t : Absent(t[q], x)
  BY <1>4, <1>5 DEF Absent
<1>7. \A x \in W : \A q \in DOMAIN g : Absent(g[q], x)
  BY OutsideAbsent
<1>8. \A i \in DOMAIN s : In(t, s[i], i)
  <2>1. SUFFICES ASSUME NEW i \in DOMAIN s PROVE In(t, s[i], i)
    OBVIOUS
  <2>2. Single(t[i], s[i])
    BY <1>5 DEF Single
  <2>3. \A q \in DOMAIN t : q # i => s[q] # s[i]
    BY <1>4 DEF IsInjective
  <2>4. \A q \in DOMAIN t : q # i => Absent(t[q], s[i])
    BY <1>4, <1>5, <2>3 DEF Absent
  <2>5. QED
    BY <1>4, <2>2, <2>4 DEF In
<1>9. ASSUME NEW x \in U \ {None}, NEW r, In(g, x, r) PROVE In(g \o t, x, r)
  BY <1>2, <1>4, <1>6, <1>9, RowsFollow
<1>10. ASSUME NEW i \in DOMAIN s PROVE In(g \o t, s[i], Len(g) + i)
  BY <1>2, <1>4, <1>5, <1>7, <1>8, RowsFollow
<1>11. QED
  BY <1>3, <1>9, <1>10 DEF SameRows

-----------------------------------------------------------------------------
(* The invariant of the layout.  A node that is visited is in one cell; in *)
(* a process whose paths only part, without loops, the targets of a node   *)
(* and of its boundary events are visited when its handlers have run, and  *)
(* below it.                                                               *)
Flows == ToSet(process.flows)
Anchor(n) == IF n \in Boundary THEN process.host[n] ELSE n

Known ==
    /\ process \in Processes
    /\ \A n \in Node : ToSet(outgoing[n]) = {f[2] : f \in {f \in Flows : f[1] = n}}
Finished == pc = "done" => visited = FlowNodes

Alone == \A n \in visited : Above(grid, n, n)
Progress ==
    pc = "targets" =>
        /\ index <= Len(outgoing[current]) + 1
        /\ \A j \in 1..index-1 : outgoing[current][j] \in visited
        /\ previous # None => \E j \in 1..index-1 : previous = outgoing[current][j]

Downward ==
    \A f \in Flows :
        f[2] \in visited => Anchor(f[1]) \in visited /\ Above(grid, Anchor(f[1]), f[2])

Pending(n) ==
    \/ n \in ToSet(stack)
    \/ Handling /\ n = current
    \/ pc \in {"targets", "attached"} /\ n \in ToSet(next) \cup ToSet(below)
Covered(n) == \A f \in Flows : Anchor(f[1]) = n => f[2] \in visited
Covering == \A n \in visited : Pending(n) \/ Covered(n)
Hosted ==
    pc = "attached" =>
        /\ \A f \in Flows : f[1] = current => f[2] \in visited
        /\ \A f \in Flows : process.host[f[1]] = current => f[2] \in visited \cup ToSet(attached)
        /\ \A n \in ToSet(attached) : \E f \in Flows : process.host[f[1]] = current /\ f[2] = n
Rooted ==
    /\ pc # "start" => \A n \in FlowNodes : ~HasOtherIncoming(n) => n \in visited
    /\ pc = "start" => stack = <<>>

WInv ==
    /\ Known /\ Finished
    /\ Forked => Alone /\ Progress
    /\ Forked /\ Loopless => Downward /\ Covering /\ Hosted /\ Rooted

LEMMA ShapeKept ==
    ASSUME process' = process
    PROVE  /\ Flows' = Flows /\ Forked' = Forked /\ Loopless' = Loopless /\ FlowNodes' = FlowNodes
           /\ \A n : Anchor(n)' = Anchor(n) /\ HasOtherIncoming(n)' = HasOtherIncoming(n)
BY DEF Flows, Forked, Several, Loopless, Links, FlowNodes, Boundary, Anchor, HasOtherIncoming, Sources

LEMMA FlowIs ==
    ASSUME process \in Processes, NEW f \in Flows
    PROVE  /\ f[1] \in Node /\ f[2] \in Node /\ f = <<f[1], f[2]>>
           /\ f[2] \in FlowNodes /\ Anchor(f[1]) \in FlowNodes /\ Anchor(f[2]) = f[2]
<1>1. process \in Process
  BY ProcessesAssumption
<1>2. PICK flows \in Seq(Node \X Node) : flows = process.flows
  BY <1>1 DEF Process
<1>3. PICK i \in DOMAIN flows : f = flows[i]
  BY <1>2 DEF Flows, ToSet
<1>4. f \in Node \X Node
  BY <1>3
<1>5. f[1] \in Node /\ f[2] \in Node /\ f = <<f[1], f[2]>>
  BY <1>4
<1>6. process.host[f[2]] = None
  BY <1>2, <1>3, ProcessesAssumption
<1>7. f[2] \in FlowNodes /\ Anchor(f[2]) = f[2]
  BY <1>5, <1>6 DEF FlowNodes, Boundary, Anchor
<1>8. Anchor(f[1]) \in FlowNodes
  <2>1. CASE process.host[f[1]] # None
    <3>1. process.host \in [Node -> Node \cup {None}]
      BY <1>1 DEF Process
    <3>2. process.host[f[1]] \in Node /\ process.host[process.host[f[1]]] = None
      BY <1>5, <2>1, <3>1, ProcessesAssumption
    <3>3. QED
      BY <1>5, <2>1, <3>2 DEF Anchor, Boundary, FlowNodes
  <2>2. CASE process.host[f[1]] = None
    BY <1>5, <2>2 DEF Anchor, Boundary, FlowNodes
  <2>3. QED
    BY <2>1, <2>2
<1>9. QED
  BY <1>5, <1>7, <1>8

LEMMA OneSource ==
    ASSUME process \in Processes, Forked, NEW f \in Flows, NEW h \in Flows, f[2] = h[2]
    PROVE  f = h
<1>1. PICK flows \in Seq(Node \X Node) : flows = process.flows
  BY ProcessesAssumption DEF Process
<1>2. PICK i \in DOMAIN flows : f = flows[i]
  BY <1>1 DEF Flows, ToSet
<1>3. PICK j \in DOMAIN flows : h = flows[j]
  BY <1>1 DEF Flows, ToSet
<1>4. ~Several(f[2])
  BY FlowIs DEF Forked
<1>5. ~(i < j) /\ ~(j < i)
  BY <1>1, <1>2, <1>3, <1>4 DEF Several
<1>6. i = j
  <2>1. i \in Nat /\ j \in Nat
    BY <1>1
  <2>2. QED
    BY <1>5, <2>1
<1>7. QED
  BY <1>2, <1>3, <1>6

LEMMA AboveTrans ==
    ASSUME NEW g, DOMAIN g \subseteq Nat, NEW x, NEW y, NEW z, Above(g, x, y), Above(g, y, z)
    PROVE  Above(g, x, z)
<1>1. PICK r \in DOMAIN g, q \in DOMAIN g : In(g, x, r) /\ In(g, y, q) /\ r <= q
  BY DEF Above
<1>2. PICK p \in DOMAIN g, s \in DOMAIN g : In(g, y, p) /\ In(g, z, s) /\ p <= s
  BY DEF Above
<1>3. p = q
  BY <1>1, <1>2, InOnce
<1>4. r \in Nat /\ q \in Nat /\ s \in Nat /\ r <= s
  BY <1>1, <1>2, <1>3
<1>5. QED
  BY <1>1, <1>2, <1>4, InAbove

LEMMA GridRows == ASSUME IInv PROVE DOMAIN grid \subseteq Nat /\ DOMAIN grid = 1..Len(grid)
BY DEF IInv

(* What every step leaves to be shown.                                     *)
Placing ==
    /\ Keeps(visited \cup {None}, grid, grid')
    /\ \A n \in visited' \ visited : Above(grid', n, n)
Leading ==
    \A f \in Flows : f[2] \in visited' \ visited =>
                         Anchor(f[1]) \in visited' /\ Above(grid', Anchor(f[1]), f[2])

LEMMA Walked ==
    ASSUME IInv, WInv, process' = process, visited \subseteq visited',
           \A n \in Node : ToSet(outgoing'[n]) = ToSet(outgoing[n]),
           Finished', Forked => Progress' /\ Placing,
           Forked /\ Loopless => Leading /\ Covering' /\ Hosted' /\ Rooted'
    PROVE  WInv'
<1>1. /\ Flows' = Flows /\ Forked' = Forked /\ Loopless' = Loopless
      /\ \A n : Anchor(n)' = Anchor(n)
  BY ShapeKept
<1>2. Known'
  BY <1>1 DEF WInv, Known
<1>3. \A n \in visited : n \in (visited \cup {None}) \ {None}
  BY NodeAssumption DEF IInv, TypeOK, FlowNodes
<1>4. ASSUME Forked PROVE Alone'
  <2>1. SUFFICES ASSUME NEW n \in visited' PROVE Above(grid', n, n)
    BY DEF Alone
  <2>2. CASE n \in visited
    BY <1>3, <1>4, <2>2 DEF WInv, Alone, Placing, Keeps
  <2>3. CASE n \notin visited
    BY <1>4, <2>3 DEF Placing
  <2>4. QED
    BY <2>2, <2>3
<1>5. ASSUME Forked, Loopless PROVE Downward'
  <2>1. SUFFICES ASSUME NEW f \in Flows, f[2] \in visited'
                 PROVE  Anchor(f[1]) \in visited' /\ Above(grid', Anchor(f[1]), f[2])
    BY <1>1 DEF Downward
  <2>2. CASE f[2] \in visited
    <3>1. Anchor(f[1]) \in visited /\ Above(grid, Anchor(f[1]), f[2])
      BY <1>5, <2>2 DEF WInv, Downward
    <3>2. Above(grid', Anchor(f[1]), f[2])
      BY <1>3, <1>5, <2>2, <3>1 DEF Placing, Keeps
    <3>3. QED
      BY <3>1, <3>2
  <2>3. CASE f[2] \notin visited
    BY <1>5, <2>1, <2>3 DEF Leading
  <2>4. QED
    BY <2>2, <2>3
<1>6. QED
  BY <1>1, <1>2, <1>4, <1>5 DEF WInv

LEMMA SameGrid == ASSUME grid' = grid, visited' = visited PROVE Placing /\ Leading
BY DEF Placing, Leading, Keeps

LEMMA FrontSet ==
    ASSUME NEW S, NEW s \in Seq(S), s # <<>>
    PROVE  ToSet(s) \subseteq ToSet(Front(s)) \cup {Last(s)}
<1>1. PICK n \in Nat : n = Len(s) /\ DOMAIN s = 1..n
  OBVIOUS
<1>2. PICK m \in Nat : n = m + 1
  <2>1. n # 0
    BY <1>1
  <2>2. n - 1 \in Nat /\ n = (n - 1) + 1
    BY <2>1
  <2>3. QED
    BY <2>2
<1>3. PICK t : t = SubSeq(s, 1, m)
  OBVIOUS
<1>4. DOMAIN t = 1..m /\ \A i \in 1..m : t[i] = s[i]
  BY <1>1, <1>2, <1>3
<1>5. Front(s) = t /\ Last(s) = s[m + 1]
  BY <1>1, <1>2, <1>3 DEF Front, Last
<1>6. \A i \in 1..n : i \in 1..m \/ i = m + 1
  BY <1>2
<1>7. QED
  BY <1>1, <1>4, <1>5, <1>6 DEF ToSet

LEMMA WInitHolds == ASSUME Init PROVE WInv
<1>1. process \in Processes /\ visited = {} /\ pc = "start" /\ stack = <<>>
  BY DEF Init
<1>2. Known
  <2>1. \A n \in Node : ToSet(Outgoing(n)) = {f[2] : f \in {f \in Flows : f[1] = n}}
    BY <1>1, OutgoingIs DEF Flows
  <2>2. QED
    BY <1>1, <2>1 DEF Known, Init
<1>3. QED
  BY <1>1, <1>2 DEF WInv, Finished, Alone, Progress, Downward, Covering, Hosted, Rooted

LEMMA WFinishStep == ASSUME IInv, WInv, Finish PROVE WInv'
<1>1. /\ pc = "start" /\ pc' = "done" /\ Cardinality(visited) >= Cardinality(FlowNodes)
      /\ UNCHANGED <<process, outgoing, grid, visited, stack, rescued>>
      /\ UNCHANGED <<current, index, previous, next, attached, below>>
  BY DEF Finish, handling
<1>2. visited = FlowNodes
  <2>1. FlowNodes \in SUBSET Node /\ visited \in SUBSET FlowNodes
    BY DEF IInv, TypeOK, FlowNodes
  <2>2. IsFiniteSet(FlowNodes)
    BY <2>1, FS_Subset, NodeAssumption
  <2>3. IsFiniteSet(visited) /\ Cardinality(visited) <= Cardinality(FlowNodes)
    BY <2>1, <2>2, FS_Subset
  <2>4. Cardinality(visited) \in Nat /\ Cardinality(FlowNodes) \in Nat
    BY <2>2, <2>3, FS_CardinalityType
  <2>5. Cardinality(visited) = Cardinality(FlowNodes)
    BY <1>1, <2>3, <2>4
  <2>6. QED
    BY <2>1, <2>2, <2>5, FS_Subset
<1>3. Finished'
  BY <1>1, <1>2, ShapeKept DEF Finished
<1>4. Progress' /\ Hosted'
  BY <1>1 DEF Progress, Hosted
<1>5. ASSUME Forked, Loopless PROVE Covering' /\ Rooted'
  <2>1. Covering /\ Rooted
    BY <1>5 DEF WInv
  <2>2. Covering'
    BY <1>1, <2>1, ShapeKept DEF Covering, Pending, Covered, Handling
  <2>3. Rooted'
    BY <1>1, <1>2, ShapeKept DEF Rooted
  <2>4. QED
    BY <2>2, <2>3
<1>6. QED
  BY <1>1, <1>3, <1>4, <1>5, SameGrid, Walked

LEMMA WTakeStep == ASSUME IInv, WInv, Take PROVE WInv'
<1>1. PICK n : n = Last(stack)
  OBVIOUS
<1>2. /\ pc = "drain" /\ stack # <<>> /\ current' = n /\ stack' = Front(stack) /\ pc' = "row"
      /\ grid' = IF Several(n) THEN AdjustColumn(grid, Sources(n), n) ELSE grid
      /\ UNCHANGED <<process, outgoing, visited, rescued, index, previous, next, attached, below>>
  BY <1>1 DEF Take
<1>3. n \in Node /\ stack \in Seq(visited)
  <2>1. n \in visited
    BY <1>1, <1>2, ListedFront DEF IInv, Waiting
  <2>2. QED
    BY <2>1 DEF IInv, Waiting, Listed, TypeOK, FlowNodes
<1>4. Forked => grid' = grid
  BY <1>2, <1>3 DEF Forked
<1>5. Finished' /\ Progress' /\ Hosted'
  BY <1>2 DEF Finished, Progress, Hosted
<1>6. ASSUME Forked, Loopless PROVE Covering' /\ Rooted'
  <2>1. Covering /\ Rooted
    BY <1>6 DEF WInv
  <2>2. ToSet(stack) \subseteq ToSet(stack') \cup {n}
    BY <1>1, <1>2, <1>3, FrontSet
  <2>3. Covering'
    BY <1>2, <2>1, <2>2, ShapeKept DEF Covering, Pending, Covered, Handling
  <2>4. Rooted'
    BY <1>2, <2>1, ShapeKept DEF Rooted
  <2>5. QED
    BY <2>3, <2>4
<1>7. QED
  BY <1>2, <1>4, <1>5, <1>6, SameGrid, Walked

LEMMA WAlignRowStep == ASSUME IInv, WInv, AlignRow PROVE WInv'
<1>1. /\ pc = "row" /\ pc' = "fan out"
      /\ grid' = IF Several(current) THEN AdjustRow(grid, Sources(current), current) ELSE grid
      /\ UNCHANGED <<process, outgoing, visited, stack, rescued>>
      /\ UNCHANGED <<current, index, previous, next, attached, below>>
  BY DEF AlignRow, handling
<1>2. current \in Node
  BY <1>1, Current DEF Handling
<1>3. Forked => grid' = grid
  BY <1>1, <1>2 DEF Forked
<1>4. Finished' /\ Progress' /\ Hosted'
  BY <1>1 DEF Finished, Progress, Hosted
<1>5. ASSUME Forked, Loopless PROVE Covering' /\ Rooted'
  <2>1. Covering /\ Rooted
    BY <1>5 DEF WInv
  <2>2. Covering'
    BY <1>1, <2>1, ShapeKept DEF Covering, Pending, Covered, Handling
  <2>3. Rooted'
    BY <1>1, <2>1, ShapeKept DEF Rooted
  <2>4. QED
    BY <2>2, <2>3
<1>6. QED
  BY <1>1, <1>3, <1>4, <1>5, SameGrid, Walked

LEMMA WFanOutStep == ASSUME IInv, WInv, FanOut PROVE WInv'
<1>1. /\ pc = "fan out" /\ pc' = "targets"
      /\ grid' \in {grid, AdjustGridPosition(grid, current)}
      /\ index' = 1 /\ previous' = None /\ next' = <<>> /\ below' = <<>>
      /\ UNCHANGED <<process, outgoing, visited, stack, rescued, current, attached>>
  BY DEF FanOut
<1>2. PICK U : U = visited \cup {None}
  OBVIOUS
<1>3. current \in visited /\ current \in U \ {None} /\ grid \in Grids(U) /\ None \in U
      /\ outgoing[current] \in Seq(FlowNodes)
  <2>1. current \in visited /\ grid \in Grids(U) /\ current \in Node /\ outgoing[current] \in Seq(FlowNodes)
    BY <1>1, <1>2, Current DEF Handling
  <2>2. QED
    BY <1>2, <2>1, NodeAssumption
<1>4. ASSUME Forked PROVE Placing
  <2>1. PICK r \in DOMAIN grid : In(grid, current, r)
    BY <1>3, <1>4 DEF WInv, Alone, Above
  <2>2. SameRows(U, grid, AdjustGridPosition(grid, current))
    BY <1>3, <2>1, AdjustGridPositionStep
  <2>3. SameRows(U, grid, grid')
    BY <1>1, <2>2 DEF SameRows
  <2>4. QED
    BY <1>1, <1>2, <2>3, SameKeeps DEF Placing
<1>5. Leading
  BY <1>1 DEF Leading
<1>6. Finished' /\ Hosted'
  BY <1>1 DEF Finished, Hosted
<1>7. Progress'
  <2>1. 1..(1 - 1) = {} /\ Len(outgoing[current]) \in Nat /\ 1 <= Len(outgoing[current]) + 1
    BY <1>3
  <2>2. QED
    BY <1>1, <2>1 DEF Progress
<1>8. ASSUME Forked, Loopless PROVE Covering' /\ Rooted'
  <2>1. Covering /\ Rooted
    BY <1>8 DEF WInv
  <2>2. Covering'
    BY <1>1, <2>1, ShapeKept DEF Covering, Pending, Covered, Handling
  <2>3. Rooted'
    BY <1>1, <2>1, ShapeKept DEF Rooted
  <2>4. QED
    BY <2>2, <2>3
<1>9. QED
  BY <1>1, <1>4, <1>5, <1>6, <1>7, <1>8, Walked

LEMMA WHandledStep == ASSUME IInv, WInv, Handled PROVE WInv'
<1>1. /\ pc = "attached" /\ attached = <<>> /\ pc' = "drain"
      /\ stack' = stack \o next \o below
      /\ visited' = visited \cup ToSet(next) \cup ToSet(below)
      /\ UNCHANGED <<process, outgoing, grid, rescued>>
      /\ UNCHANGED <<current, index, previous, next, attached, below>>
  BY DEF Handled, handling
<1>2. Listed(stack, visited) /\ Listed(next, visited) /\ Listed(below, visited)
  BY <1>1 DEF IInv, Waiting
<1>3. visited' = visited
  BY <1>1, <1>2, ToSetIs DEF Listed
<1>4. ToSet(stack') = ToSet(stack) \cup ToSet(next) \cup ToSet(below)
  <2>1. ToSet(stack \o next) = ToSet(stack) \cup ToSet(next) /\ stack \o next \in Seq(visited)
    BY <1>2, ConcatSet DEF Listed
  <2>2. PICK s \in Seq(visited) : s = stack \o next
    BY <2>1
  <2>3. ToSet(s \o below) = ToSet(s) \cup ToSet(below)
    BY <1>2, ConcatSet DEF Listed
  <2>4. QED
    BY <1>1, <2>1, <2>2, <2>3
<1>5. Finished' /\ Progress' /\ Hosted'
  BY <1>1 DEF Finished, Progress, Hosted
<1>6. ASSUME Forked, Loopless PROVE Covering' /\ Rooted'
  <2>1. Covering /\ Rooted /\ Hosted
    BY <1>6 DEF WInv
  <2>2. Covered(current)
    <3>1. SUFFICES ASSUME NEW f \in Flows, Anchor(f[1]) = current PROVE f[2] \in visited
      BY DEF Covered
    <3>2. f[1] = current \/ process.host[f[1]] = current
      BY <3>1 DEF Anchor
    <3>3. QED
      BY <1>1, <2>1, <3>1, <3>2, ToSetEmpty DEF Hosted
  <2>3. Covering'
    <3>1. SUFFICES ASSUME NEW n \in visited PROVE n \in ToSet(stack') \/ Covered(n)'
      BY <1>3 DEF Covering, Pending
    <3>2. Covered(n)' <=> Covered(n)
      BY <1>1, <1>3, ShapeKept DEF Covered
    <3>3. CASE Pending(n)
      BY <1>1, <1>4, <2>2, <3>2, <3>3 DEF Pending
    <3>4. CASE Covered(n)
      BY <3>2, <3>4
    <3>5. QED
      BY <2>1, <3>3, <3>4 DEF Covering
  <2>4. Rooted'
    BY <1>1, <1>3, <2>1, ShapeKept DEF Rooted
  <2>5. QED
    BY <2>3, <2>4
<1>7. QED
  BY <1>1, <1>3, <1>5, <1>6, SameGrid, Walked

LEMMA WAttachStep == ASSUME IInv, WInv, Attach PROVE WInv'
<1>1. PICK hosts : hosts = InOrder(Attachers(current))
  OBVIOUS
<1>2. /\ pc = "targets" /\ pc' = "attached" /\ index > Len(outgoing[current])
      /\ next' = GatewaysFirst(next)
      /\ outgoing' = [n \in Node |-> IF n \in ToSet(hosts) THEN Reverse(outgoing[n]) ELSE outgoing[n]]
      /\ attached' = ReversedTargets(hosts)
      /\ UNCHANGED <<process, grid, visited, stack, rescued, current, index, previous, below>>
  BY <1>1 DEF Attach
<1>3. /\ TypeOK /\ visited \subseteq Node /\ Listed(next, visited) /\ Known
      /\ \A n \in Node : outgoing[n] \in Seq(FlowNodes)
  BY <1>2 DEF IInv, TypeOK, Waiting, FlowNodes, Targets, WInv
<1>4. current \in Node /\ current # None
  BY <1>2, Current, NodeAssumption DEF Handling
<1>5. hosts \in Seq(Node) /\ ToSet(hosts) = Attachers(current)
  <2>1. Attachers(current) \subseteq Node
    BY DEF Attachers, Boundary
  <2>2. QED
    BY <1>1, <2>1, InOrderIs, SeqGrows
<1>6. \A n \in Node : ToSet(outgoing'[n]) = ToSet(outgoing[n])
  BY <1>2, <1>3, ReverseIs
<1>7. ToSet(next') = ToSet(next)
  BY <1>2, <1>3, GatewaysFirstIs
<1>8. ToSet(attached') = UNION {ToSet(outgoing[n]) : n \in Attachers(current)}
  BY <1>2, <1>3, <1>5, ReversedIs DEF TypeOK
<1>9. Finished' /\ Progress'
  BY <1>2 DEF Finished, Progress
<1>10. ASSUME Forked PROVE \A f \in Flows : f[1] = current => f[2] \in visited
  <2>1. SUFFICES ASSUME NEW f \in Flows, f[1] = current PROVE f[2] \in visited
    OBVIOUS
  <2>2. f[2] \in ToSet(outgoing[current])
    BY <1>3, <1>4, <2>1 DEF Known
  <2>3. PICK j \in DOMAIN outgoing[current] : f[2] = outgoing[current][j]
    BY <2>2 DEF ToSet
  <2>4. j \in 1..Len(outgoing[current]) /\ Len(outgoing[current]) \in Nat /\ index \in Nat
    BY <1>3, <1>4, <2>3 DEF TypeOK
  <2>5. j \in 1..index-1
    BY <1>2, <2>4
  <2>6. QED
    BY <1>2, <1>10, <2>3, <2>5 DEF WInv, Progress
<1>11. \A f \in Flows : process.host[f[1]] = current => f[2] \in ToSet(attached')
  <2>1. SUFFICES ASSUME NEW f \in Flows, process.host[f[1]] = current PROVE f[2] \in ToSet(attached')
    OBVIOUS
  <2>2. f[1] \in Node
    BY <1>3, FlowIs DEF Known
  <2>3. f[1] \in Attachers(current)
    BY <1>4, <2>1, <2>2 DEF Attachers, Boundary
  <2>4. f[2] \in ToSet(outgoing[f[1]])
    BY <1>3, <2>2 DEF Known
  <2>5. QED
    BY <1>8, <2>3, <2>4
<1>12. \A n \in ToSet(attached') : \E f \in Flows : process.host[f[1]] = current /\ f[2] = n
  <2>1. SUFFICES ASSUME NEW n \in ToSet(attached')
                 PROVE  \E f \in Flows : process.host[f[1]] = current /\ f[2] = n
    OBVIOUS
  <2>2. PICK b \in Attachers(current) : n \in ToSet(outgoing[b])
    BY <1>8
  <2>3. b \in Node /\ process.host[b] = current
    BY DEF Attachers, Boundary
  <2>4. PICK f \in Flows : f[1] = b /\ f[2] = n
    BY <1>3, <2>2, <2>3 DEF Known
  <2>5. QED
    BY <2>3, <2>4
<1>13. ASSUME Forked, Loopless PROVE Covering' /\ Hosted' /\ Rooted'
  <2>1. Covering /\ Rooted
    BY <1>13 DEF WInv
  <2>2. Covering'
    BY <1>2, <1>7, <2>1, ShapeKept DEF Covering, Pending, Covered, Handling
  <2>3. Hosted'
    <3>1. Flows' = Flows /\ visited' = visited /\ current' = current /\ process' = process
      BY <1>2, ShapeKept
    <3>2. QED
      BY <1>10, <1>11, <1>12, <1>13, <3>1 DEF Hosted
  <2>4. Rooted'
    BY <1>2, <2>1, ShapeKept DEF Rooted
  <2>5. QED
    BY <2>2, <2>3, <2>4
<1>14. QED
  BY <1>2, <1>6, <1>9, <1>13, SameGrid, Walked

(* In a process without loops, a set of nodes that all follow one another  *)
(* is empty.                                                               *)
LEMMA NoCycle ==
    ASSUME Loopless, NEW T \in SUBSET Node, \A t \in T : \E p \in T : <<p, t>> \in Links
    PROVE  T = {}
<1> DEFINE closed(S) == S # {} /\ \A t \in S : \E p \in S : <<p, t>> \in Links
           sizes == {Cardinality(S) : S \in {S \in SUBSET Node : closed(S)}}
<1>1. \A S \in SUBSET Node : IsFiniteSet(S) /\ Cardinality(S) \in Nat
  BY NodeAssumption, FS_Subset, FS_CardinalityType
<1>2. sizes \in SUBSET Nat
  BY <1>1
<1>3. SUFFICES ASSUME T # {} PROVE FALSE
  OBVIOUS
<1>4. sizes # {}
  BY <1>3
<1>5. PICK m \in sizes : \A k \in sizes : m <= k
  <2> HIDE DEF sizes
  <2>1. QED
    BY <1>2, <1>4, I!Least
<1>6. PICK S \in SUBSET Node : closed(S) /\ m = Cardinality(S)
  BY <1>5
<1>7. PICK n \in S : \A k \in S : <<n, k>> \notin Links
  BY <1>6 DEF Loopless
<1>8. closed(S \ {n})
  <2>1. \A t \in S : \E p \in S \ {n} : <<p, t>> \in Links
    BY <1>6, <1>7
  <2>2. S \ {n} # {}
    BY <1>6, <2>1
  <2>3. \A t \in S \ {n} : \E p \in S \ {n} : <<p, t>> \in Links
    BY <2>1
  <2>4. QED
    BY <2>2, <2>3
<1>9. Cardinality(S \ {n}) = Cardinality(S) - 1 /\ Cardinality(S) \in Nat
  BY <1>1, FS_RemoveElement
<1>10. Cardinality(S \ {n}) \in sizes
  BY <1>8
<1>11. m <= m - 1 /\ m \in Nat
  BY <1>5, <1>6, <1>9, <1>10
<1>12. QED
  BY <1>11

(* So the walk leaves nobody out.                                          *)
LEMMA AllReached ==
    ASSUME IInv, WInv, Forked, Loopless, pc = "drain", stack = <<>>
    PROVE  visited = FlowNodes
<1>1. Covering /\ Rooted /\ process \in Processes /\ process \in Process /\ visited \subseteq FlowNodes
  BY DEF WInv, Known, IInv, TypeOK
<1>2. \A n \in visited : Covered(n)
  BY <1>1, ToSetEmpty DEF Covering, Pending, Handling
<1> DEFINE Late == {n \in Node : Anchor(n) \notin visited}
<1>3. ASSUME NEW n \in Late PROVE \E p \in Late : <<p, n>> \in Links
  <2>1. CASE n \in Boundary
    <3>1. PICK h : h = process.host[n]
      OBVIOUS
    <3>2. h \in Node /\ process.host[h] = None /\ h \notin visited
      BY <1>1, <1>3, <2>1, <3>1, ProcessesAssumption DEF Boundary, Anchor, Process
    <3>3. h \in Late
      BY <3>2 DEF Anchor, Boundary
    <3>4. <<h, n>> \in Links
      BY <2>1, <3>1 DEF Links
    <3>5. QED
      BY <3>3, <3>4
  <2>2. CASE n \notin Boundary
    <3>1. n \in FlowNodes /\ n \notin visited
      BY <1>3, <2>2 DEF FlowNodes, Anchor
    <3>2. HasOtherIncoming(n)
      BY <1>1, <3>1 DEF Rooted
    <3>3. PICK s \in Sources(n) : TRUE
      BY <3>2 DEF HasOtherIncoming
    <3>4. PICK f \in Flows : f[1] = s /\ f[2] = n
      BY <3>3 DEF Sources, Flows
    <3>5. f[1] \in Node /\ f = <<f[1], f[2]>> /\ Anchor(f[1]) \in FlowNodes
      BY <1>1, FlowIs
    <3>6. Anchor(f[1]) \notin visited
      BY <1>2, <3>1, <3>4 DEF Covered
    <3>7. <<s, n>> \in Links
      BY <3>4, <3>5 DEF Links, Flows
    <3>8. QED
      BY <3>4, <3>5, <3>6, <3>7
  <2>3. QED
    BY <2>1, <2>2
<1>4. Late = {}
  <2>1. Late \in SUBSET Node
    OBVIOUS
  <2> HIDE DEF Late
  <2>2. QED
    BY <1>3, <2>1, NoCycle
<1>5. \A n \in FlowNodes : n \in visited
  BY <1>4 DEF FlowNodes, Anchor
<1>6. QED
  BY <1>1, <1>5

LEMMA AbovePlaced ==
    ASSUME NEW g, NEW x, x # None, Above(g, x, x)
    PROVE  x \in Placed(g)
<1>1. PICK r \in DOMAIN g : In(g, x, r)
  BY DEF Above
<1>2. PICK i \in DOMAIN g[r] : g[r][i] = x
  BY <1>1 DEF In, Single
<1>3. <<r, i>> \in Positions(g) /\ Cell(g, <<r, i>>) = x
  BY <1>2 DEF Positions, Cell
<1>4. QED
  BY <1>3 DEF Placed, Occupied

LEMMA WDrainedStep == ASSUME IInv, WInv, Drained PROVE WInv'
<1>1. pc = "drain" /\ stack = <<>>
  BY DEF Drained
<1>2. UNCHANGED <<process, outgoing, current, index, previous, next, attached, below>>
  BY DEF Drained, handling
<1>3. grid \in Seq(Seq(visited \cup {None})) /\ visited \subseteq FlowNodes /\ None \notin FlowNodes
  BY NodeAssumption DEF IInv, TypeOK, FlowNodes
<1>4. CASE ~rescued /\ Missing # {}
  <2>1. PICK m : m = Min(Missing)
    OBVIOUS
  <2>2. grid' = AddRow(grid, m) /\ visited' = visited \cup {m} /\ pc' = pc
    BY <1>4, <2>1 DEF Drained, Mark
  <2>3. m \in Missing
    <3>1. Missing \in SUBSET Nat
      BY NodeAssumption DEF Missing, FlowNodes
    <3>2. QED
      BY <1>4, <2>1, <3>1, MinIs
  <2>4. ASSUME Forked PROVE m \notin visited /\ m \notin visited \cup {None}
    <3>1. m \in FlowNodes /\ m \notin Placed(grid)
      BY <2>3 DEF Missing
    <3>2. m # None
      BY <1>3, <3>1
    <3>3. m \notin visited
      BY <2>4, <3>1, <3>2, AbovePlaced DEF WInv, Alone
    <3>4. QED
      BY <3>2, <3>3
  <2>5. ASSUME Forked PROVE Placing
    <3>1. PICK U : U = visited \cup {None}
      OBVIOUS
    <3>2. SameRows(U, grid, grid') /\ In(grid', m, Len(grid) + 1)
      BY <1>3, <2>2, <2>4, <2>5, <3>1, AddRowStep
    <3>3. Len(grid) + 1 \in Nat /\ Len(grid) + 1 <= Len(grid) + 1
      BY <1>3
    <3>4. Above(grid', m, m)
      BY <3>2, <3>3, InAbove
    <3>5. QED
      BY <2>2, <3>1, <3>2, <3>4, SameKeeps DEF Placing
  <2>6. ASSUME Forked, Loopless PROVE FALSE
    <3>1. visited = FlowNodes
      BY <1>1, <2>6, AllReached
    <3>2. QED
      BY <2>3, <2>4, <2>6, <3>1 DEF Missing
  <2>7. Finished' /\ Progress'
    BY <1>1, <2>2 DEF Finished, Progress
  <2>8. QED
    BY <1>2, <2>2, <2>5, <2>6, <2>7, Walked
<1>5. CASE ~(~rescued /\ Missing # {})
  <2>1. pc' = "start" /\ UNCHANGED <<stack, grid, visited, rescued>>
    BY <1>5 DEF Drained
  <2>2. Finished' /\ Progress' /\ Hosted'
    BY <2>1 DEF Finished, Progress, Hosted
  <2>3. ASSUME Forked, Loopless PROVE Covering' /\ Rooted'
    <3>1. Covering /\ Rooted
      BY <2>3 DEF WInv
    <3>2. Covering'
      BY <1>1, <1>2, <2>1, <3>1, ShapeKept DEF Covering, Pending, Covered, Handling
    <3>3. Rooted'
      BY <1>1, <2>1 DEF Rooted
    <3>4. QED
      BY <3>2, <3>3
  <2>4. QED
    BY <1>2, <2>1, <2>2, <2>3, SameGrid, Walked
<1>6. QED
  BY <1>4, <1>5

LEMMA TargetOf ==
    ASSUME Known, NEW n \in Node, NEW t \in ToSet(outgoing[n])
    PROVE  \E f \in Flows : f[1] = n /\ f[2] = t
<1>1. ToSet(outgoing[n]) = {f[2] : f \in {f \in Flows : f[1] = n}}
  BY DEF Known
<1>2. QED
  BY <1>1

(* A target goes after or below a node that is placed: the node being      *)
(* handled, or a target of it.                                             *)
LEMMA TargetPlaced ==
    ASSUME IInv, WInv, Forked, pc = "targets", index <= Len(outgoing[current]),
           NEW target, target = outgoing[current][index], target \notin visited
    PROVE  \E x \in visited :
               /\ Keeps(visited \cup {None}, grid, Place(target)) /\ Above(Place(target), x, target)
               /\ x = current \/ \E j \in 1..index-1 : x = outgoing[current][j]
<1>1. PICK U : U = visited \cup {None}
  OBVIOUS
<1>2. current \in visited /\ outgoing[current] \in Seq(FlowNodes) /\ grid \in Grids(U) /\ None \in U
  BY <1>1, Current DEF Handling
<1>3. None \notin FlowNodes /\ index \in Nat \ {0} /\ visited \subseteq FlowNodes
  BY NodeAssumption DEF IInv, TypeOK, FlowNodes
<1>4. target \in FlowNodes /\ target \notin U
  <2>1. index \in 1..Len(outgoing[current])
    BY <1>2, <1>3
  <2>2. QED
    BY <1>1, <1>2, <1>3, <2>1
<1>5. \A x \in visited : x \in U \ {None} /\ \E r : In(grid, x, r)
  BY <1>1, <1>3 DEF WInv, Alone, Above
<1>6. /\ \A j \in 1..index-1 : outgoing[current][j] \in visited
      /\ previous # None => \E j \in 1..index-1 : previous = outgoing[current][j]
  BY DEF WInv, Progress
<1>7. \A x \in visited : /\ Keeps(U, grid, AddAfter(grid, x, target)) /\ Above(AddAfter(grid, x, target), x, target)
                         /\ Keeps(U, grid, AddBelow(grid, x, target)) /\ Above(AddBelow(grid, x, target), x, target)
  <2>1. SUFFICES ASSUME NEW x \in visited
                 PROVE  /\ Keeps(U, grid, AddAfter(grid, x, target)) /\ Above(AddAfter(grid, x, target), x, target)
                        /\ Keeps(U, grid, AddBelow(grid, x, target)) /\ Above(AddBelow(grid, x, target), x, target)
    OBVIOUS
  <2>2. PICK r : In(grid, x, r)
    BY <1>5
  <2>3. x \in U \ {None}
    BY <1>5
  <2>4. QED
    BY <1>2, <1>4, <2>2, <2>3, AddAfterStep, AddBelowStep
<1>8. CASE previous = None
  BY <1>1, <1>2, <1>7, <1>8 DEF Place
<1>9. CASE previous # None
  <2>1. PICK j \in 1..index-1 : previous = outgoing[current][j]
    BY <1>6, <1>9
  <2>2. previous \in visited
    BY <1>6, <2>1
  <2>3. index - 1 \in 1..index-1
    BY <1>3, <2>1
  <2>4. PICK x : x = outgoing[current][index - 1]
    OBVIOUS
  <2>5. x \in visited
    BY <1>6, <2>3, <2>4
  <2>6. CASE Gateway(current) /\ Gateway(target)
    <3>1. Place(target) = AddAfter(grid, previous, target)
      BY <1>9, <2>6 DEF Place
    <3>2. QED
      BY <1>1, <1>7, <2>1, <2>2, <3>1
  <2>7. CASE ~(Gateway(current) /\ Gateway(target))
    <3>1. Place(target) = AddBelow(grid, x, target)
      BY <1>9, <2>4, <2>7 DEF Place
    <3>2. QED
      BY <1>1, <1>7, <2>3, <2>4, <2>5, <3>1
  <2>8. QED
    BY <2>6, <2>7
<1>10. QED
  BY <1>8, <1>9

LEMMA WTargetStep == ASSUME IInv, WInv, Target PROVE WInv'
<1>1. PICK target : target = outgoing[current][index]
  OBVIOUS
<1>2. /\ pc = "targets" /\ index <= Len(outgoing[current]) /\ pc' = pc /\ index' = index + 1
      /\ UNCHANGED <<process, outgoing, stack, rescued, current, attached, below>>
  BY DEF Target
<1>3. /\ current \in visited /\ current \in FlowNodes /\ current \in Node
      /\ outgoing[current] \in Seq(FlowNodes) /\ visited \subseteq FlowNodes
      /\ None \notin FlowNodes /\ index \in Nat \ {0} /\ Known
  BY <1>2, Current, NodeAssumption DEF Handling, IInv, TypeOK, FlowNodes, WInv
<1>4. target \in FlowNodes /\ target \in Node /\ target \in ToSet(outgoing[current])
  <2>1. index \in 1..Len(outgoing[current])
    BY <1>2, <1>3
  <2>2. QED
    BY <1>1, <1>3, <2>1 DEF ToSet, FlowNodes
<1>5. Finished' /\ Hosted'
  BY <1>2 DEF Finished, Hosted
<1>6. ASSUME Forked, visited \subseteq visited', outgoing[current][index] \in visited',
             previous' # None => previous' \in {previous, outgoing[current][index]}
      PROVE  Progress'
  <2>1. Progress
    BY <1>6 DEF WInv
  <2>2. \A j \in 1..(index + 1)-1 : j \in 1..index-1 \/ j = index
    BY <1>3
  <2>3. index + 1 <= Len(outgoing[current]) + 1 /\ index \in 1..(index + 1)-1
    BY <1>2, <1>3
  <2>4. 1..index-1 \subseteq 1..(index + 1)-1
    BY <1>3
  <2>5. /\ \A j \in 1..index-1 : outgoing[current][j] \in visited
        /\ previous # None => \E j \in 1..index-1 : previous = outgoing[current][j]
    BY <1>2, <2>1 DEF Progress
  <2>6. \A j \in 1..(index + 1)-1 : outgoing[current][j] \in visited'
    BY <1>6, <2>2, <2>5
  <2>7. previous' # None => \E j \in 1..(index + 1)-1 : previous' = outgoing[current][j]
    BY <1>6, <2>3, <2>4, <2>5
  <2>8. QED
    BY <1>2, <2>3, <2>6, <2>7 DEF Progress
<1>7. ASSUME Forked PROVE ~Waits(target)
  BY <1>4, <1>7 DEF Forked, Waits, IsFutureIncoming
<1>8. CASE Seen(target) \/ Waits(target)
  <2>1. UNCHANGED <<grid, visited, previous, next>>
    BY <1>1, <1>8 DEF Target
  <2>2. Forked => Progress'
    BY <1>1, <1>6, <1>7, <1>8, <2>1 DEF Seen
  <2>3. ASSUME Forked, Loopless PROVE Covering' /\ Rooted'
    <3>1. Covering /\ Rooted
      BY <2>3 DEF WInv
    <3>2. Covering'
      BY <1>2, <2>1, <3>1, ShapeKept DEF Covering, Pending, Covered, Handling
    <3>3. Rooted'
      BY <1>2, <2>1, <3>1, ShapeKept DEF Rooted
    <3>4. QED
      BY <3>2, <3>3
  <2>4. QED
    BY <1>2, <1>5, <2>1, <2>2, <2>3, SameGrid, Walked
<1>9. CASE ~(Seen(target) \/ Waits(target))
  <2>1. /\ grid' = Place(target) /\ next' = Cons(target, next)
        /\ previous' \in {previous, target} /\ visited' = visited \cup {target}
    BY <1>1, <1>9 DEF Target
  <2>2. target \notin visited
    BY <1>9 DEF Seen
  <2>3. Forked => Progress'
    BY <1>1, <1>6, <2>1
  <2>4. ToSet(next') = {target} \cup ToSet(next)
    <3>1. next \in Seq(visited')
      BY <1>2, <2>1, ListedGrows DEF IInv, Waiting, Listed
    <3>2. PICK one : one = <<target>>
      OBVIOUS
    <3>3. one \in Seq(visited') /\ ToSet(one) = {target}
      BY <2>1, <3>2, ListedOne DEF Listed
    <3>4. PICK rest \in Seq(visited') : rest = next
      BY <3>1
    <3>5. ToSet(one \o rest) = ToSet(one) \cup ToSet(rest)
      BY <3>3, ConcatSet
    <3>6. QED
      BY <2>1, <3>2, <3>3, <3>4, <3>5 DEF Cons
  <2>5. ASSUME Forked
        PROVE \E x \in visited :
                  /\ Keeps(visited \cup {None}, grid, grid') /\ Above(grid', x, target)
                  /\ x = current \/ \E j \in 1..index-1 : x = outgoing[current][j]
    BY <1>1, <1>2, <2>1, <2>2, <2>5, TargetPlaced
  <2>6. DOMAIN grid' \subseteq Nat
    <3>1. IInv'
      BY TargetStep
    <3>2. grid' \in Seq(Seq(visited' \cup {None}))
      BY <3>1 DEF IInv
    <3>3. QED
      BY <3>2
  <2>7. Forked => Placing
    BY <2>1, <2>5, <2>6, AboveSelf DEF Placing
  <2>8. ASSUME Forked, Loopless PROVE Leading
    <3>1. SUFFICES ASSUME NEW f \in Flows, f[2] = target
                   PROVE  Anchor(f[1]) \in visited' /\ Above(grid', Anchor(f[1]), target)
      BY <2>1 DEF Leading
    <3>2. PICK h \in Flows : h[1] = current /\ h[2] = target
      BY <1>3, <1>4, TargetOf
    <3>3. f[1] = current
      BY <1>3, <2>8, <3>1, <3>2, OneSource DEF Known
    <3>4. Anchor(f[1]) = current
      BY <1>3, <3>3 DEF Anchor, FlowNodes
    <3>5. PICK x \in visited :
              /\ Keeps(visited \cup {None}, grid, grid') /\ Above(grid', x, target)
              /\ x = current \/ \E j \in 1..index-1 : x = outgoing[current][j]
      BY <2>5, <2>8
    <3>6. CASE x = current
      BY <2>1, <3>4, <3>5, <3>6
    <3>7. ASSUME NEW j \in 1..index-1, x = outgoing[current][j] PROVE Above(grid', current, target)
      <4>1. x \in ToSet(outgoing[current])
        <5>1. j \in 1..Len(outgoing[current])
          BY <1>2, <1>3
        <5>2. QED
          BY <1>3, <3>7, <5>1 DEF ToSet
      <4>2. PICK k \in Flows : k[1] = current /\ k[2] = x
        BY <1>3, <4>1, TargetOf
      <4>3. Anchor(k[1]) = current
        BY <1>3, <4>2 DEF Anchor, FlowNodes
      <4>4. Above(grid, current, x)
        BY <2>8, <3>5, <4>2, <4>3 DEF WInv, Downward
      <4>5. Above(grid', current, x)
        BY <1>3, <3>5, <4>4 DEF Keeps
      <4>6. QED
        BY <2>6, <3>5, <4>5, AboveTrans
    <3>8. QED
      BY <1>3, <2>1, <3>4, <3>5, <3>6, <3>7
  <2>9. ASSUME Forked, Loopless PROVE Covering' /\ Rooted'
    <3>1. Covering /\ Rooted
      BY <2>9 DEF WInv
    <3>2. \A n \in visited : Pending(n) => Pending(n)'
      BY <1>2, <2>4 DEF Pending, Handling
    <3>3. \A n \in visited : Covered(n) => Covered(n)'
      BY <1>2, <2>1, ShapeKept DEF Covered
    <3>4. Pending(target)'
      BY <1>2, <2>4 DEF Pending
    <3>5. Covering'
      BY <2>1, <3>1, <3>2, <3>3, <3>4 DEF Covering
    <3>6. Rooted'
      BY <1>2, <2>1, <3>1, ShapeKept DEF Rooted
    <3>7. QED
      BY <3>5, <3>6
  <2>10. QED
    BY <1>2, <1>5, <2>1, <2>3, <2>7, <2>8, <2>9, Walked
<1>10. QED
  BY <1>8, <1>9

(* Nobody leads to a starting node, so that no row can be above its own.   *)
LEMMA WStartStep == ASSUME IInv, WInv, Start PROVE WInv'
<1>1. PICK starting : starting = InOrder(Starting)
  OBVIOUS
<1>2. /\ pc = "start" /\ visited' = visited \cup Starting /\ stack' = starting /\ pc' = "drain"
      /\ grid' = grid \o [i \in DOMAIN starting |-> <<starting[i]>>]
      /\ UNCHANGED <<process, outgoing, current, index, previous, next, attached, below>>
  BY <1>1 DEF Start, handling
<1>3. PICK U : U = visited \cup {None}
  OBVIOUS
<1>4. /\ Starting \subseteq Node /\ Starting \subseteq FlowNodes /\ U \cap Starting = {}
      /\ grid \in Seq(Seq(U)) /\ None \notin FlowNodes
  BY <1>3, NodeAssumption DEF IInv, Starting, FlowNodes
<1>5. starting \in Seq(Starting) /\ IsInjective(starting) /\ ToSet(starting) = Starting
  BY <1>1, <1>4, InOrderIs
<1>6. SameRows(U, grid, grid') /\ \A i \in DOMAIN starting : In(grid', starting[i], Len(grid) + i)
  <2>1. LET h == grid \o [i \in DOMAIN starting |-> <<starting[i]>>] IN
        SameRows(U, grid, h) /\ \A i \in DOMAIN starting : In(h, starting[i], Len(grid) + i)
    BY <1>4, <1>5, RowsStep
  <2>2. QED
    BY <1>2, <2>1
<1>7. Placing
  <2>1. ASSUME NEW n \in Starting PROVE Above(grid', n, n)
    <3>1. PICK i \in DOMAIN starting : n = starting[i]
      BY <1>5 DEF ToSet
    <3>2. i \in Nat /\ Len(grid) \in Nat
      BY <1>4, <1>5
    <3>3. Len(grid) + i \in Nat /\ Len(grid) + i <= Len(grid) + i
      BY <3>2
    <3>4. QED
      BY <1>6, <3>1, <3>3, InAbove
  <2>2. QED
    BY <1>2, <1>3, <1>6, <2>1, SameKeeps DEF Placing
<1>8. Finished' /\ Progress' /\ Hosted'
  BY <1>2 DEF Finished, Progress, Hosted
<1>9. ASSUME Loopless PROVE Leading
  <2>1. SUFFICES ASSUME NEW f \in Flows, f[2] \in Starting PROVE FALSE
    BY <1>2 DEF Leading
  <2>2. PICK s \in Node, n \in Node : s = f[1] /\ n = f[2] /\ f = <<s, n>>
    BY FlowIs DEF WInv, Known
  <2>3. s \in Sources(n) /\ <<s, n>> \in Links
    BY <2>2 DEF Sources, Flows, Links
  <2>4. s = n \/ process.host[s] = n
    BY <2>1, <2>2, <2>3 DEF Starting, HasOtherIncoming
  <2>5. CASE s = n
    <3>1. {n} = {}
      BY <1>9, <2>3, <2>5, NoCycle
    <3>2. QED
      BY <3>1
  <2>6. CASE process.host[s] = n
    <3>1. s \in Boundary
      BY <2>2, <2>6, NodeAssumption DEF Boundary
    <3>2. <<n, s>> \in Links
      BY <2>6, <3>1 DEF Links
    <3>3. \A t \in {n, s} : \E p \in {n, s} : <<p, t>> \in Links
      BY <2>3, <3>2
    <3>4. {n, s} \in SUBSET Node
      BY <2>2
    <3>5. {n, s} = {}
      BY <1>9, <3>3, <3>4, NoCycle
    <3>6. QED
      BY <3>5
  <2>7. QED
    BY <2>4, <2>5, <2>6
<1>10. ASSUME Forked, Loopless PROVE Covering' /\ Rooted'
  <2>1. Covering /\ Rooted
    BY <1>10 DEF WInv
  <2>2. Covering'
    <3>1. \A n \in visited : Covered(n)
      BY <1>2, <2>1, ToSetEmpty DEF Covering, Pending, Handling, Rooted
    <3>2. \A n \in visited : Covered(n)'
      BY <1>2, <3>1, ShapeKept DEF Covered
    <3>3. \A n \in Starting : Pending(n)'
      BY <1>2, <1>5 DEF Pending
    <3>4. QED
      BY <1>2, <3>2, <3>3 DEF Covering
  <2>3. Rooted'
    BY <1>2, ShapeKept DEF Rooted, Starting
  <2>4. QED
    BY <2>2, <2>3
<1>11. QED
  BY <1>2, <1>7, <1>8, <1>9, <1>10, Walked

LEMMA HeadTail ==
    ASSUME NEW S, NEW s \in Seq(S), s # <<>>
    PROVE  ToSet(s) = {Head(s)} \cup ToSet(Tail(s))
<1>1. PICK n \in Nat : n = Len(s) /\ DOMAIN s = 1..n /\ n # 0
  OBVIOUS
<1>2. PICK t : t = Tail(s)
  OBVIOUS
<1>3. DOMAIN t = 1..n-1 /\ \A i \in 1..n-1 : t[i] = s[i + 1]
  BY <1>1, <1>2
<1>4. Head(s) = s[1]
  OBVIOUS
<1>5. \A i \in 1..n : i = 1 \/ (i - 1 \in 1..n-1 /\ (i - 1) + 1 = i)
  BY <1>1
<1>6. \A i \in 1..n-1 : i + 1 \in 1..n
  BY <1>1
<1>7. 1 \in 1..n
  BY <1>1
<1>8. ASSUME NEW x \in ToSet(s) PROVE x = Head(s) \/ x \in ToSet(t)
  <2>1. PICK i \in 1..n : x = s[i]
    BY <1>1 DEF ToSet
  <2>2. CASE i = 1
    BY <1>4, <2>1, <2>2
  <2>3. CASE i # 1
    <3>1. i - 1 \in 1..n-1 /\ t[i - 1] = s[i]
      BY <1>3, <1>5, <2>3
    <3>2. QED
      BY <1>3, <2>1, <3>1 DEF ToSet
  <2>4. QED
    BY <2>2, <2>3
<1>9. ASSUME NEW x \in ToSet(t) PROVE x \in ToSet(s)
  BY <1>1, <1>3, <1>6 DEF ToSet
<1>10. Head(s) \in ToSet(s)
  BY <1>1, <1>4, <1>7 DEF ToSet
<1>11. QED
  BY <1>2, <1>8, <1>9, <1>10

(* A target of a boundary event goes below its host.                       *)
LEMMA AttachedPlaced ==
    ASSUME IInv, WInv, Forked, pc = "attached", NEW target \in FlowNodes, target \notin visited,
           NEW rows, rows = IF RowTaken(current) THEN CreateRow(grid, Find(grid, current)[1]) ELSE grid,
           NEW cell, cell = <<Find(grid, current)[1] + 1, Find(grid, current)[2] + 1>>
    PROVE  /\ Keeps(visited \cup {None}, grid, AddAt(rows, cell, target))
           /\ Above(AddAt(rows, cell, target), current, target)
<1>1. PICK U : U = visited \cup {None}
  OBVIOUS
<1>2. current \in visited /\ grid \in Grids(U) /\ None \in U
  BY <1>1, Current DEF Handling
<1>3. current \in U \ {None} /\ target \notin U
  BY <1>1, <1>2, NodeAssumption DEF IInv, TypeOK, FlowNodes
<1>4. PICK r : In(grid, current, r)
  BY <1>2 DEF WInv, Alone, Above
<1>5. PICK c \in 1..Len(grid[r]) : Find(grid, current) = <<r, c>> /\ r \in 1..Len(grid)
  BY <1>2, <1>4, FindIn
<1>6. /\ r \in Nat \ {0} /\ r \in 0..Len(grid) /\ c + 1 \in Nat \ {0} /\ c \in Nat
      /\ Find(grid, current)[1] = r /\ Find(grid, current)[2] = c
  BY <1>2, <1>5, GridIs
<1>7. CASE RowTaken(current)
  <2>1. rows = CreateRow(grid, r)
    BY <1>6, <1>7
  <2>2. rows \in Grids(U) /\ rows[r + 1] = <<>>
    BY <1>2, <1>6, <2>1, CreateRowIs
  <2>3. Keeps(U, grid, rows) /\ In(rows, current, r)
    BY <1>2, <1>4, <1>6, <2>1, CreateRowKeeps
  <2>4. Get(rows, r + 1, c + 1) = None
    <3>1. c + 1 \notin DOMAIN rows[r + 1]
      BY <2>2
    <3>2. QED
      BY <3>1, GetIs
  <2>5. Keeps(U, grid, AddAt(rows, <<r + 1, c + 1>>, target)) /\ Above(AddAt(rows, <<r + 1, c + 1>>, target), current, target)
    BY <1>2, <1>3, <1>6, <2>2, <2>3, <2>4, AddAtStep
  <2>6. QED
    BY <1>1, <1>6, <2>5
<1>8. CASE ~RowTaken(current)
  <2>1. rows = grid /\ Get(grid, r + 1, c + 1) = None
    BY <1>6, <1>8 DEF RowTaken
  <2>2. Keeps(U, grid, grid)
    BY DEF Keeps
  <2>3. Keeps(U, grid, AddAt(grid, <<r + 1, c + 1>>, target)) /\ Above(AddAt(grid, <<r + 1, c + 1>>, target), current, target)
    BY <1>2, <1>3, <1>4, <1>6, <2>1, <2>2, AddAtStep
  <2>4. QED
    BY <1>1, <1>6, <2>1, <2>3
<1>9. QED
  BY <1>7, <1>8

LEMMA WAttachedTargetStep == ASSUME IInv, WInv, AttachedTarget PROVE WInv'
<1>1. PICK target : target = Head(attached)
  OBVIOUS
<1>2. /\ pc = "attached" /\ attached # <<>> /\ attached' = Tail(attached)
      /\ UNCHANGED <<process, outgoing, stack, rescued, current, index, previous, next>>
  BY DEF AttachedTarget
<1>3. /\ current \in visited /\ current \in FlowNodes /\ current \in Node /\ visited \subseteq FlowNodes
      /\ attached \in Seq(FlowNodes) /\ Known
  BY <1>2, Current DEF Handling, IInv, TypeOK, Targets, WInv
<1>4. target \in FlowNodes /\ ToSet(attached) = {target} \cup ToSet(attached')
  BY <1>1, <1>2, <1>3, HeadTail
<1>5. Progress'
  <2>1. pc' # "targets"
    BY <1>2 DEF AttachedTarget
  <2>2. QED
    BY <2>1 DEF Progress
<1>6. CASE Seen(target)
  <2>1. UNCHANGED <<grid, visited, below, pc>> /\ target \in visited
    BY <1>1, <1>6 DEF AttachedTarget, Seen
  <2>2. Finished'
    BY <1>2, <2>1 DEF Finished
  <2>3. ASSUME Forked, Loopless PROVE Covering' /\ Hosted' /\ Rooted'
    <3>1. Covering /\ Rooted /\ Hosted
      BY <2>3 DEF WInv
    <3>2. Covering'
      BY <1>2, <2>1, <3>1, ShapeKept DEF Covering, Pending, Covered, Handling
    <3>3. Rooted'
      BY <1>2, <2>1, <3>1, ShapeKept DEF Rooted
    <3>4. Hosted'
      BY <1>2, <1>4, <2>1, <3>1, ShapeKept DEF Hosted
    <3>5. QED
      BY <3>2, <3>3, <3>4
  <2>4. QED
    BY <1>2, <1>5, <2>1, <2>2, <2>3, SameGrid, Walked
<1>7. CASE ~Seen(target)
  <2>1. PICK rows : rows = IF RowTaken(current) THEN CreateRow(grid, Find(grid, current)[1]) ELSE grid
    OBVIOUS
  <2>2. PICK cell : cell = <<Find(grid, current)[1] + 1, Find(grid, current)[2] + 1>>
    OBVIOUS
  <2>3. pc' # "failed" /\ grid' \in Seq(Seq(visited' \cup {None}))
    BY AttachedTargetStep DEF IInv, Walking
  <2>4. /\ grid' = AddAt(rows, cell, target) /\ visited' = visited \cup {target}
        /\ below' = Append(below, target) /\ pc' = pc
    BY <1>1, <1>7, <2>1, <2>2, <2>3 DEF AttachedTarget
  <2>5. target \notin visited
    BY <1>7 DEF Seen
  <2>6. Forked => Keeps(visited \cup {None}, grid, grid') /\ Above(grid', current, target)
    BY <1>2, <1>4, <2>1, <2>2, <2>4, <2>5, AttachedPlaced
  <2>7. DOMAIN grid' \subseteq Nat
    BY <2>3
  <2>8. Forked => Placing
    BY <2>4, <2>6, <2>7, AboveSelf DEF Placing
  <2>9. ASSUME Forked, Loopless PROVE Leading
    <3>1. SUFFICES ASSUME NEW f \in Flows, f[2] = target
                   PROVE  Anchor(f[1]) \in visited' /\ Above(grid', Anchor(f[1]), target)
      BY <2>4 DEF Leading
    <3>2. PICK h \in Flows : process.host[h[1]] = current /\ h[2] = target
      BY <1>2, <1>4, <2>9 DEF WInv, Hosted
    <3>3. f = h
      BY <1>3, <2>9, <3>1, <3>2, OneSource DEF Known
    <3>4. f[1] \in Node
      BY <1>3, FlowIs DEF Known
    <3>5. Anchor(f[1]) = current
      BY <1>3, <3>2, <3>3, <3>4, NodeAssumption DEF Anchor, Boundary
    <3>6. QED
      BY <1>3, <2>4, <2>6, <2>9, <3>5
  <2>10. ToSet(below') = ToSet(below) \cup {target}
    <3>1. below \in Seq(FlowNodes)
      BY DEF IInv, TypeOK, Targets
    <3>2. QED
      BY <1>4, <2>4, <3>1, AppendSet
  <2>11. Finished'
    BY <1>2, <2>4 DEF Finished
  <2>12. ASSUME Forked, Loopless PROVE Covering' /\ Hosted' /\ Rooted'
    <3>1. Covering /\ Rooted /\ Hosted
      BY <2>12 DEF WInv
    <3>2. \A n \in visited : Pending(n) => Pending(n)'
      BY <1>2, <2>4, <2>10 DEF Pending, Handling
    <3>3. \A n \in visited : Covered(n) => Covered(n)'
      BY <1>2, <2>4, ShapeKept DEF Covered
    <3>4. Pending(target)'
      BY <1>2, <2>4, <2>10 DEF Pending
    <3>5. Covering'
      BY <2>4, <3>1, <3>2, <3>3, <3>4 DEF Covering
    <3>6. Rooted'
      BY <1>2, <2>4, <3>1, ShapeKept DEF Rooted
    <3>7. Hosted'
      BY <1>2, <1>4, <2>4, <3>1, ShapeKept DEF Hosted
    <3>8. QED
      BY <3>5, <3>6, <3>7
  <2>13. QED
    BY <1>2, <1>5, <2>4, <2>8, <2>9, <2>11, <2>12, Walked
<1>8. QED
  BY <1>6, <1>7

LEMMA LaidOut == ASSUME IInv, WInv PROVE ForkLaidOut
<1>1. PICK U : U = visited \cup {None}
  OBVIOUS
<1>2. /\ grid \in Seq(Seq(U)) /\ visited \subseteq FlowNodes /\ FlowNodes \subseteq Node /\ None \notin FlowNodes
      /\ Known /\ Finished
  BY <1>1, NodeAssumption DEF IInv, TypeOK, FlowNodes, WInv
<1>3. ASSUME NEW x, NEW r, In(grid, x, r)
      PROVE  grid \in Grids(U) /\ r \in Nat \ {0}
  <2>1. r \in DOMAIN grid
    BY <1>3 DEF In
  <2>2. grid # <<>>
    BY <2>1
  <2>3. r \in 1..Len(grid)
    BY <1>2, <2>1
  <2>4. QED
    BY <1>2, <2>2, <2>3 DEF Grids
<1>4. ASSUME Forked, NEW n \in visited PROVE Once(n)
  <2>1. PICK r : In(grid, n, r)
    BY <1>4 DEF WInv, Alone, Above
  <2>2. PICK i \in 1..Len(grid[r]) : \A j \in DOMAIN grid[r] : grid[r][j] = n <=> j = i
    BY <1>3, <2>1, FindIn
  <2>3. i \in DOMAIN grid[r] /\ grid[r][i] = n
    <3>1. grid[r] \in Seq(U)
      BY <1>3, <2>1, GridIs DEF In
    <3>2. i \in DOMAIN grid[r]
      BY <3>1
    <3>3. QED
      BY <2>2, <3>2
  <2>4. r \in DOMAIN grid /\ \A q \in DOMAIN grid : q # r => \A j \in DOMAIN grid[q] : grid[q][j] # n
    BY <2>1 DEF In, Absent
  <2>5. n # None
    BY <1>2
  <2>6. {pos \in Occupied(grid) : Cell(grid, pos) = n} = {<<r, i>>}
    <3>1. <<r, i>> \in Occupied(grid) /\ Cell(grid, <<r, i>>) = n
      BY <2>3, <2>4, <2>5 DEF Occupied, Positions, Cell
    <3>2. ASSUME NEW pos \in Occupied(grid), Cell(grid, pos) = n PROVE pos = <<r, i>>
      <4>1. PICK q \in DOMAIN grid : \E j \in DOMAIN grid[q] : pos = <<q, j>>
        BY DEF Occupied, Positions
      <4>2. PICK j \in DOMAIN grid[q] : pos = <<q, j>>
        BY <4>1
      <4>3. grid[q][j] = n
        BY <3>2, <4>2 DEF Cell
      <4>4. q = r
        BY <2>4, <4>3
      <4>5. j = i
        BY <2>2, <4>3, <4>4
      <4>6. QED
        BY <4>2, <4>4, <4>5
    <3>3. QED
      BY <3>1, <3>2
  <2>7. QED
    BY <2>6, FS_Singleton DEF Once
<1>5. ForkPlaced
  BY <1>2, <1>4 DEF ForkPlaced, Finished
<1>6. NeverUp
  <2>1. SUFFICES ASSUME Forked, Loopless, NEW f \in Flows, f[2] \in visited
                 PROVE  Row(f[2]) >= Row(f[1])
    BY DEF NeverUp, Flows
  <2>2. Above(grid, Anchor(f[1]), f[2]) /\ Anchor(f[2]) = f[2]
    BY <1>2, <2>1, FlowIs DEF WInv, Downward, Known
  <2>3. PICK r \in DOMAIN grid, q \in DOMAIN grid :
            In(grid, Anchor(f[1]), r) /\ In(grid, f[2], q) /\ r <= q
    BY <2>2 DEF Above
  <2>4. Find(grid, Anchor(f[1]))[1] = r /\ Find(grid, Anchor(f[2]))[1] = q
    <3>1. grid \in Grids(U)
      BY <1>3, <2>3
    <3>2. PICK i \in 1..Len(grid[r]) : Find(grid, Anchor(f[1])) = <<r, i>>
      BY <2>3, <3>1, FindIn
    <3>3. PICK j \in 1..Len(grid[q]) : Find(grid, f[2]) = <<q, j>>
      BY <2>3, <3>1, FindIn
    <3>4. QED
      BY <2>2, <3>2, <3>3
  <2>5. Row(f[1]) = r /\ Row(f[2]) = q
    BY <2>4 DEF Row, Anchor
  <2>6. r \in Nat /\ q \in Nat
    BY <1>3, <2>3
  <2>7. QED
    BY <2>3, <2>5, <2>6
<1>7. QED
  BY <1>5, <1>6 DEF ForkLaidOut

-----------------------------------------------------------------------------
(* The theorems.                                                           *)
LEMMA NextKeeps == ASSUME IInv, [Next]_vars PROVE IInv'
<1>1. CASE Start BY <1>1, StartStep
<1>2. CASE Drained BY <1>2, DrainedStep
<1>3. CASE Finish BY <1>3, FinishStep
<1>4. CASE Take BY <1>4, TakeStep
<1>5. CASE AlignRow BY <1>5, AlignRowStep
<1>6. CASE FanOut BY <1>6, FanOutStep
<1>7. CASE Target BY <1>7, TargetStep
<1>8. CASE Attach BY <1>8, AttachStep
<1>9. CASE AttachedTarget BY <1>9, AttachedTargetStep
<1>10. CASE Handled BY <1>10, HandledStep
<1>11. CASE UNCHANGED vars
  <2>1. /\ UNCHANGED <<process, outgoing, grid, visited, stack, pc, rescued>>
        /\ UNCHANGED <<current, index, previous, next, attached, below>>
    BY <1>11 DEF vars, handling
  <2>2. TypeOK'
    BY <2>1, NodesKept DEF IInv, TypeOK, Phases
  <2>3. QED
    BY <2>1, <2>2 DEF IInv, Waiting, Walking, Handling
<1>12. QED
  BY <1>1, <1>2, <1>3, <1>4, <1>5, <1>6, <1>7, <1>8, <1>9, <1>10, <1>11 DEF Next

(* One more step of the layout, where the paths of the process only part.  *)
LEMMA NextLays == ASSUME IInv, WInv, [Next]_vars PROVE WInv'
<1>1. CASE Start BY <1>1, WStartStep
<1>2. CASE Drained BY <1>2, WDrainedStep
<1>3. CASE Finish BY <1>3, WFinishStep
<1>4. CASE Take BY <1>4, WTakeStep
<1>5. CASE AlignRow BY <1>5, WAlignRowStep
<1>6. CASE FanOut BY <1>6, WFanOutStep
<1>7. CASE Target BY <1>7, WTargetStep
<1>8. CASE Attach BY <1>8, WAttachStep
<1>9. CASE AttachedTarget BY <1>9, WAttachedTargetStep
<1>10. CASE Handled BY <1>10, WHandledStep
<1>11. CASE UNCHANGED vars
  <2>1. /\ UNCHANGED <<process, outgoing, grid, visited, stack, pc, rescued>>
        /\ UNCHANGED <<current, index, previous, next, attached, below>>
    BY <1>11 DEF vars, handling
  <2>2. Finished' /\ (Forked => Progress')
    BY <2>1, ShapeKept DEF WInv, Finished, Progress
  <2>3. ASSUME Forked, Loopless PROVE Covering' /\ Hosted' /\ Rooted'
    <3>1. Covering /\ Rooted /\ Hosted
      BY <2>3 DEF WInv
    <3>2. Covering'
      BY <2>1, <3>1, ShapeKept DEF Covering, Pending, Covered, Handling
    <3>3. Rooted'
      BY <2>1, <3>1, ShapeKept DEF Rooted
    <3>4. Hosted'
      BY <2>1, <3>1, ShapeKept DEF Hosted
    <3>5. QED
      BY <3>2, <3>3, <3>4
  <2>4. QED
    BY <2>1, <2>2, <2>3, SameGrid, Walked
<1>12. QED
  BY <1>1, <1>2, <1>3, <1>4, <1>5, <1>6, <1>7, <1>8, <1>9, <1>10, <1>11 DEF Next

(* What comes to wait: the first nodes of a round, the missing node that   *)
(* is added, and targets that are not visited.                             *)
LEMMA TakenAnew == ASSUME IInv, [Next]_vars PROVE OnlyLostAgain
<1>1. Listed(stack, visited)
  BY DEF IInv, Waiting
<1>2. CASE Start
  <2>1. pc' = "drain" /\ stack' = InOrder(Starting) /\ Starting \cap visited = {} /\ Starting \subseteq FlowNodes
    BY <1>2 DEF Start, Starting
  <2>2. ToSet(stack') = Starting
    <3>1. Starting \subseteq Node
      BY <2>1 DEF FlowNodes
    <3>2. ToSet(InOrder(Starting)) = Starting
      BY <3>1, InOrderIs
    <3>3. QED
      BY <2>1, <3>2
  <2>3. QED
    BY <2>1, <2>2 DEF OnlyLostAgain, InHand
<1>3. CASE Drained
  <2>1. CASE ~rescued /\ Missing # {}
    <3>1. Missing \in SUBSET Nat
      BY NodeAssumption DEF Missing, FlowNodes
    <3>2. Min(Missing) \in Missing
      BY <2>1, <3>1, MinIs
    <3>3. ToSet(stack') = {Min(Missing)} /\ pc' = "drain"
      BY <1>3, <2>1, <3>2, ListedOne DEF Drained
    <3>4. QED
      BY <3>2, <3>3 DEF OnlyLostAgain, InHand, Missing
  <2>2. CASE ~(~rescued /\ Missing # {})
    <3>1. stack' = stack /\ pc' = "start"
      BY <1>3, <2>2 DEF Drained
    <3>2. QED
      BY <3>1 DEF OnlyLostAgain, InHand
  <2>3. QED
    BY <2>1, <2>2
<1>4. CASE Take
  <2>1. pc = "drain" /\ pc' = "row" /\ stack # <<>> /\ stack' = Front(stack)
    BY <1>4 DEF Take
  <2>2. ToSet(Front(stack)) \subseteq ToSet(stack)
    <3>1. stack \in Seq(visited) /\ Len(stack) \in Nat \ {0} /\ DOMAIN stack = 1..Len(stack)
      BY <1>1, <2>1 DEF Listed
    <3>2. \A i \in DOMAIN Front(stack) : i \in DOMAIN stack /\ Front(stack)[i] = stack[i]
      BY <3>1 DEF Front
    <3>3. QED
      BY <3>2 DEF ToSet
  <2>3. QED
    BY <2>1, <2>2 DEF OnlyLostAgain, InHand
<1>5. CASE AlignRow \/ Finish
  <2>1. stack' = stack /\ pc' \in {"fan out", "done"}
    BY <1>5 DEF AlignRow, Finish, handling
  <2>2. QED
    BY <2>1 DEF OnlyLostAgain, InHand
<1>6. CASE FanOut
  <2>1. stack' = stack /\ next' = <<>> /\ below' = <<>>
    BY <1>6 DEF FanOut
  <2>2. QED
    BY <2>1, ToSetEmpty DEF OnlyLostAgain, InHand
<1>7. CASE Target
  <2>1. pc = "targets" /\ pc' = pc /\ stack' = stack /\ below' = below
    BY <1>7 DEF Target
  <2> DEFINE target == outgoing[current][index]
  <2>2. CASE next' = next
    BY <2>1, <2>2 DEF OnlyLostAgain, InHand
  <2>3. CASE next' # next
    <3>1. next' = Cons(target, next) /\ target \notin visited
      BY <1>7, <2>3 DEF Target, Seen
    <3>2. \A n \in ToSet(next') : n = target \/ n \in ToSet(next)
      <4>1. next \in Seq(visited)
        BY <2>1 DEF IInv, Waiting, Listed
      <4>2. ToSet(<<target>> \o next) = ToSet(<<target>>) \cup ToSet(next) /\ ToSet(<<target>>) = {target}
        <5>1. <<target>> \in Seq({target} \cup visited) /\ next \in Seq({target} \cup visited)
          BY <4>1
        <5>2. ToSet(<<target>> \o next) = ToSet(<<target>>) \cup ToSet(next)
          BY <5>1, ConcatSet
        <5>3. ToSet(<<target>>) = {target}
          BY ListedOne
        <5>4. QED
          BY <5>2, <5>3
      <4>3. QED
        BY <3>1, <4>2 DEF Cons
    <3>3. QED
      BY <2>1, <3>1, <3>2 DEF OnlyLostAgain, InHand
  <2>4. QED
    BY <2>2, <2>3
<1>8. CASE Attach
  <2>1. pc = "targets" /\ pc' = "attached" /\ stack' = stack /\ below' = below /\ next' = GatewaysFirst(next)
    BY <1>8 DEF Attach
  <2>2. Listed(GatewaysFirst(next), ToSet(next))
    <3>1. Listed(next, visited)
      BY <2>1 DEF IInv, Waiting
    <3>2. QED
      BY <3>1, GatewaysFirstIs
  <2>3. ToSet(next') \subseteq ToSet(next)
    BY <2>1, <2>2, ToSetIs DEF Listed
  <2>4. QED
    BY <2>1, <2>3 DEF OnlyLostAgain, InHand
<1>9. CASE AttachedTarget
  <2>1. pc = "attached" /\ stack' = stack /\ next' = next
    BY <1>9 DEF AttachedTarget
  <2> DEFINE target == Head(attached)
  <2>2. CASE below' = below
    BY <2>1, <2>2 DEF OnlyLostAgain, InHand
  <2>3. CASE below' # below
    <3>1. below' = Append(below, target) /\ target \notin visited
      BY <1>9, <2>3 DEF AttachedTarget, Seen
    <3>2. below \in Seq(visited \cup {target})
      <4>1. below \in Seq(visited)
        BY <2>1 DEF IInv, Waiting, Listed
      <4>2. QED
        BY <4>1
    <3>3. ToSet(below') = ToSet(below) \cup {target}
      BY <3>1, <3>2, AppendSet
    <3>4. QED
      BY <2>1, <3>1, <3>3 DEF OnlyLostAgain, InHand
  <2>4. QED
    BY <2>2, <2>3
<1>10. CASE Handled
  <2>1. pc = "attached" /\ pc' = "drain" /\ stack' = stack \o next \o below
    BY <1>10 DEF Handled
  <2>2. stack \in Seq(visited) /\ next \in Seq(visited) /\ below \in Seq(visited)
    BY <2>1 DEF IInv, Waiting, Listed
  <2>3. PICK front : front = stack \o next
    OBVIOUS
  <2>4. front \in Seq(visited) /\ ToSet(front) = ToSet(stack) \cup ToSet(next)
    <3>1. front \in Seq(visited)
      BY <2>2, <2>3
    <3>2. ToSet(stack \o next) = ToSet(stack) \cup ToSet(next)
      BY <2>2, ConcatSet
    <3>3. QED
      BY <2>3, <3>1, <3>2
  <2>5. ToSet(stack') = ToSet(stack) \cup ToSet(next) \cup ToSet(below)
    <3>1. stack' = front \o below
      BY <2>1, <2>3
    <3>2. ToSet(front \o below) = ToSet(front) \cup ToSet(below)
      BY <2>2, <2>4, ConcatSet
    <3>3. QED
      BY <2>4, <3>1, <3>2
  <2>6. QED
    BY <2>1, <2>5 DEF OnlyLostAgain, InHand
<1>11. CASE UNCHANGED vars
  <2>1. UNCHANGED <<stack, pc, next, below>>
    BY <1>11 DEF vars, handling
  <2>2. QED
    BY <2>1 DEF OnlyLostAgain, InHand
<1>12. QED
  BY <1>2, <1>3, <1>4, <1>5, <1>6, <1>7, <1>8, <1>9, <1>10, <1>11 DEF Next

(* At every step of the walk, for any nodes, any flows between them, loops *)
(* included, and any boundary events: a node that waits for its handlers   *)
(* waits in one place, what is placed or waits is visited, a node that is  *)
(* taken up again was in no cell, and the cell the attacher handler        *)
(* chooses is free, so the layout error for an occupied one is never       *)
(* raised there.                                                           *)
THEOREM WalkStaysSafe == Spec => WalkSafe
<1>1. Init => IInv
  BY InitHolds
<1>2. IInv /\ [Next]_vars => IInv'
  BY NextKeeps
<1>3. IInv => TypeOK /\ WaitOnce /\ NeverOccupied
  BY Safe
<1>4. IInv /\ [Next]_vars => [OnlyLostAgain]_vars
  BY TakenAnew
<1>5. QED
  BY <1>1, <1>2, <1>3, <1>4, PTL DEF Spec, WalkSafe

(* Where the paths of a process only part, at every step of the walk: every *)
(* node that is reached is in exactly one cell, whatever rows and columns  *)
(* the handlers have inserted or shifted since; no node is left out at the *)
(* end; and without loops no target is ever above its source, or above the *)
(* host of its source.                                                     *)
THEOREM ForksLaidOut == Spec => []ForkLaidOut
<1>1. Init => IInv /\ WInv
  BY InitHolds, WInitHolds
<1>2. IInv /\ WInv /\ [Next]_vars => IInv' /\ WInv'
  BY NextKeeps, NextLays
<1>3. IInv /\ WInv => ForkLaidOut
  BY LaidOut
<1>4. QED
  BY <1>1, <1>2, <1>3, PTL DEF Spec
=============================================================================
