-------------------------------- MODULE Grid --------------------------------
(***************************************************************************)
(* The placement grid of bpmn_io/auto_layout/grid.py.                      *)
(*                                                                         *)
(* A grid is a sequence of rows, a row a sequence of cells: elements, or   *)
(* None.  Positions count from 1, so that position 0 is the -1 which find  *)
(* returns for an element that is not in the grid, and which then indexes  *)
(* the last row, or the last cell of a row, as a negative index of a list  *)
(* does.                                                                   *)
(***************************************************************************)
EXTENDS Naturals, Sequences, FiniteSets, SequencesExt, FiniteSetsExt

CONSTANT None   \* an empty cell

Nowhere == <<0, 0>>
At(len, i) == IF i = 0 THEN len ELSE i

Positions(g) == UNION {{r} \X DOMAIN g[r] : r \in DOMAIN g}
Cell(g, pos) == g[pos[1]][pos[2]]
Occupied(g) == {pos \in Positions(g) : Cell(g, pos) # None}
Placed(g) == {Cell(g, pos) : pos \in Occupied(g)}

(* Row by row, the first cell that holds e.                                *)
Find(g, e) ==
    LET row == SelectInSeq(g, LAMBDA cells : e \in ToSet(cells)) IN
    IF row = 0 THEN Nowhere ELSE <<row, SelectInSeq(g[row], LAMBDA c : c = e)>>

Get(g, row, col) == IF <<row, col>> \in Positions(g) THEN g[row][col] ELSE None

Pad(cells, len) == cells \o [i \in 1..(IF len > Len(cells) THEN len - Len(cells) ELSE 0) |-> None]

(* A cell is written, in a row made long enough for it.                    *)
Write(g, row, col, e) ==
    [g EXCEPT ![At(Len(g), row)] = [Pad(@, col) EXCEPT ![At(Len(Pad(@, col)), col)] = e]]

AddRow(g, e) == Append(g, <<e>>)
CreateRow(g, after) == InsertAt(g, after + 1, <<>>)

AddAfter(g, element, e) ==
    LET pos == Find(g, element) IN
    [g EXCEPT ![At(Len(g), pos[1])] = InsertAt(@, pos[2] + 1, e)]

(* A row is inserted only when the cell below is taken.                    *)
RoomBelow(g, row, col) ==
    IF row + 1 > Len(g) THEN Append(g, <<>>)
    ELSE IF Get(g, row + 1, col) # None THEN CreateRow(g, row)
    ELSE g
AddBelow(g, element, e) ==
    LET pos == Find(g, element) IN
    Write(RoomBelow(g, pos[1], pos[2]), pos[1] + 1, pos[2], e)

(* grid.add at a position: the first cell of all is special (a row is      *)
(* added as well); an occupied cell is an error.                           *)
AddAt(g, pos, e) ==
    LET started == IF pos = <<1, 1>> THEN AddRow(g, e) ELSE g
        rows == started \o [i \in 1..(pos[1] - Len(started)) |-> <<>>] IN
    Write(rows, pos[1], pos[2], e)
Refused(g, pos, e) ==
    Get(IF pos = <<1, 1>> THEN AddRow(g, e) ELSE g, pos[1], pos[2]) # None

MaxCols(g) == Max({Len(g[row]) : row \in DOMAIN g} \cup {0})

(* A fan-out of tasks starts in a column of its own.                       *)
AdjustGridPosition(g, e) ==
    LET pos == Find(g, e)
        cols == MaxCols(g) IN
    IF pos[2] < cols
    THEN Write([g EXCEPT ![At(Len(g), pos[1])] = Append(Pad(@, cols), e)], pos[1], pos[2], None)
    ELSE g

(* An element with several sources moves to the right of all of them that  *)
(* are placed, ...                                                         *)
Move(g, e, pos, to) == Write(Write(g, to[1], to[2], e), pos[1], pos[2], None)

AdjustColumn(g, sources, e) ==
    LET pos == Find(g, e)
        cols == {Find(g, s)[2] : s \in sources} \ {0} IN
    IF cols # {} /\ Max(cols) + 1 > pos[2]
    THEN Move(g, e, pos, <<pos[1], Max(cols) + 1>>)
    ELSE g

(* ... and up to the topmost of them, if there is room.                    *)
AdjustRow(g, sources, e) ==
    LET pos == Find(g, e)
        rows == {Find(g, s)[1] : s \in sources} \ {0} IN
    IF rows # {} /\ Min(rows) < pos[1] /\ Get(g, Min(rows), pos[2]) = None
    THEN Move(g, e, pos, <<Min(rows), pos[2]>>)
    ELSE g
=============================================================================
