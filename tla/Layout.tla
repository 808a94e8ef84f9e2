------------------------------- MODULE Layout -------------------------------
(***************************************************************************)
(* The grid walk of bpmn_io/auto_layout/layouter.py (create_grid_layout    *)
(* and handle_grid) with the add_to_grid handlers it calls.                *)
(*                                                                         *)
(* The flow nodes of one process are visited depth first, and placed in a  *)
(* grid.  The handlers of a node share the grid, the set of visited nodes  *)
(* and the stack: the incoming handler moves the node itself, the outgoing *)
(* handler places the targets of its flows, the attacher handler those of  *)
(* the flows of its boundary events.  A node is an integer; the order of   *)
(* the integers is the order of the document.  The sources and targets the *)
(* document lists for a node are those of the sequence flows.              *)
(***************************************************************************)
EXTENDS Grid

CONSTANTS
    Node,       \* the flow nodes, a set of positive integers
    Processes   \* the processes to lay out: [kind, host, flows]

ASSUME NodeAssumption == Node \subseteq Nat \ {0} /\ IsFiniteSet(Node) /\ None \notin Node
Process ==
    [kind : [Node -> {"task", "gateway"}], host : [Node -> Node \cup {None}],
     flows : Seq(Node \X Node)]

ASSUME ProcessesAssumption ==
    \A p \in Processes :
        /\ p \in Process
        /\ \A n \in Node : p.host[n] # None => p.host[p.host[n]] = None
        /\ \A i \in DOMAIN p.flows : p.host[p.flows[i][2]] = None

VARIABLES
    process,   \* the process: never changes
    outgoing,  \* the targets of each node; the attacher handler reverses them
    grid,
    visited,
    stack,     \* the nodes whose handlers are still to run
    pc,        \* where the walk is (see Phases)
    rescued,   \* the missing node of this round has been added
    current,   \* the node being handled
    index,     \* the next of its targets
    previous,  \* the target placed last
    next,      \* next_elements of the outgoing handler
    attached,  \* the targets left to the attacher handler
    below      \* next_elements of the attacher handler

handling == <<current, index, previous, next, attached, below>>
vars == <<process, outgoing, grid, visited, stack, pc, rescued, handling>>

-----------------------------------------------------------------------------
Boundary == {n \in Node : process.host[n] # None}
FlowNodes == Node \ Boundary
Gateway(n) == n \notin Boundary /\ process.kind[n] = "gateway"
Task(n) == n \notin Boundary /\ process.kind[n] = "task"

(* Comprehensions keep the order of what they filter, and a list of nodes  *)
(* is in the order of the document.                                        *)
Only(nodes, wanted) ==
    FoldLeft(LAMBDA kept, n : IF n \in wanted THEN Append(kept, n) ELSE kept, <<>>, nodes)
Document == [n \in 1..Max(Node \cup {0}) |-> n]
InOrder(nodes) == Only(Document, nodes)
Outgoing(n) ==
    FoldLeft(LAMBDA ends, f : IF f[1] = n THEN Append(ends, f[2]) ELSE ends, <<>>, process.flows)
Sources(n) == {f[1] : f \in {f \in ToSet(process.flows) : f[2] = n}}
Several(n) ==
    \E i, j \in DOMAIN process.flows : i < j /\ process.flows[i][2] = n /\ process.flows[j][2] = n
Attachers(n) == {b \in Boundary : process.host[b] = n}

(* find_element_in_tree                                                    *)
Reaches(n, target) ==
    \A S \in SUBSET Node :
        n \in S /\ (\A f \in ToSet(process.flows) : f[1] \in S => f[2] \in S) => target \in S

(* _is_future_incoming and _check_for_loop: the first source that is not   *)
(* visited yet decides whether waiting for it would be a loop.             *)
IsFutureIncoming(n, seen) ==
    Several(n) /\ Sources(n) \ seen # {}
CheckForLoop(n, seen) ==
    LET first == SelectInSeq(process.flows, LAMBDA f : f[2] = n /\ f[1] \notin seen) IN
    Reaches(n, process.flows[first][1])

HasOtherIncoming(n) == \E s \in Sources(n) : s # n /\ process.host[s] # n

-----------------------------------------------------------------------------
Init ==
    /\ process \in Processes
    /\ outgoing = [n \in Node |-> Outgoing(n)]
    /\ grid = <<>> /\ visited = {} /\ stack = <<>>
    /\ pc = "start" /\ rescued = FALSE
    /\ current = None /\ index = 1 /\ previous = None
    /\ next = <<>> /\ attached = <<>> /\ below = <<>>

(* One round of create_grid_layout: the nodes nobody leads to start it.    *)
Starting == {n \in FlowNodes \ visited : ~HasOtherIncoming(n)}

Start ==
    /\ pc = "start" /\ Cardinality(visited) < Cardinality(FlowNodes)
    /\ LET starting == InOrder(Starting) IN
       /\ stack' = starting
       /\ grid' = grid \o [i \in DOMAIN starting |-> <<starting[i]>>]
    /\ visited' = visited \cup Starting
    /\ pc' = "drain" /\ rescued' = FALSE
    /\ UNCHANGED <<process, outgoing, handling>>

(* The stack is empty: once in a round, a node that is in no cell is added,*)
(* and the walk goes on from there.                                        *)
MarkOnlyPlaced(n) == visited \* mutant: the added node is not marked
Mark(n) == visited \cup {n}

NoneMissing == {} \* mutant: no node is ever found missing
Missing == FlowNodes \ Placed(grid)

Drained ==
    /\ pc = "drain" /\ stack = <<>>
    /\ IF ~rescued /\ Missing # {}
       THEN /\ stack' = <<Min(Missing)>>
            /\ grid' = AddRow(grid, Min(Missing))
            /\ visited' = Mark(Min(Missing))
            /\ rescued' = TRUE
            /\ UNCHANGED pc
       ELSE pc' = "start" /\ UNCHANGED <<stack, grid, visited, rescued>>
    /\ UNCHANGED <<process, outgoing, handling>>

Finish ==
    /\ pc = "start" /\ Cardinality(visited) >= Cardinality(FlowNodes)
    /\ pc' = "done"
    /\ UNCHANGED <<process, outgoing, grid, visited, stack, rescued, handling>>

-----------------------------------------------------------------------------
(* handle_grid takes a node, and the incoming handler moves it right, ...   *)
Take ==
    /\ pc = "drain" /\ stack # <<>>
    /\ LET n == Last(stack) IN
       /\ current' = n
       /\ grid' = IF Several(n) THEN AdjustColumn(grid, Sources(n), n) ELSE grid
    /\ stack' = Front(stack)
    /\ pc' = "row"
    /\ UNCHANGED <<process, outgoing, visited, rescued, index, previous, next, attached, below>>

(* ... then up.                                                            *)
AlignRow ==
    /\ pc = "row"
    /\ grid' = IF Several(current) THEN AdjustRow(grid, Sources(current), current) ELSE grid
    /\ pc' = "fan out"
    /\ UNCHANGED <<process, outgoing, visited, stack, rescued, handling>>

(* What the outgoing handler does first.                                   *)
FanOut ==
    /\ pc = "fan out"
    /\ grid' = IF Len(outgoing[current]) > 1 /\ \A t \in ToSet(outgoing[current]) : Task(t)
               THEN AdjustGridPosition(grid, current) ELSE grid
    /\ index' = 1 /\ previous' = None /\ next' = <<>> /\ below' = <<>>
    /\ pc' = "targets"
    /\ UNCHANGED <<process, outgoing, visited, stack, rescued, current, attached>>

(* The outgoing handler, one target at a time.                             *)
Waits(target) ==
    /\ previous # None \/ stack # <<>>
    /\ IsFutureIncoming(target, visited) /\ ~CheckForLoop(target, visited)

SeenNever(n) == FALSE \* mutant: a target is placed again
Seen(n) == n \in visited

(* After the node, after the last gateway, or below the target before it.  *)
Place(target) ==
    IF previous = None THEN AddAfter(grid, current, target)
    ELSE IF Gateway(current) /\ Gateway(target) THEN AddAfter(grid, previous, target)
    ELSE AddBelow(grid, outgoing[current][index - 1], target)

Target ==
    /\ pc = "targets" /\ index <= Len(outgoing[current])
    /\ LET target == outgoing[current][index] IN
       IF Seen(target) \/ Waits(target)
       THEN UNCHANGED <<grid, visited, previous, next>>
       ELSE /\ grid' = Place(target)
            /\ previous' = IF target = current THEN previous ELSE target
            /\ next' = Cons(target, next)
            /\ visited' = visited \cup {target}
    /\ index' = index + 1
    /\ UNCHANGED <<process, outgoing, stack, pc, rescued, current, attached, below>>

(* Gateways before the others; then the attachers, whose own targets are   *)
(* reversed for good.                                                      *)
GatewaysFirst(nodes) ==
    LET gateways == {n \in Node : Gateway(n)} IN
    Only(nodes, gateways) \o Only(nodes, Node \ gateways)
ReversedTargets(hosts) == FoldLeft(LAMBDA all, n : all \o Reverse(outgoing[n]), <<>>, hosts)

Attach ==
    /\ pc = "targets" /\ index > Len(outgoing[current])
    /\ next' = GatewaysFirst(next)
    /\ LET attachers == InOrder(Attachers(current)) IN
       /\ outgoing' = [n \in Node |-> IF n \in ToSet(attachers) THEN Reverse(outgoing[n])
                                                                ELSE outgoing[n]]
       /\ attached' = ReversedTargets(attachers)
    /\ pc' = "attached"
    /\ UNCHANGED <<process, grid, visited, stack, rescued, current, index, previous, below>>

(* The attacher handler: below the host and to the right of it.            *)
RowTaken(host) ==
    LET pos == Find(grid, host) IN
    \/ Get(grid, pos[1] + 1, pos[2]) # None
    \/ Get(grid, pos[1] + 1, pos[2] + 1) # None

AttachedTarget ==
    /\ pc = "attached" /\ attached # <<>>
    /\ LET target == Head(attached)
           pos == Find(grid, current)
           rows == IF RowTaken(current) THEN CreateRow(grid, pos[1]) ELSE grid
           cell == <<pos[1] + 1, pos[2] + 1>> IN
       IF Seen(target)
       THEN UNCHANGED <<grid, visited, below, pc>>
       ELSE IF Refused(rows, cell, target)
       THEN pc' = "failed" /\ UNCHANGED <<grid, visited, below>>
       ELSE /\ grid' = AddAt(rows, cell, target)
            /\ visited' = visited \cup {target}
            /\ below' = Append(below, target)
            /\ UNCHANGED pc
    /\ attached' = Tail(attached)
    /\ UNCHANGED <<process, outgoing, stack, rescued, current, index, previous, next>>

Handled ==
    /\ pc = "attached" /\ attached = <<>>
    /\ stack' = stack \o next \o below
    /\ visited' = visited \cup ToSet(next) \cup ToSet(below)
    /\ pc' = "drain"
    /\ UNCHANGED <<process, outgoing, grid, rescued, handling>>

Next == Start \/ Drained \/ Finish \/ Take \/ AlignRow \/ FanOut \/ Target \/ Attach \/ AttachedTarget \/ Handled

(* The walk is one call: it goes on until it returns.                      *)
Spec == Init /\ [][Next]_vars /\ WF_vars(Next)

-----------------------------------------------------------------------------
(* Properties *)

Targets == Seq(FlowNodes)
Phases == {"start", "drain", "row", "fan out", "targets", "attached", "done", "failed"}

(* Every variable has its type.                                            *)
TypeOK ==
    /\ process \in Process
    /\ outgoing \in [Node -> Targets]
    /\ grid \in Seq(Seq(FlowNodes \cup {None}))
    /\ visited \subseteq FlowNodes /\ stack \in Targets
    /\ pc \in Phases
    /\ rescued \in BOOLEAN
    /\ current \in FlowNodes \cup {None} /\ previous \in FlowNodes \cup {None}
    /\ index \in Nat \ {0}
    /\ next \in Targets /\ attached \in Targets /\ below \in Targets

Once(n) == Cardinality({pos \in Occupied(grid) : Cell(grid, pos) = n}) = 1

(* No flow node has two sources: the paths of the process only part.       *)
Forked == \A n \in Node : ~Several(n)

(* What waits on the stack or in the lists of the handlers is visited, and *)
(* waits in one place at a time.                                           *)
WaitOnce ==
    LET waiting == stack \o (IF pc \in {"targets", "attached"} THEN next \o below ELSE <<>>) IN
    /\ IsInjective(waiting)
    /\ ToSet(waiting) \cup Placed(grid) \subseteq visited

(* When the paths of a process only part, every node it has reached is in  *)
(* exactly one cell, at every step of the walk and at its end.             *)
ForkPlaced ==
    Forked => /\ \A n \in visited : Once(n)
              /\ pc = "done" => visited = FlowNodes

(* In such a process without loops, a flow never leads up: a target is in  *)
(* the row of its source, or of its host, or below it.                     *)
Links == ToSet(process.flows) \cup {<<process.host[b], b>> : b \in Boundary}
Loopless == \A S \in SUBSET Node \ {{}} : \E n \in S : \A m \in S : <<n, m>> \notin Links
Row(n) == Find(grid, IF n \in Boundary THEN process.host[n] ELSE n)[1]
NeverUp ==
    Forked /\ Loopless =>
        \A f \in ToSet(process.flows) :
            f[2] \in visited /\ Row(f[1]) # 0 => Row(f[2]) >= Row(f[1])

(* The insertion place of a boundary target is free: the layout error for  *)
(* an occupied cell is not reached.                                        *)
NeverOccupied == pc # "failed"

(* A node is taken up again only when the walk has lost it: what comes to  *)
(* wait was not visited before, or is in no cell.                          *)
InHand == ToSet(stack) \cup (IF pc \in {"targets", "attached"} THEN ToSet(next) \cup ToSet(below) ELSE {})
OnlyLostAgain == \A n \in InHand' \ InHand : n \notin visited \/ n \notin Placed(grid)

(* A node that waits for its handlers waits in one place, none that has a  *)
(* cell comes to wait a second time, and for each there is room.           *)
WalkSafe == [](TypeOK /\ WaitOnce /\ NeverOccupied) /\ [][OnlyLostAgain]_vars

(* A process whose paths only part is laid out whole, and downwards.       *)
ForkLaidOut == ForkPlaced /\ NeverUp

(* The walk ends, whatever waits for whatever else in the process.         *)
Terminates == <>(pc = "done")

(* Every flow node gets its cell (README.md: a layout, or LayoutError).    *)
AllPlaced == pc = "done" => \A n \in FlowNodes : n \in Placed(grid)
=============================================================================
