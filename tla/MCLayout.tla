------------------------------ MODULE MCLayout ------------------------------
(* Processes for Layout.  The last node is a boundary event of the first,  *)
(* the one before it is always a task.                                     *)
EXTENDS Layout

CONSTANTS MaxFlows,    \* bound: flows, when they are arbitrary
          Few,         \* bound: the nodes arbitrary flows connect
          Forks        \* whether forked processes on all nodes are included

Event == Max(Node)
Flow == (Few \cup {Event}) \X Few

(* Any flows at all, in any order of the document, up to a number.         *)
AnyFlows == {flows \in UNION {[1..n -> Flow] : n \in 0..MaxFlows} : IsInjective(flows)}

(* At most one source for every node.                                      *)
ForkedFlows ==
    {SelectSeq([t \in 1..(Event - 1) |-> <<source[t], t>>], LAMBDA f : f[1] # None) :
        source \in [1..(Event - 1) -> Node \cup {None}]}

MCProcesses ==
    [kind : {k \in [Node -> {"task", "gateway"}] : \A n \in {Event, Event - 1} : k[n] = "task"},
     host : {[n \in Node |-> IF n = Event THEN Min(Node) ELSE None]},
     flows : IF Forks THEN AnyFlows \cup ForkedFlows ELSE AnyFlows]
=============================================================================
