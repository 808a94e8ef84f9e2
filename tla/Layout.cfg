SPECIFICATION Spec
CONSTANTS
    None = None
    Node = {1, 2, 3, 4, 5}
    Few = {1, 2, 3}
    MaxFlows = 3
    Forks = TRUE
    Processes <- MCProcesses
INVARIANTS
    ForkLaidOut
PROPERTIES
    WalkSafe
    Terminates
CHECK_DEADLOCK FALSE
