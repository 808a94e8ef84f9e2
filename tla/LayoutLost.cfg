SPECIFICATION Spec
CONSTANTS
    None = None
    Node = {1, 2, 3, 4, 5}
    Few = {1, 2, 3}
    MaxFlows = 4
    Forks = FALSE
    Processes <- MCProcesses
INVARIANTS
    AllPlaced
CHECK_DEADLOCK FALSE
