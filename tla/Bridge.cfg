SPECIFICATION Spec
SYMMETRY Alike
CONSTANTS
    Client = {c1, c2}
    Identity = {identity}
    Tree = {tree1, tree2}
    Di = {none, di}
    Context = {descriptors}
    None = None
    Tampers = {"given"}
    MaxObjects = 6
INVARIANTS
    EnvelopesValid
PROPERTIES
    GuardedUpdate
    Implements
CHECK_DEADLOCK FALSE
