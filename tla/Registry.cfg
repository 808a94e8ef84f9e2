SPECIFICATION Spec
CONSTANTS
    Libraries <- MCLibraries
    BuiltIn = {"Element", "String"}
    MaxAttempts = 3
    MaxDescribed = 1
INVARIANTS
    VisitOrder
    ExtensionsLinked
    DescriptorsFaithful
CHECK_DEADLOCK FALSE
