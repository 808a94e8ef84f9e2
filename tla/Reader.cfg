SPECIFICATION Spec
CONSTANTS
    i1 = i1
    i2 = i2
    Id = {i1, i2}
    Illegal = Illegal
    None = None
    Shapes <- MCShapes
    MaxTags = 4
    MaxTexts = 2
    MaxWarnings = 2
INVARIANTS
    StackAligned
    IndexExact
    ReferencesResolved
PROPERTIES
    LossesKnown
CHECK_DEADLOCK FALSE
