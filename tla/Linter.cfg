SPECIFICATION Spec
CONSTANTS
    Texts <- MCTexts
    Published <- MCPublished
    Served <- MCServed
    Inputs <- MCInputs
    Root = "root"
    Properties <- MCProperties
    Generic = {"any"}
    MaxLints = 2
    RecursionLimit = 4
INVARIANTS
    CachesFaithful
    RulesFaithful
    WalkOrder
PROPERTIES
    Contained
    Answered
CHECK_DEADLOCK FALSE
