SPECIFICATION Spec
CONSTANTS
    xmlns = xmlns
    p = p
    ns0 = ns0
    ns1 = ns1
    ns2 = ns2
    u1 = u1
    u2 = u2
    Prefix <- AllPrefixes
    Anon <- AnonPrefixes
    Uri = {u1, u2}
    Default = xmlns
    None = None
    Unset = Unset
    Outcome = {"return", "stop", "raise"}
    DocPrefix = {xmlns, p}
    Config <- NothingKnown
    MaxDecls = 2
    MaxTags = 3
    MaxDepth = 2
    MaxRuns = 2
SYMMETRY UriSymmetry
INVARIANTS
    ScopesAligned
    UndoLog
    CacheFresh
    AliasFaithful
PROPERTIES
    ErrorKept
CHECK_DEADLOCK FALSE
