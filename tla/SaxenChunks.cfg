SPECIFICATION Spec
CONSTANTS
    xmlns = xmlns
    p = p
    ns0 = ns0
    ns1 = ns1
    ns2 = ns2
    u1 = u1
    u2 = u2
    Prefix <- AllPrefixes
    Anon <- AnonPrefixes
    Uri = {u1, u2}
    Default = xmlns
    None = None
    Unset = Unset
    Outcome = {"return"}
    DocPrefix = {xmlns, p}
    Config <- OneKnown
    MaxDecls = 1
    MaxTags = 4
    MaxDepth = 2
    MaxRuns = 1
INVARIANTS
    SameReading
CHECK_DEADLOCK FALSE
