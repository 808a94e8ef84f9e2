SPECIFICATION Spec
CONSTANTS
    c1 = c1
    c2 = c2
    Calls = {c1, c2}
    Documents <- MCDocuments
    NoDocument <- MCNoDocument
    Descriptor <- MCDescriptor
    Supers <- MCSupers
    Limits <- MCLimits
    Units <- MCUnits
    ReservedNames = {"get"}
    Prefixed = {"x:e"}
    Malformed = {"9"}
    Numerals = {"1", "2", "12"}
    Unclean = {"dirty"}
    Sources <- MCSources
    NoSources <- MCNoSources
    Natives <- MCNatives
    XmlLimits <- MCXmlLimits
    XmlUri = "xml-uri"
    ReservedAttributes = {"get"}
INVARIANTS
    RoundTrip
    HydrateSound
    GateComplete
    BoundaryFaithful
CHECK_DEADLOCK FALSE
