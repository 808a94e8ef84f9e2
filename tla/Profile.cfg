SPECIFICATION Spec
CONSTANTS
    Qualified <- MCQualified
    Signatures <- MCSignatures
    Descriptors <- MCDescriptors
    HasContext = TRUE
    BaseRights <- MCBaseRights
    HasBase = TRUE
    IdOrder <- MCIdOrder
    Cased <- MCCased
    MaxRecursion = 8
    Recommended <- MCRecommended
    Canonical <- MCCanonical
    RuleOrder <- MCRuleOrder
    NameOrder <- MCNameOrder
    Decoded <- MCDecoded
    LoneTokens = {"lone"}
    BrokenTokens = {"broken"}
    SafeNumbers = {"n1"}
    UnsafeNumbers = {"big"}
    Words = {"true"}
    MaxDepth = 3
    Matches <- MCMatches
    MaxSchemaDepth = 12
    PresentationTypes <- MCPresentationTypes
    NotText = {"null"}
    Digests = {"D", "D2"}
    BindingOrder <- MCBindingOrder
    MaxProjectionDepth = 6
    MaxProjectionNodes = 40
    Versions <- MCVersions
    MaxLoads = 3
    Inputs <- MCInputs
INVARIANTS
    SourceOrder
    ResourcesClosed
    WriteAuthority
    CompiledRulesRun
    ReportFaithful
    LintedAsAccepted
    ProjectionConserves
    CompatibilityFair
CHECK_DEADLOCK FALSE
