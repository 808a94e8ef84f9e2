SPECIFICATION Spec
CONSTANTS
    B = B
    D = D
    U = U
    V = V
    Xsi = Xsi
    NoUri = NoUri
    Default <- MCDefault
    Packages <- MCPackages
    Documents <- MCDocuments
INVARIANTS
    MemoFresh
    NamesResolve
    DeclaredOnce
    AttributesKept
CHECK_DEADLOCK FALSE
