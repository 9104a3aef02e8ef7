SPECIFICATION Spec
CONSTANTS
    n1 = n1
    n2 = n2
    n3 = n3
    n4 = n4
    Ids <- MCIds
    MaxTime = 4
    Pages <- MCPages
    Limits <- MCLimits
SYMMETRY Interchangeable
INVARIANTS
    TypeOK
    NoneSkipped
    FewRepeats
    NextPageExists
    MetadataExact
