SPECIFICATION FairSpec
CONSTANTS
    i0 = i0
    i1 = i1
    i2 = i2
    i3 = i3
    r0 = r0
    r1 = r1
    r1b = r1b
    r2 = r2
    r3 = r3
    NoRI = NoRI
    Ident <- MCIdent
    RI <- MCRI
    IdentOf <- MCIdentOf
    SlotOf <- MCSlotOf
    Buckets = 3
INVARIANTS
    NoDanglingRI
    NoIdentTwice
    ResidentsVisited
PROPERTIES
    ImplementsMap
    ForEachEnds
