SPECIFICATION NSpec
CONSTANTS
    k0 = k0
    k1 = k1
    k2 = k2
    r0 = r0
    r1 = r1
    r1b = r1b
    r2 = r2
    n0 = n0
    n1 = n1
    n2 = n2
    x = x
    NoRI = NoRI
    Ident <- MCIdent
    RI <- MCRI
    IdentOf <- MCIdentOf
    SlotOf <- MCSlotOf
    Buckets = 2
    Letters = 2
    File <- MCFile
    DirOf <- MCDirOf
    NodeFile <- MCNodeFile
    Parsable <- MCRI
    Contents <- MCMixed
INVARIANTS
    SkiplistComplete
    LoadAgreesWithDisk
    FlushDamage
