SPECIFICATION MCSpec
CONSTANTS
    d1 = d1
    d2 = d2
    ka = ka
    kb = kb
    Daemon <- MCTwo
    Key <- MCKey
    MinPeers = 20
    Peers <- MCPeers
    File <- MCFile
    MaxInfos = 3
    MaxIdents = 3
    iwp = iwp
    iwp2 = iwp2
    ntcp = ntcp
    ssu = ssu
    tor = tor
    NoImpl = NoImpl
    Slots = 3
    Impl <- MCImpl
    NameOf <- MCNameOf
    Buckets = 2
    Tids = {0, 1, 2, 4}
    Tunnel = {t1, t2}
    MaxPuts = 4
    Words = {"a"}
    Chunks <- MCChunks
    MaxEdits = 3
    MaxStarts = 2
    LineMax = 9
    Homes <- MCHomes
CHECK_DEADLOCK FALSE
INVARIANTS
    MemoryAgrees
    LeaksAreUnopened
    IdentityOutlivesUse
    AdjacentCopies
    FreedAsTaken
    FirstLineWins
    OwnFileLoads
PROPERTIES
    KeysStay
    ImplementsSet
    FirstStays
