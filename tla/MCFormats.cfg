SPECIFICATION MCSpec
CONSTANTS
    Key <- MCKey
    MaxNodes = 4
    Chunk <- MCChunk
    MaxChunks = 5
    Object <- MCObject
    Depth = 2
    FirstRoom = 2
    Value <- MCValue
    TextOf <- Text
    Symbol <- MCSymbol
    MaxFree = 7
    KeyLen = 4
    DataMax = 12
    PubKeys <- MCPubKeys
    Wire <- MCWire
    MaxBytes = 6
    MaxText = 8
CHECK_DEADLOCK FALSE
INVARIANTS
    SortedOrCircular
    CrashForLargest
    ReadWithinFile
    ReportsValue
    EntersAreOpen
    WritesInRoom
    PlainHashIsOfSource
    OwnTextIsAccepted
    EncodesInDigits
    DecodeInverts
PROPERTIES
    CallsEnd
