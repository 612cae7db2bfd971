SPECIFICATION MCSpec
CONSTANTS
    Sample <- MCSample
    Corner <- MCCorner
    MaxOps = 2
    Long <- MCLong
    Triples <- MCTriples
    Q = 37
    D = 2
    Root = 6
    Scale = {5}
    MaxCalls = 2
    Base <- MCBase
    Order = 40
    Tasks <- MCTasks
    L = 5
    Short = 8
    TopBit = 32
    Answer = {0, 9, 21}
    Message = {"m1", "m2"}
CHECK_DEADLOCK FALSE
INVARIANTS
    FieldAgrees
    OneString
    ChainMeets
    ScalarReduced
    PointsAdd
    StringsArePoints
    DigitsHaveEntries
    MultiplesAreReached
    OpensAsSigned
