SPECIFICATION Spec
CONSTANTS
    u1 = u1
    u2 = u2
    u3 = u3
    c1 = c1
    c2 = c2
    c3 = c3
    Users = {u1, u2, u3}
    Unified = {u2}
    Unset = {u1}
    Book <- SmallBook
    Cash = 5
    Marks = {4, 13}
    Leverage = 2
    BufferDiv = 40
    MmrDiv = 4
    LiqFeeDiv = 20
    InsFeeDiv = 20
    FundCapPct = 50
    FundSeed = 8
    MinCutPct = 1
    MaxCutPct = 50
    MaxPerAdl = 2
    MaxMarks = 1
    MaxCloses = 1
    MaxCrashes = 1
    MaxRankings = 2
    MaxEvents = 1
    OrderMargin = 2
    MaxOrders = 1
    Callers = {c1, c2, c3}
    KeyOf <- TwoKeys
    Connections = 2
    NoCaller = NoCaller
CHECK_DEADLOCK FALSE
INVARIANTS
    CoveredOnce OrdersClearedFirst NothingHeld
PROPERTIES
    ClosedStaysClosed BadPositionsClose RestrictedLosesOrder EveryIncreaseEnds
