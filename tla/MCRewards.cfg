SPECIFICATION RewardsSpec
CONSTANTS
    Trades = {t1, t2}
    Recovery = recovery
    QueueCap = 1
    MaxConcurrent = 2
    MaxAttempts = 2
    MaxTries = 2
    RecoveryRuns = TRUE
    MaxFaults = 2
    MaxPanics = 1
    MaxCrashes = 1
    None = None
    f1 = f1
    f2 = f2
    xa = xa
    ra = ra
    rb = rb
    q1 = q1
    q2 = q2
    Fees = {f1, f2}
    Referees = {xa}
    Referrers = {ra, rb}
    Forms = {q1, q2}
    TraderOf <- OneTrader
    MayRefer <- AnyOrder
    Nobody = Nobody
    SyncTries = 2
    MaxSlips = 1
    MaxRestarts = 1
    ann = ann
    bob = bob
    cid = cid
    p1 = p1
    p2 = p2
    k1 = k1
    k2 = k2
    Users = {ann, bob, cid}
    Deals = {p1, p2}
    MakerOf <- Makers
    TakerOf <- Takers
    Closes = {k1, k2}
    CloserOf <- Closers
    Holders <- OpenPositions
    ReferrerOf <- Introduced
    NoReferrer = NoReferrer
    DayCap <- Limits
    WeekCap = 3
    RpCap = 3
    RpAmount = 2
    RawPoints = {2}
    LastDay = 4
    WeekOf <- Weeks
    YearOf <- Years
    MaxBatches = 1
    MaxMishaps = 1
SYMMETRY Symmetry
CHECK_DEADLOCK FALSE
INVARIANTS
    TypeOK
    FilledOncePerTrade
    MarkedMeansApplied
    AppliedOnceUnlessDisturbed
    CommissionFollows
    LimitsHold
