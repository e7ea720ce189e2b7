SPECIFICATION BoundedSpec
CONSTANTS
    Workers = {w1, w2}
    Pids = {p1, p2}
    Orders = {o1, o2}
    Lots = {1, 2}
    Prices = {24, 48}
    Leverage = 2
    BufferDiv = 24
    FeePerLot = 2
    FundingFees = {1}
    LiqFee = 2
    Deposit = 100
    MinSize = 30
    MinCollateral = 4
    MmrDiv = 20
    Kinds = {"open", "close", "move", "liquidate", "fund"}
    MaxCalls = 2
    MaxEvents = 3
    Takers = {o1}
    None = None
SYMMETRY Symmetry
CHECK_DEADLOCK FALSE
INVARIANTS
    TypeOK OneSide PaidOnce Reconciled
