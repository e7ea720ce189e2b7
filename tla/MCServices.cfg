SPECIFICATION Spec
CONSTANTS
    ann = ann
    bob = bob
    d1 = d1
    e1 = e1
    e2 = e2
    t1 = t1
    r1 = r1
    r2 = r2
    w1 = w1
    w2 = w2
    c1 = c1
    c2 = c2
    o1 = o1
    o2 = o2
    Traders = {ann, bob}
    Purse <- Purses
    Wallets <- Rosters
    SpotPrices = {1, 2}
    SpotSizes = {1, 2}
    QuoteSizes = {3}
    SpotTifs = {"gtc", "ioc", "post", "market"}
    MaxSpotOrders = 3
    MaxSpotFaults = 1
    Deposits = {d1}
    Worth <- Worths
    Requests = {r1, r2}
    WithdrawSizes = {1, 2}
    Depth = 1
    MaxBlocks = 4
    MaxVaultEvents = 1
    Payments = {e1, e2}
    TxOf <- OneTransaction
    PaymentSize = 2
    Withdrawals = {w1, w2}
    Amounts = {1}
    OtherLocks = 1
    MaxChain = 3
    MaxErrors = 1
    Above = 2
    Below = 1
    Marks = {1, 2}
    Usd = {0, 2}
    LimitKinds = {"tp"}
    Lot = 1
    MaxTriggers = 2
    MaxTrades = 2
    MaxTroubles = 1
    MaxWindows = 0
    Savers = {ann}
    Quota = 2
    PerUser = 2
    MaxJoins = 2
    MaxRequests = 2
    MaxHitches = 1
    Calls = {c1, c2}
    ApiOrders = {o1, o2}
    Lots = {1, 2}
    ApiPrices = {1, 2}
    ApiKinds = {"limit", "market", "trigger"}
    ApiDeposit = 6
    Opposite = 2
    MaxCalls = 2
    MaxApiFaults = 1
CHECK_DEADLOCK FALSE
INVARIANTS
    LocksCovered BookAndRowsAgree AccountIsVault CustodyBalanced StopsBelong FiredAndTold EarnFollows ApiKeepsBooks
