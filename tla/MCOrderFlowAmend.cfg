SPECIFICATION Spec
CONSTANTS
    Requests = {r1}
    Orders = {o1}
    Quantities = {2}
    Kinds = {"limit"}
    Amendable = {o1}
    Collateral = 1
    Buffer = 1
    Deposit = 6
    MaxCancels = 1
    MaxAmends = 1
    MaxFaults = 0
    o1 = o1
    None = None

CHECK_DEADLOCK FALSE
INVARIANTS
    NoOverfill
