SPECIFICATION Spec
CONSTANTS
    Requests = {r1, r2}
    Orders = {o1, o2}
    Quantities = {1, 2}
    Kinds = {"limit", "market"}
    Amendable = {o1}
    Collateral = 1
    Buffer = 1
    Deposit = 6
    MaxCancels = 2
    MaxAmends = 1
    MaxFaults = 2
    o1 = o1
    None = None
SYMMETRY Symmetry
CONSTRAINT OneDisturbed
CHECK_DEADLOCK FALSE
INVARIANTS
    TypeOK CancelHolds FilledNeverOverstated CoveredUnlessDisturbed NothingVanishes
