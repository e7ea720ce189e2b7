CONSTANTS
  w1 = w1
  w2 = w2
  w3 = w3
  o1 = o1
  o2 = o2
  o3 = o3
  o4 = o4
  None = None
  Scale = 1
  Fractional = {1, 2, 3}
  Amendable = {}
  MaxCancels = 0
  Kinds = {"limit", "market"}
  Workers = {w1, w2}
  Orders = {o1, o2, o3}
  Prices = {1, 2}
  Quantities = {1, 2}
  Tifs = {"GTC", "IOC", "FOK"}
SPECIFICATION WatchedSpec
SYMMETRY Symmetry
INVARIANTS FokAllOrNothing SerialBookUncrossed
CHECK_DEADLOCK FALSE
