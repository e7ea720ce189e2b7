CONSTANTS
  w1 = w1
  w2 = w2
  w3 = w3
  o1 = o1
  o2 = o2
  o3 = o3
  o4 = o4
  None = None
  Scale = 1
  Fractional = {1, 2, 3}
  Amendable = {o1}
  MaxCancels = 2
  Kinds = {"limit"}
  Workers = {w1, w2}
  Orders = {o1, o2}
  Prices = {1}
  Quantities = {1, 2}
  Tifs = {"GTC", "FOK"}
SPECIFICATION FairSpec
INVARIANT CountAgrees
PROPERTY EveryCallReturns
CHECK_DEADLOCK FALSE
