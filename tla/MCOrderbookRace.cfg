CONSTANTS
  w1 = w1
  w2 = w2
  w3 = w3
  o1 = o1
  o2 = o2
  o3 = o3
  o4 = o4
  None = None
  Scale = 1
  Fractional = {1, 2, 3}
  Amendable = {}
  MaxCancels = 2
  Kinds = {"limit"}
  Workers = {w1, w2, w3}
  Orders = {o1, o2}
  Prices = {1}
  Quantities = {1, 2}
  Tifs = {"GTC"}
SPECIFICATION Spec
SYMMETRY Symmetry
INVARIANTS TypeOK IndexAgrees CancelIsFinal
PROPERTY ImplementsLedger
CHECK_DEADLOCK FALSE
