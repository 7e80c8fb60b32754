\* Quantities of which two already exceed the width of a quantity.
CONSTANTS
  OrderIds = {o1, o2, o3}
  kInvalidOrderId = none
  Accounts = {1}
  Prices = {4, 5}
  Quantities = {1, 3}
  TimesInForce = {"Gtc", "Ioc"}
  MinPrice = 4
  MaxPrice = 5
  QtyModulus = 4
SPECIFICATION MirrorSpec
INVARIANTS MirrorAgrees
SYMMETRY IdSymmetry
