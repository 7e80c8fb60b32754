\* Two levels, three orders: a level can hold all three, so that heads, tails
\* and middle nodes are removed; quantities 1 and 2 give partial fills.
CONSTANTS
  OrderIds = {o1, o2, o3}
  kInvalidOrderId = none
  Accounts = {1}
  Prices = {4, 5}
  Quantities = {1, 2}
  TimesInForce = {"Gtc", "Ioc"}
  MinPrice = 4
  MaxPrice = 5
  QtyModulus = 16
SPECIFICATION MirrorSpec
INVARIANTS TypeOK RepOK Uncrossed LevelTotalsExact MirrorAgrees
PROPERTIES EventsExplainBook LoopKeepsOutcome ImplementsPriceTime
SYMMETRY IdSymmetry
