\* Two symbols with one level each, and a price off the ladder; five commands, so
\* that an order can fill others of both kinds; limits no command reaches.
CONSTANTS
  OrderIds = {1, 2, 3, 4}
  kInvalidOrderId = 0
  Accounts = {1, 2}
  Prices = {1, 2}
  Quantities = {0, 1, 2}
  TimesInForce = {"Gtc"}
  MinPrice = 1
  MaxPrice = 1
  Symbols = {1, 2}
  max_order_qty = 2
  max_order_notional = 6
  max_open_orders_per_account = 9
  max_msgs_per_window = 9
  rate_window_ns = 9
  NotionalModulus = 100
  Times = {1, 2, 3, 4, 5}
  Journaling = TRUE
  Disciplined = TRUE
  MaxSeq = 5
  Commands <- GeneratedCommands
  FaultSets = {{}}
SPECIFICATION BenchSpec
INVARIANTS TracksLive VerificationPasses
\* MaxSeq stops the run.
CHECK_DEADLOCK FALSE
