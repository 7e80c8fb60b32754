\* A perfect transport, and clients that use an id that rests.
CONSTANTS
  OrderIds = {1, 2}
  kInvalidOrderId = 0
  Accounts = {1}
  Prices = {1}
  Quantities = {0, 1, 2}
  TimesInForce = {"Gtc"}
  MinPrice = 1
  MaxPrice = 1
  Symbols = {1, 2}
  max_order_qty = 2
  max_order_notional = 2
  max_open_orders_per_account = 3
  max_msgs_per_window = 9
  rate_window_ns = 1
  NotionalModulus = 100
  Times = {0}
  Journaling = FALSE
  Disciplined = FALSE
  MaxSeq = 3
  Commands <- CollidingCommands
  FaultSets = {{}}
SPECIFICATION MdSpec
INVARIANTS SubscriberAgrees
\* MaxSeq stops the exchange.
CHECK_DEADLOCK FALSE
