\* exchange_replay, with the events a replay publishes.
CONSTANTS
  OrderIds = {1, 2}
  kInvalidOrderId = 0
  Accounts = {1}
  Prices = {0, 1, 2}
  Quantities = {0, 1, 2}
  TimesInForce = {"Gtc"}
  MinPrice = 1
  MaxPrice = 1
  Symbols = {1, 2}
  max_order_qty = 3
  max_order_notional = 3
  max_open_orders_per_account = 2
  max_msgs_per_window = 2
  rate_window_ns = 1
  NotionalModulus = 100
  Times = {0, 1, 2}
  Journaling = TRUE
  Disciplined = FALSE
  MaxSeq = 4
  Commands <- CarelessCommands
SPECIFICATION Spec
INVARIANTS ReplayRepublishes
\* MaxSeq stops the exchange.
CHECK_DEADLOCK FALSE
