\* A transport that does everything to four calls' events.
CONSTANTS
  OrderIds = {1, 2}
  kInvalidOrderId = 0
  Accounts = {1}
  Prices = {1}
  Quantities = {0, 1, 2}
  TimesInForce = {"Gtc"}
  MinPrice = 1
  MaxPrice = 1
  Symbols = {1, 2}
  max_order_qty = 2
  max_order_notional = 2
  max_open_orders_per_account = 3
  max_msgs_per_window = 9
  rate_window_ns = 1
  NotionalModulus = 100
  Times = {0}
  Journaling = FALSE
  Disciplined = TRUE
  MaxSeq = 4
  Commands <- QuotingCommands
  FaultSets = {{"duplicate"}, {"lose", "duplicate", "reorder", "restart"}}
SPECIFICATION MdSpec
INVARIANTS SubscriberIsPrefix
PROPERTIES SubscriberCatchesUp
\* MaxSeq stops the exchange.
CHECK_DEADLOCK FALSE
